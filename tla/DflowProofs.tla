---------------------------- MODULE DflowProofs ----------------------------
(***************************************************************************)
(* The dataflow calculator finds the longest paths, for every program,     *)
(* every latency and any number of opcodes and registers.                  *)
(***************************************************************************)
EXTENDS DflowGraph, Extremes

(* A property of the numbers up to n that fails somewhere fails first      *)
(* somewhere.                                                              *)
LEMMA FirstFailure ==
  ASSUME NEW n \in Nat, NEW Bad \in SUBSET (0 .. n), Bad # {}
  PROVE  \E m \in Bad : \A k \in Bad : m <= k
<1>1. n + 1 \in Nat /\ Bad \in SUBSET (0 .. (n + 1) - 1)
  OBVIOUS
<1>2. Min(Bad) \in Bad /\ \A x \in Bad : Min(Bad) <= x
  BY ONLY <1>1, Bad # {}, LeastAndGreatest
<1> QED  BY <1>2

LEMMA LastOf ==
  ASSUME NEW n \in Nat, NEW S \in SUBSET (0 .. n - 1), S # {}
  PROVE  Max(S) \in S /\ \A x \in S : x <= Max(S)
BY LeastAndGreatest

(* The greatest of two numbers.                                            *)
LEMMA MaxOfTwo ==
  ASSUME NEW a \in Int, NEW b \in Int
  PROVE  Max({a, b}) = IF a >= b THEN a ELSE b
BY DEF Max

-----------------------------------------------------------------------------
(* The recursive function End: its equation, on every finite set of        *)
(* instructions with latencies.                                            *)
EndsBy(s, e) ==
  e = [k \in s |-> IF Before(s, k) = {} THEN Lat(k)
                   ELSE e[Max(Before(s, k))] + Lat(k)]

LEMMA InBefore ==
  ASSUME NEW s, NEW j, NEW k
  PROVE  j \in Before(s, k) <=> j \in s /\ j < k
BY Zenon DEF Before

LEMMA Numbers ==
  ASSUME NEW s \in SUBSET Nat, NEW k \in Nat
  PROVE  Before(s, k) \in SUBSET s /\ Before(s, k) \in SUBSET (0 .. k - 1)
<1>1. \A j \in Before(s, k) : j \in s /\ j < k
  BY InBefore
<1>2. \A j \in s : j \in Nat
  OBVIOUS
<1>3. ASSUME NEW j \in Before(s, k) PROVE j \in 0 .. k - 1
  <2>1. j \in Nat /\ j < k
    BY <1>1, <1>2
  <2> QED  BY <2>1
<1> QED  BY <1>1, <1>3, Zenon

LEMMA BeforeIsBefore ==
  ASSUME NEW s \in SUBSET Nat, NEW k \in Nat, Before(s, k) # {}
  PROVE  /\ Max(Before(s, k)) \in s /\ Max(Before(s, k)) < k
         /\ Max(Before(s, k)) \in Before(s, k)
         /\ \A j \in s : j < k => j <= Max(Before(s, k))
<1>1. Before(s, k) \in SUBSET (0 .. k - 1)
  BY Numbers
<1>2. /\ Max(Before(s, k)) \in Before(s, k)
      /\ \A x \in Before(s, k) : x <= Max(Before(s, k))
  BY <1>1, LastOf
<1> QED  BY <1>2 DEF Before

(* Two functions with that equation agree as far as their sets do.         *)
LEMMA EndUnique ==
  ASSUME NEW s \in SUBSET Nat, NEW t \in SUBSET Nat, NEW m \in Nat,
         Before(s, m) = Before(t, m),
         NEW d, NEW e, EndsBy(s, d), EndsBy(t, e)
  PROVE  \A k \in Before(s, m) : d[k] = e[k]
<1> DEFINE Bad == {k \in Before(s, m) : d[k] # e[k]}
<1> SUFFICES ASSUME Bad # {} PROVE FALSE
  OBVIOUS
<1>1. Bad \in SUBSET (0 .. m)
  <2>1. \A k \in Before(s, m) : k \in 0 .. m
    BY Numbers
  <2> QED  BY <2>1
<1>2. PICK k \in Bad : \A j \in Bad : k <= j
  <2> HIDE DEF Bad
  <2> QED  BY <1>1, FirstFailure
<1>3. k \in s /\ k \in t /\ k < m /\ k \in Nat
  BY DEF Before
<1>4. Before(s, k) = Before(t, k)
  <2>1. \A j \in Nat : j < k => (j \in s <=> j \in t)
    <3>1. \A j : j \in s /\ j < m <=> j \in t /\ j < m
      BY InBefore
    <3> QED  BY <1>3, <3>1
  <2> QED  BY <2>1 DEF Before
<1>5. /\ d[k] = IF Before(s, k) = {} THEN Lat(k) ELSE d[Max(Before(s, k))] + Lat(k)
      /\ e[k] = IF Before(s, k) = {} THEN Lat(k) ELSE e[Max(Before(s, k))] + Lat(k)
  BY <1>3, <1>4, Zenon DEF EndsBy
<1>6. CASE Before(s, k) = {}
  BY <1>5, <1>6
<1>7. CASE Before(s, k) # {}
  <2> DEFINE p == Max(Before(s, k))
  <2>1. p \in s /\ p < k
    BY <1>3, <1>7, BeforeIsBefore
  <2> HIDE DEF p
  <2>2. d[p] = e[p]
    <3>1. p \in Before(s, m) /\ ~(k <= p)
      BY <1>3, <2>1 DEF Before
    <3> QED  BY <1>2, <3>1
  <2> QED  BY <1>5, <1>7, <2>2 DEF p
<1> QED  BY <1>6, <1>7

(* One instruction more.                                                   *)
LEMMA EndExtends ==
  ASSUME NEW s \in SUBSET Nat,
         \A k \in s : Lat(k) \in Nat,
         NEW m \in Nat,
         NEW e \in [Before(s, m) -> Nat], EndsBy(Before(s, m), e)
  PROVE  \E f \in [Before(s, m + 1) -> Nat] : EndsBy(Before(s, m + 1), f)
<1> DEFINE S == Before(s, m + 1)
           T == Before(s, m)
           p(k) == Max(Before(S, k))
           new == IF Before(S, m) = {} THEN Lat(m) ELSE e[p(m)] + Lat(m)
           f == [k \in S |-> IF k = m THEN new ELSE e[k]]
<1>1. S \in SUBSET Nat /\ \A k \in S : k \in s /\ (k = m \/ k \in T)
  <2>1. ASSUME NEW k \in S PROVE k \in s /\ (k = m \/ k \in T)
    <3>1. k \in s /\ k \in Nat /\ k < m + 1
      BY InBefore
    <3>2. k = m \/ k < m
      BY <3>1
    <3> QED  BY <3>1, <3>2, InBefore
  <2>2. \A k \in s : k \in Nat
    OBVIOUS
  <2> QED  BY <2>1, <2>2, Zenon
<1>2. \A k : (k \in S <=> k \in s /\ k < m + 1) /\ (k \in T <=> k \in s /\ k < m)
  BY InBefore
<1> HIDE DEF S, T
<1>9. ASSUME NEW k \in S PROVE Before(S, k) \in SUBSET T
  <2>1. ASSUME NEW j \in Before(S, k) PROVE j \in T
    <3>1. j \in S /\ j < k
      BY InBefore
    <3>2. j \in Nat /\ k \in Nat /\ j \in s /\ k < m + 1
      BY <1>1, <1>2, <3>1
    <3>3. j < m
      BY <3>1, <3>2
    <3> QED  BY <1>2, <3>2, <3>3
  <2> QED  BY <2>1, Zenon
<1>3. ASSUME NEW k \in T
      PROVE  Before(S, k) = Before(T, k) /\ k # m /\ k \in S
  <2>1. k \in s /\ k \in Nat /\ k < m
    BY <1>2
  <2>2. \A j : j \in Before(S, k) <=> j \in s /\ j < m + 1 /\ j < k
    BY <1>2, InBefore, Zenon
  <2>3. \A j : j \in Before(T, k) <=> j \in s /\ j < m /\ j < k
    BY <1>2, InBefore, Zenon
  <2>4. \A j \in s : j < k => j < m /\ j < m + 1
    BY <2>1
  <2>5. Before(S, k) = Before(T, k)
    BY <2>2, <2>3, <2>4, Zenon
  <2> QED  BY <1>2, <2>1, <2>5
<1>4. \A k \in S : Before(S, k) # {} => p(k) \in T
  <2> SUFFICES ASSUME NEW k \in S, Before(S, k) # {} PROVE p(k) \in T
    OBVIOUS
  <2>1. k \in Nat
    BY <1>1
  <2>2. p(k) \in Before(S, k)
    BY <1>1, <2>1, BeforeIsBefore
  <2> QED  BY <1>9, <2>2
<1> HIDE DEF p
<1>5. m \in S => new \in Nat
  <2>1. e \in [T -> Nat]
    BY DEF T
  <2> QED  BY <1>1, <1>4, <2>1
<1>6. f \in [S -> Nat]
  <2>1. e \in [T -> Nat]
    BY DEF T
  <2> HIDE DEF new
  <2> QED  BY <1>1, <1>5, <2>1
<1>7. ASSUME NEW k \in S
      PROVE  f[k] = IF Before(S, k) = {} THEN Lat(k) ELSE f[p(k)] + Lat(k)
  <2>1. Before(S, k) # {} => f[p(k)] = e[p(k)]
    BY <1>3, <1>4
  <2>2. CASE k = m
    <3>1. f[k] = new
      BY <2>2
    <3> QED  BY <2>1, <2>2, <3>1
  <2>3. CASE k # m
    <3>1. k \in T
      BY <1>1, <2>3
    <3>2. f[k] = e[k]
      BY <2>3
    <3>3. e[k] = IF Before(T, k) = {} THEN Lat(k) ELSE e[Max(Before(T, k))] + Lat(k)
      BY <3>1, Zenon DEF EndsBy, T
    <3>4. Before(T, k) = Before(S, k)
      BY <1>3, <3>1
    <3> QED  BY <2>1, <3>2, <3>3, <3>4 DEF p
  <2> QED  BY <2>2, <2>3
<1>8. EndsBy(S, f)
  <2> HIDE DEF f
  <2> QED  BY <1>6, <1>7 DEF EndsBy, p
<1> QED  BY <1>6, <1>8 DEF S

LEMMA EndExists ==
  ASSUME NEW n \in Nat, NEW s \in SUBSET (0 .. n - 1),
         \A k \in s : Lat(k) \in Nat
  PROVE  \E e \in [s -> Nat] : EndsBy(s, e)
<1> DEFINE Good(m) == \E e \in [Before(s, m) -> Nat] : EndsBy(Before(s, m), e)
           Bad == {m \in 0 .. n : ~Good(m)}
<1>0. \A k \in s : k \in Nat /\ k < n
  OBVIOUS
<1>1. Good(0)
  <2>1. Before(s, 0) = {}
    <3>1. \A j \in Before(s, 0) : j \in s /\ j < 0
      BY Zenon DEF Before
    <3>2. \A j \in s : ~(j < 0)
      BY <1>0
    <3> QED  BY <3>1, <3>2, Zenon
  <2>2. [k \in {} |-> 0] \in [{} -> Nat] /\ EndsBy({}, [k \in {} |-> 0])
    BY DEF EndsBy
  <2> QED  BY <2>1, <2>2
<1>2. ASSUME NEW m \in Nat, Good(m) PROVE Good(m + 1)
  BY <1>0, <1>2, EndExtends
<1> HIDE DEF Good
<1>3. Bad = {}
  <2> SUFFICES ASSUME Bad # {} PROVE FALSE
    OBVIOUS
  <2>1. PICK m \in Bad : \A j \in Bad : m <= j
    <3>1. Bad \in SUBSET (0 .. n)
      OBVIOUS
    <3> HIDE DEF Bad
    <3> QED  BY <3>1, FirstFailure
  <2>2. m \in 0 .. n /\ m # 0 /\ ~Good(m)
    BY <1>1
  <2>3. m - 1 \in 0 .. n /\ m - 1 \in Nat /\ (m - 1) + 1 = m /\ ~(m <= m - 1)
    BY <2>2
  <2>4. Good(m - 1)
    BY <2>1, <2>3
  <2>5. Good(m)
    BY <1>2, <2>3, <2>4
  <2> QED  BY <2>2, <2>5
<1>4. Good(n)
  BY <1>3
<1>5. Before(s, n) = s
  BY <1>0 DEF Before
<1> QED  BY <1>4, <1>5 DEF Good

LEMMA EndEquation ==
  ASSUME NEW n \in Nat, NEW s \in SUBSET (0 .. n - 1),
         \A k \in s : Lat(k) \in Nat
  PROVE  EndsBy(s, End(s)) /\ End(s) \in [s -> Nat]
<1>1. PICK e \in [s -> Nat] : EndsBy(s, e)
  BY EndExists
<1>2. EndsBy(s, End(s))
  BY <1>1, Zenon DEF EndsBy, End
<1>3. \A k \in s : End(s)[k] = e[k]
  <2>1. Before(s, n) = s
    <3>1. \A k \in s : k < n
      OBVIOUS
    <3> QED  BY <3>1, Zenon DEF Before
  <2>2. PICK t \in SUBSET Nat : t = s
    OBVIOUS
  <2>5. PICK d : d = End(s)
    OBVIOUS
  <2>3. EndsBy(s, d) /\ EndsBy(t, e) /\ Before(s, n) = Before(t, n)
    BY <1>1, <1>2, <2>2, <2>5
  <2>4. \A k \in Before(s, n) : d[k] = e[k]
    BY <2>3, EndUnique
  <2> QED  BY <2>1, <2>4, <2>5
<1>4. End(s) = [k \in s |-> End(s)[k]]
  BY <1>2, Zenon DEF EndsBy
<1> QED  BY <1>1, <1>2, <1>3, <1>4

-----------------------------------------------------------------------------
(* What one instruction reads is written, or nothing is before it; that is *)
(* so of all that an instruction depends on.                               *)
WellRead(k) == k = 0 \/ ReadsWritten(k)

WellBehind(k) == \A j \in UNION PathsTo(k) : WellRead(j)

(* Times for the instructions below n: one takes its latency, or ends a    *)
(* latency behind a source before it, and behind each of them.             *)
Times(n, D) ==
  \A k \in 0 .. n - 1 :
    /\ Lat(k) \in Nat /\ D[k] >= Lat(k)
    /\ WellRead(k) =>
         /\ \A p \in Sources(k) : p \in 0 .. k - 1 => D[k] >= D[p] + Lat(k)
         /\ \/ D[k] = Lat(k)
            \/ \E p \in Sources(k) : p \in 0 .. k - 1 /\ D[k] = D[p] + Lat(k)

(* The last step of a path.                                                *)
LEMMA EndOf ==
  ASSUME NEW n \in Nat, NEW s \in SUBSET (0 .. n - 1),
         \A k \in s : Lat(k) \in Nat, NEW k \in s
  PROVE  /\ End(s)[k] \in Nat
         /\ Before(s, k) = {} => End(s)[k] = Lat(k)
         /\ Before(s, k) # {} => End(s)[k] = End(s)[Max(Before(s, k))] + Lat(k)
<1>1. EndsBy(s, End(s)) /\ End(s) \in [s -> Nat]
  BY EndEquation
<1>2. End(s)[k] = IF Before(s, k) = {} THEN Lat(k)
                  ELSE End(s)[Max(Before(s, k))] + Lat(k)
  BY <1>1, Zenon DEF EndsBy
<1> QED  BY <1>1, <1>2

(* No path to an instruction takes longer.                                 *)
LEMMA NoLonger ==
  ASSUME NEW n \in Nat, NEW D \in [0 .. n - 1 -> Nat], Times(n, D),
         NEW s \in SUBSET (0 .. n - 1), Path(s), \A k \in s : WellRead(k)
  PROVE  \A k \in s : End(s)[k] <= D[k]
<1> DEFINE Bad == {k \in s : ~(End(s)[k] <= D[k])}
<1> SUFFICES ASSUME Bad # {} PROVE FALSE
  OBVIOUS
<1>0. \A k \in s : k \in Nat /\ k \in 0 .. n - 1 /\ Lat(k) \in Nat
  BY DEF Times
<1>1. Bad \in SUBSET (0 .. n)
  <2>1. \A k \in s : k \in 0 .. n
    BY <1>0
  <2> QED  BY <2>1
<1>2. PICK k \in Bad : \A j \in Bad : k <= j
  <2> HIDE DEF Bad
  <2> QED  BY <1>1, FirstFailure
<1>3. k \in s /\ k \in Nat /\ k \in 0 .. n - 1 /\ D[k] \in Nat /\ Lat(k) \in Nat
  BY <1>0
<1>4. D[k] >= Lat(k)
  BY <1>3 DEF Times
<1>5. CASE Before(s, k) = {}
  <2>1. End(s)[k] = Lat(k)
    BY <1>0, <1>3, <1>5, EndOf
  <2> QED  BY <1>3, <1>4, <2>1
<1>6. CASE Before(s, k) # {}
  <2> DEFINE p == Max(Before(s, k))
  <2>1. p \in s /\ p < k
    BY <1>0, <1>3, <1>6, BeforeIsBefore
  <2>2. p \in Sources(k)
    BY <1>3, <1>6 DEF Path
  <2>3. End(s)[k] = End(s)[p] + Lat(k)
    BY <1>0, <1>3, <1>6, EndOf
  <2> HIDE DEF p
  <2>4. p \in Nat /\ p \in 0 .. n - 1 /\ p \in 0 .. k - 1 /\ D[p] \in Nat
    BY <1>0, <1>3, <2>1
  <2>5. End(s)[p] <= D[p]
    <3>1. ~(k <= p)
      BY <1>3, <2>1, <2>4
    <3> QED  BY <1>2, <2>1, <3>1
  <2>6. D[k] >= D[p] + Lat(k)
    BY <1>3, <2>2, <2>4 DEF Times
  <2>7. End(s)[p] \in Nat
    BY <1>0, <2>1, EndOf
  <2> QED  BY <1>3, <2>3, <2>4, <2>5, <2>6, <2>7
<1> QED  BY <1>5, <1>6

(* A path and one more instruction that depends on its last one.           *)
LEMMA OneMore ==
  ASSUME NEW k \in Nat, \A j \in 0 .. k : Lat(j) \in Nat,
         NEW p \in 0 .. k - 1, p \in Sources(k),
         NEW s \in PathsTo(p)
  PROVE  /\ s \cup {k} \in PathsTo(k)
         /\ End(s \cup {k})[k] = End(s)[p] + Lat(k)
<1> DEFINE t == s \cup {k}
<1>1. s \in SUBSET (0 .. p) /\ p \in s /\ Path(s)
  BY DEF PathsTo
<1>2. \A j \in s : j \in Nat /\ j <= p /\ j < k /\ j \in 0 .. k
  BY <1>1
<1>3. t \in SUBSET (0 .. (k + 1) - 1) /\ t \in SUBSET Nat /\ t \in SUBSET (0 .. k) /\ k \in t
  BY <1>2
<1>4. ASSUME NEW j \in s PROVE Before(t, j) = Before(s, j)
  <2>1. ~(k < j)
    BY <1>2
  <2> QED  BY <2>1, Zenon DEF Before
<1>5. Before(t, k) = s /\ Before(s, k) = s
  <2>1. ~(k < k)
    OBVIOUS
  <2> QED  BY <1>2, <2>1, Zenon DEF Before
<1> HIDE DEF t
<1>6. Max(s) = p
  <2>1. Max(s) \in s /\ \A j \in s : j <= Max(s)
    <3>1. s \in SUBSET (0 .. k - 1) /\ s # {}
      BY <1>1, <1>2
    <3> QED  BY <3>1, LastOf
  <2>2. Max(s) \in Nat /\ Max(s) <= p /\ p <= Max(s)
    BY <1>1, <1>2, <2>1
  <2> QED  BY <2>2
<1>7. \A j \in t : j \in s \/ j = k
  BY DEF t
<1>8. Path(t)
  <2> SUFFICES ASSUME NEW j \in t, Before(t, j) # {}
               PROVE  Max(Before(t, j)) \in Sources(j)
    BY DEF Path
  <2>1. CASE j \in s
    BY <1>1, <1>4, <2>1 DEF Path
  <2>2. CASE j = k
    BY <1>5, <1>6, <2>2
  <2> QED  BY <1>7, <2>1, <2>2
<1>9. t \in PathsTo(k)
  BY <1>3, <1>8 DEF PathsTo
<1>10. End(t)[k] = End(t)[p] + Lat(k)
  <2>1. \A j \in t : Lat(j) \in Nat
    BY <1>3
  <2>2. Before(t, k) # {} /\ Max(Before(t, k)) = p
    BY <1>1, <1>5, <1>6
  <2>3. k + 1 \in Nat
    OBVIOUS
  <2> QED  BY <1>3, <2>1, <2>2, <2>3, EndOf
<1>11. End(t)[p] = End(s)[p]
  <2>1. EndsBy(t, End(t)) /\ EndsBy(s, End(s))
    <3>1. \A j \in t : Lat(j) \in Nat
      BY <1>3
    <3>2. \A j \in s : Lat(j) \in Nat
      BY <1>2
    <3>3. k + 1 \in Nat /\ s \in SUBSET (0 .. (k + 1) - 1)
      BY <1>2
    <3> QED  BY <1>3, <3>1, <3>2, <3>3, EndEquation
  <2>2. PICK u \in SUBSET Nat, v \in SUBSET Nat : u = t /\ v = s
    BY <1>2, <1>3
  <2>5. PICK d, e : d = End(t) /\ e = End(s)
    OBVIOUS
  <2>3. EndsBy(u, d) /\ EndsBy(v, e) /\ Before(u, k) = Before(v, k)
    BY <1>5, <2>1, <2>2, <2>5
  <2>4. \A j \in Before(u, k) : d[j] = e[j]
    BY <2>3, EndUnique
  <2> QED  BY <1>1, <1>5, <2>2, <2>4, <2>5
<1> QED  BY <1>9, <1>10, <1>11 DEF t

(* The instruction alone is a path to it.                                  *)
LEMMA Alone ==
  ASSUME NEW k \in Nat, Lat(k) \in Nat
  PROVE  {k} \in PathsTo(k) /\ End({k})[k] = Lat(k)
<1> DEFINE s == {k}
<1>1. s \in SUBSET (0 .. (k + 1) - 1) /\ s \in SUBSET (0 .. k) /\ k + 1 \in Nat /\ k \in s
  OBVIOUS
<1>2. \A j \in s : Before(s, j) = {}
  <2>1. ~(k < k)
    OBVIOUS
  <2> QED  BY <2>1, Zenon DEF Before
<1>3. \A j \in s : Lat(j) \in Nat
  OBVIOUS
<1> HIDE DEF s
<1>4. End(s)[k] = Lat(k)
  BY <1>1, <1>2, <1>3, EndOf
<1>5. s \in PathsTo(k)
  BY <1>1, <1>2 DEF PathsTo, Path
<1> QED  BY <1>4, <1>5 DEF s

(* What an instruction depends on is well read if the instruction is.      *)
LEMMA WellDown ==
  ASSUME NEW k \in Nat, \A j \in 0 .. k : Lat(j) \in Nat, WellBehind(k)
  PROVE  /\ WellRead(k)
         /\ \A p \in Sources(k) : p \in 0 .. k - 1 => WellBehind(p)
<1>1. WellRead(k)
  <2>1. {k} \in PathsTo(k)
    BY Alone
  <2>2. k \in UNION PathsTo(k)
    BY <2>1
  <2> QED  BY <2>2 DEF WellBehind
<1>2. ASSUME NEW p \in Sources(k), p \in 0 .. k - 1, NEW s \in PathsTo(p), NEW j \in s
      PROVE  WellRead(j)
  <2>1. s \cup {k} \in PathsTo(k)
    BY <1>2, OneMore
  <2>2. j \in UNION PathsTo(k)
    BY <2>1
  <2> QED  BY <2>2 DEF WellBehind
<1> QED  BY <1>1, <1>2 DEF WellBehind

(* To every such instruction there is a path that takes its time.          *)
LEMMA NoShorter ==
  ASSUME NEW n \in Nat, NEW D \in [0 .. n - 1 -> Nat], Times(n, D)
  PROVE  \A k \in 0 .. n - 1 :
           WellBehind(k) => \E s \in PathsTo(k) : End(s)[k] = D[k]
<1> DEFINE Good(k) == \E s \in PathsTo(k) : End(s)[k] = D[k]
           Bad == {k \in 0 .. n - 1 : WellBehind(k) /\ ~Good(k)}
<1> SUFFICES ASSUME Bad # {} PROVE FALSE
  OBVIOUS
<1>1. PICK k \in Bad : \A j \in Bad : k <= j
  <2>1. Bad \in SUBSET (0 .. n)
    <3> HIDE DEF Good
    <3> QED  OBVIOUS
  <2> HIDE DEF Bad
  <2> QED  BY <2>1, FirstFailure
<1>2. k \in 0 .. n - 1 /\ k \in Nat /\ WellBehind(k) /\ ~Good(k)
  OBVIOUS
<1>3. \A j \in 0 .. k : Lat(j) \in Nat
  BY <1>2 DEF Times
<1>6. WellRead(k) /\ \A p \in Sources(k) : p \in 0 .. k - 1 => WellBehind(p)
  BY <1>2, <1>3, WellDown
<1>4. CASE D[k] = Lat(k)
  <2>1. {k} \in PathsTo(k) /\ End({k})[k] = Lat(k)
    BY <1>2, <1>3, Alone
  <2> QED  BY <1>2, <1>4, <2>1
<1>5. CASE \E p \in Sources(k) : p \in 0 .. k - 1 /\ D[k] = D[p] + Lat(k)
  <2>1. PICK p \in Sources(k) : p \in 0 .. k - 1 /\ D[k] = D[p] + Lat(k)
    BY <1>5
  <2>2. Good(p)
    <3>1. p \in 0 .. n - 1 /\ ~(k <= p) /\ WellBehind(p)
      BY <1>2, <1>6, <2>1
    <3> HIDE DEF Good
    <3> QED  BY <1>1, <3>1
  <2>3. PICK s \in PathsTo(p) : End(s)[p] = D[p]
    BY <2>2
  <2>4. s \cup {k} \in PathsTo(k) /\ End(s \cup {k})[k] = End(s)[p] + Lat(k)
    BY <1>2, <1>3, <2>1, OneMore
  <2>5. End(s \cup {k})[k] = D[k]
    BY <2>1, <2>3, <2>4
  <2> QED  BY <1>2, <2>4, <2>5
<1> QED  BY <1>2, <1>4, <1>5, <1>6 DEF Times

LEMMA LongestIs ==
  ASSUME NEW n \in Nat, NEW D \in [0 .. n - 1 -> Nat], Times(n, D),
         NEW k \in 0 .. n - 1, WellBehind(k)
  PROVE  Longest(k) = D[k]
<1> DEFINE S == {End(s)[k] : s \in PathsTo(k)}
<1>1. D[k] \in S /\ D[k] \in Nat
  <2>1. PICK s \in PathsTo(k) : End(s)[k] = D[k]
    BY NoShorter
  <2> QED  BY <2>1
<1>2. ASSUME NEW x \in S PROVE x \in Nat /\ x <= D[k]
  <2>1. PICK s \in PathsTo(k) : x = End(s)[k]
    OBVIOUS
  <2>2. s \in SUBSET (0 .. n - 1) /\ k \in s /\ Path(s)
    <3>1. s \in SUBSET (0 .. k) /\ k \in s /\ Path(s)
      BY DEF PathsTo
    <3> QED  BY <3>1
  <2>3. \A j \in s : Lat(j) \in Nat
    BY <2>2 DEF Times
  <2>4. End(s)[k] \in Nat
    BY <2>2, <2>3, EndOf
  <2>5. End(s)[k] <= D[k]
    <3>1. \A j \in s : WellRead(j)
      BY DEF WellBehind
    <3> QED  BY <2>2, <3>1, NoLonger
  <2> QED  BY <2>1, <2>4, <2>5
<1> HIDE DEF S
<1>3. Max(S) = D[k]
  BY <1>1, <1>2 DEF Max
<1> QED  BY <1>3 DEF Longest, S

-----------------------------------------------------------------------------
(* Where analyzeProg says that an operand comes from: dstHelp starts with  *)
(* the entry for register 0 and with instruction 0 for the other ones.     *)
CodeSource(k, r) == IF Writers(k, r) # {} THEN Max(Writers(k, r))
                    ELSE IF r = 0 THEN -1 ELSE 0

CodeSources(k) ==
  {CodeSource(k, prog[k].src1), CodeSource(k, prog[k].src2)} \ {-1}

(* That is one instruction further: the graph as the loop builds it.       *)
LEMMA SourceRange ==
  ASSUME NEW k \in Nat, NEW r
  PROVE  CodeSource(k, r) \in -1 .. k - 1 \/ CodeSource(k, r) = 0
<1>1. Writers(k, r) \in SUBSET (0 .. k - 1)
  BY DEF Writers
<1>2. Writers(k, r) # {} => Max(Writers(k, r)) \in Writers(k, r)
  BY <1>1, LastOf
<1> QED  BY <1>1, <1>2 DEF CodeSource

LEMMA NextSource ==
  ASSUME NEW k \in Nat, NEW r
  PROVE  CodeSource(k + 1, r) = IF prog[k].dst = r THEN k ELSE CodeSource(k, r)
<1>1. 0 .. (k + 1) - 1 = (0 .. k - 1) \cup {k}
  OBVIOUS
<1>2. CASE prog[k].dst = r
  <2>1. Writers(k + 1, r) \in SUBSET (0 .. (k + 1) - 1) /\ k \in Writers(k + 1, r)
    BY <1>1, <1>2 DEF Writers
  <2>2. /\ Max(Writers(k + 1, r)) \in Writers(k + 1, r)
        /\ \A x \in Writers(k + 1, r) : x <= Max(Writers(k + 1, r))
    <3>1. k + 1 \in Nat /\ Writers(k + 1, r) # {}
      BY <2>1
    <3> QED  BY <2>1, <3>1, LastOf
  <2>3. Max(Writers(k + 1, r)) = k
    BY <2>1, <2>2
  <2> QED  BY <1>2, <2>1, <2>3 DEF CodeSource
<1>3. CASE prog[k].dst # r
  <2>1. Writers(k + 1, r) = Writers(k, r)
    BY <1>1, <1>3 DEF Writers
  <2> QED  BY <1>3, <2>1 DEF CodeSource
<1> QED  BY <1>2, <1>3

(* It depends on the program and the latencies only.                       *)
LEMMA SameGraph ==
  ASSUME prog' = prog, opsLatency' = opsLatency
  PROVE  /\ \A k, r : CodeSource(k, r)' = CodeSource(k, r)
         /\ \A k : Lat(k)' = Lat(k) /\ CodeSources(k)' = CodeSources(k)
<1>1. \A k, r : Writers(k, r)' = Writers(k, r)
  BY DEF Writers
<1>2. \A k, r : CodeSource(k, r)' = CodeSource(k, r)
  BY <1>1 DEF CodeSource
<1> QED  BY <1>2 DEF CodeSources, Lat

-----------------------------------------------------------------------------
(* The inductive invariant.  What the file said has its type; behind the   *)
(* loop of analyzeProg the elements are those of the graph, in front of it *)
(* they are new, and dstHelp holds the last writers.                       *)
Elems == [lat : Nat, src1D : Int, src2D : Int, entry : {0, 1}, exit : {0, 1},
          dur : Nat]

(* When the source d of k ends.                                            *)
Wait(k, d) == IF d \in {-1, k} THEN 0 ELSE c[d].dur

Found(k) ==
  /\ InRange(prog[k])
  /\ c[k].lat = Lat(k)
  /\ c[k].src1D = CodeSource(k, prog[k].src1) /\ c[k].src2D = CodeSource(k, prog[k].src2)
  /\ c[k].dur = Max({Wait(k, c[k].src1D), Wait(k, c[k].src2D)}) + Lat(k)

(* The instructions below n on which one below n depends.                  *)
IsSource(n, k) == \E j \in 0 .. n - 1 : k \in CodeSources(j)

Loaded ==
  /\ phase \in {"latencies", "program", "call", "analysis", "queries", "wild",
                "failed", "done"}
  /\ opsLatency \in [Registers -> Nat]
  /\ lineNum \in Nat /\ prog \in [Insts -> Instructions]
  /\ maxInsts \in lineNum .. lineNum + Quota
  /\ i \in Nat
  /\ dstHelp \in [Registers -> -1 .. Max({0, lineNum - 1})]
  /\ phase \in {"call", "analysis", "queries"} => lineNum > 0

Walking ==
  /\ i <= lineNum
  /\ c \in [Insts -> Elems]
  /\ \A r \in Registers : dstHelp[r] = CodeSource(i, r)
  /\ \A k \in 0 .. i - 1 : Found(k) /\ (c[k].exit = 0 <=> IsSource(i, k))
  /\ \A k \in i .. lineNum - 1 : c[k] = NewElem

DflowInv ==
  /\ Loaded
  /\ phase \in {"analysis", "queries", "done"} => Walking
  /\ phase \in {"queries", "done"} => i = lineNum

LEMMA InitInv == Init => DflowInv
<1> SUFFICES ASSUME Init PROVE DflowInv
  OBVIOUS
<1> USE DataflowAssumption, MainAssumption DEF Init
<1>1. Max({0, lineNum - 1}) = 0
  BY MaxOfTwo
<1>2. NobodyWrote \in [Registers -> -1 .. 0]
  BY DEF NobodyWrote
<1>3. prog \in [Insts -> Instructions]
  BY DEF Insts
<1>4. opsLatency \in [Registers -> Nat] /\ maxInsts \in lineNum .. lineNum + Quota
  OBVIOUS
<1> QED  BY <1>1, <1>2, <1>3, <1>4 DEF DflowInv, Loaded

(* The turn of the loop, in two halves: what becomes of the elements ...   *)
LEMMA TurnElems ==
  ASSUME Loaded, Walking, AnalyzeInst, opsLatency' = opsLatency, prog' = prog,
         lineNum' = lineNum
  PROVE  /\ i \in Insts /\ c' \in [Insts -> Elems]
         /\ c'[i] = Elem(prog[i], CodeSource(i, prog[i].src1), CodeSource(i, prog[i].src2))
         /\ \A k \in 0 .. i - 1 :
              c'[k] = IF k \in CodeSources(i) THEN [c[k] EXCEPT !.exit = 0] ELSE c[k]
         /\ \A k \in i + 1 .. lineNum - 1 : c'[k] = NewElem
         /\ c'[i].dur = Max({Wait(i, c'[i].src1D), Wait(i, c'[i].src2D)}) + Lat(i)
<1> DEFINE d1 == CodeSource(i, prog[i].src1)
           d2 == CodeSource(i, prog[i].src2)
           mine == Elem(prog[i], d1, d2)
<1>1. i \in Insts /\ i \in Nat /\ lineNum \in Nat /\ InRange(prog[i])
  BY DEF AnalyzeInst, Loaded, Insts
<1>2. prog[i].src1 \in Registers /\ prog[i].src2 \in Registers /\ prog[i].opcode \in Registers
  BY <1>1 DEF InRange
<1>3. Writer(prog[i], prog[i].src1) = d1 /\ Writer(prog[i], prog[i].src2) = d2
  BY <1>2 DEF Writer, Walking
<1>4. (d1 \in -1 .. i - 1 \/ d1 = 0) /\ (d2 \in -1 .. i - 1 \/ d2 = 0)
  BY <1>1, SourceRange
<1>5. c' = [k \in Insts |->
             IF k = i THEN mine
             ELSE IF k \in {d1, d2} THEN [c[k] EXCEPT !.exit = 0]
             ELSE c[k]]
  BY <1>3 DEF AnalyzeInst
<1>6. CodeSources(i) = {d1, d2} \ {-1}
  BY DEF CodeSources
<1>7. c[i] = NewElem /\ c[i].dur = 0
  BY <1>1 DEF Walking, Insts, NewElem
<1>8. /\ Wait(i, d1) \in Nat /\ Dur(d1) = Wait(i, d1)
      /\ Wait(i, d2) \in Nat /\ Dur(d2) = Wait(i, d2)
  <2> SUFFICES ASSUME NEW d, d \in -1 .. i - 1 \/ d = 0
               PROVE  Wait(i, d) \in Nat /\ Dur(d) = Wait(i, d)
    BY <1>4
  <2>1. d \in {-1, i} \/ d \in Insts
    BY <1>1 DEF Insts
  <2>2. d \in Insts => c[d].dur \in Nat
    BY DEF Walking, Elems
  <2> QED  BY <1>7, <2>1, <2>2 DEF Wait, Dur
<1>9. Max({Dur(d1), Dur(d2)}) \in Nat
  BY <1>8, MaxOfTwo
<1>10. Lat(i) \in Nat /\ opsLatency[prog[i].opcode] = Lat(i)
  BY <1>2 DEF Loaded, Lat
<1>11. /\ mine.src1D = d1 /\ mine.src2D = d2
       /\ mine.dur = Max({Wait(i, d1), Wait(i, d2)}) + Lat(i)
  BY <1>8, <1>10 DEF Elem
<1>12. mine \in Elems
  <2>1. d1 \in Int /\ d2 \in Int
    BY <1>1, <1>4
  <2>2. Max({Dur(d1), Dur(d2)}) + opsLatency[prog[i].opcode] \in Nat
    BY <1>9, <1>10
  <2> QED  BY <1>10, <2>1, <2>2 DEF Elem, Elems
<1> HIDE DEF d1, d2, mine
<1>13. c'[i] = mine
  BY <1>1, <1>5
<1>14. ASSUME NEW k \in Insts
       PROVE  c[k] \in Elems /\ [c[k] EXCEPT !.exit = 0] \in Elems
  <2>1. c[k] \in Elems
    BY DEF Walking
  <2> QED  BY <2>1 DEF Elems
<1>15. c' \in [Insts -> Elems]
  BY <1>5, <1>12, <1>14
<1>16. ASSUME NEW k \in 0 .. i - 1
       PROVE  c'[k] = IF k \in CodeSources(i) THEN [c[k] EXCEPT !.exit = 0] ELSE c[k]
  <2>1. k \in Insts /\ k # i /\ k # -1
    BY <1>1 DEF Insts
  <2> QED  BY <1>5, <1>6, <2>1
<1>17. ASSUME NEW k \in i + 1 .. lineNum - 1 PROVE c'[k] = NewElem
  <2>1. k \in Insts /\ k # i /\ k \notin {d1, d2} /\ k \in i .. lineNum - 1
    BY <1>1, <1>4 DEF Insts
  <2> QED  BY <1>5, <2>1 DEF Walking
<1> QED  BY <1>1, <1>11, <1>13, <1>15, <1>16, <1>17 DEF mine, d1, d2

(* ... and the invariant behind it.                                        *)
LEMMA Turn ==
  ASSUME Loaded, Walking, AnalyzeInst, opsLatency' = opsLatency, prog' = prog,
         lineNum' = lineNum
  PROVE  Walking' /\ dstHelp' \in [Registers -> -1 .. Max({0, lineNum' - 1})]
<1> DEFINE d1 == CodeSource(i, prog[i].src1)
           d2 == CodeSource(i, prog[i].src2)
<1>1. /\ i \in Insts /\ i \in Nat /\ lineNum \in Nat /\ i < lineNum
      /\ i' = i + 1 /\ InRange(prog[i])
      /\ 0 .. i' - 1 = (0 .. i - 1) \cup {i}
  BY DEF AnalyzeInst, Loaded, Insts
<1>2. Insts' = Insts /\ Registers' = Registers
  BY DEF Insts, Registers
<1>3. \A k \in Insts : c[k] \in Elems
  BY DEF Walking
<1>4. ASSUME NEW k \in 0 .. i - 1
      PROVE  /\ c'[k].lat = c[k].lat /\ c'[k].dur = c[k].dur
             /\ c'[k].src1D = c[k].src1D /\ c'[k].src2D = c[k].src2D
             /\ c'[k].exit = 0 <=> c[k].exit = 0 \/ k \in CodeSources(i)
  <2>1. k \in Insts
    BY <1>1 DEF Insts
  <2>2. c[k] \in Elems
    BY <1>3, <2>1
  <2>3. c'[k] = IF k \in CodeSources(i) THEN [c[k] EXCEPT !.exit = 0] ELSE c[k]
    BY TurnElems
  <2> QED  BY <2>2, <2>3 DEF Elems
<1>5. \A k \in 0 .. i - 1 : Found(k)'
  <2> SUFFICES ASSUME NEW k \in 0 .. i - 1 PROVE Found(k)'
    OBVIOUS
  <2>1. Found(k) /\ k \in Nat
    BY DEF Walking
  <2>2. Lat(k)' = Lat(k) /\ \A r : CodeSource(k, r)' = CodeSource(k, r)
    BY SameGraph
  <2>3. ASSUME NEW r PROVE Wait(k, CodeSource(k, r))' = Wait(k, CodeSource(k, r))
    <3>1. CodeSource(k, r)' = CodeSource(k, r)
      BY <2>2
    <3>2. CodeSource(k, r) \in {-1, k} \/ CodeSource(k, r) \in 0 .. i - 1
      BY <1>1, <2>1, SourceRange
    <3>3. CodeSource(k, r) \in 0 .. i - 1 => c'[CodeSource(k, r)].dur = c[CodeSource(k, r)].dur
      BY <1>4
    <3> QED  BY <3>1, <3>2, <3>3 DEF Wait
  <2>4. /\ Wait(k, c[k].src1D)' = Wait(k, c[k].src1D)
        /\ Wait(k, c[k].src2D)' = Wait(k, c[k].src2D)
    BY <1>4, <2>1, <2>2, <2>3 DEF Found
  <2> QED  BY <1>4, <2>1, <2>2, <2>4 DEF Found, InRange, Registers
<1>6. PICK n \in Nat : n = i
  BY <1>1
<1>7. Found(n)' /\ (c'[n].exit = 0 <=> n \in CodeSources(n))
  <2>1. /\ c'[n] = Elem(prog[i], d1, d2)
        /\ c'[n].dur = Max({Wait(n, c'[n].src1D), Wait(n, c'[n].src2D)}) + Lat(n)
    BY <1>6, TurnElems
  <2>2. Lat(n)' = Lat(n) /\ \A r : CodeSource(n, r)' = CodeSource(n, r)
    BY SameGraph
  <2>3. /\ c'[n].lat = Lat(n) /\ c'[n].src1D = d1 /\ c'[n].src2D = d2
        /\ c'[n].exit = IF n \in {d1, d2} THEN 0 ELSE 1
    BY <1>6, <2>1 DEF Elem, Lat
  <2>4. d1 = CodeSource(n, prog[n].src1) /\ d2 = CodeSource(n, prog[n].src2)
    BY <1>6
  <2>5. c'[n].exit = 0 <=> n \in CodeSources(n)
    <3>1. n # -1
      OBVIOUS
    <3> HIDE DEF d1, d2
    <3> QED  BY <2>3, <2>4, <3>1 DEF CodeSources
  <2>6. ASSUME NEW r PROVE Wait(n, CodeSource(n, r))' = Wait(n, CodeSource(n, r))
    <3>1. CodeSource(n, r)' = CodeSource(n, r)
      BY <2>2
    <3>2. CodeSource(n, r) \in {-1, n} \/ CodeSource(n, r) \in 0 .. i - 1
      BY <1>6, SourceRange
    <3>3. CodeSource(n, r) \in 0 .. i - 1 => c'[CodeSource(n, r)].dur = c[CodeSource(n, r)].dur
      BY <1>4
    <3> QED  BY <3>1, <3>2, <3>3 DEF Wait
  <2>7. /\ Wait(n, c[n].src1D)' = Wait(n, c'[n].src1D)
        /\ Wait(n, c[n].src2D)' = Wait(n, c'[n].src2D)
    BY <2>2, <2>3, <2>4, <2>6
  <2>8. InRange(prog[n])'
    BY <1>1, <1>6 DEF InRange, Registers
  <2> HIDE DEF d1, d2
  <2>9. Found(n)'
    BY <2>1, <2>2, <2>3, <2>4, <2>7, <2>8 DEF Found
  <2> QED  BY <2>5, <2>9
<1>8. ASSUME NEW k \in 0 .. i' - 1 PROVE (c'[k].exit = 0) <=> IsSource(i, k)'
  <2>1. k \in 0 .. i - 1 \/ k = n
    BY <1>1, <1>6
  <2>2. IsSource(i, k)' <=> IsSource(i, k) \/ k \in CodeSources(i)
    <3>1. \A j : CodeSources(j)' = CodeSources(j)
      BY SameGraph
    <3> QED  BY <1>1, <3>1 DEF IsSource
  <2>3. CASE k \in 0 .. i - 1
    BY <1>4, <2>2, <2>3 DEF Walking
  <2>4. CASE k = n
    <3>1. ~IsSource(i, n)
      <4> SUFFICES ASSUME NEW j \in 0 .. i - 1, n \in CodeSources(j) PROVE FALSE
        BY DEF IsSource
      <4>1. n = CodeSource(j, prog[j].src1) \/ n = CodeSource(j, prog[j].src2)
        BY DEF CodeSources
      <4>2. j \in Nat /\ j < n
        BY <1>6
      <4>3. \A r : CodeSource(j, r) \in -1 .. j - 1 \/ CodeSource(j, r) = 0
        BY <4>2, SourceRange
      <4> QED  BY <4>1, <4>2, <4>3
    <3> QED  BY <1>6, <1>7, <2>2, <2>4, <3>1
  <2> QED  BY <2>1, <2>3, <2>4
<1>9. ASSUME NEW r \in Registers PROVE dstHelp'[r] = CodeSource(i, r)'
  <2>1. CodeSource(i, r)' = CodeSource(n + 1, r)
    <3>1. CodeSource(n + 1, r)' = CodeSource(n + 1, r)
      BY SameGraph
    <3>2. CodeSource(i, r)' = CodeSource(n + 1, r)'
      BY <1>1, <1>6 DEF CodeSource, Writers
    <3> QED  BY <3>1, <3>2
  <2>2. CodeSource(n + 1, r) = IF prog[n].dst = r THEN n ELSE CodeSource(n, r)
    BY NextSource
  <2>3. dstHelp'[r] = IF prog[n].dst = r THEN n ELSE dstHelp[r]
    BY <1>6 DEF AnalyzeInst, Loaded
  <2>4. dstHelp[r] = CodeSource(n, r)
    BY <1>6 DEF Walking
  <2> QED  BY <2>1, <2>2, <2>3, <2>4
<1>10. dstHelp' \in [Registers -> -1 .. Max({0, lineNum' - 1})]
  <2>1. Max({0, lineNum - 1}) = lineNum - 1
    BY <1>1, MaxOfTwo
  <2>2. i \in -1 .. lineNum - 1
    BY <1>1
  <2> QED  BY <2>1, <2>2 DEF AnalyzeInst, Loaded
<1>11. c' \in [Insts -> Elems]
  BY TurnElems
<1>12. \A k \in i' .. lineNum' - 1 : c'[k] = NewElem
  BY <1>1, TurnElems
<1>13. \A k \in 0 .. i' - 1 : Found(k)'
  BY <1>1, <1>5, <1>6, <1>7
<1>14. Walking'
  <2>1. i' <= lineNum'
    BY <1>1
  <2>2. NewElem' = NewElem /\ Elems' = Elems
    BY DEF NewElem, Elems
  <2> QED  BY <1>2, <1>8, <1>9, <1>11, <1>12, <1>13, <2>1, <2>2 DEF Walking
<1> QED  BY <1>10, <1>14

-----------------------------------------------------------------------------
(* Steps that leave the analysis alone.                                    *)
LEMMA SameWalking ==
  ASSUME Walking, UNCHANGED <<opsLatency, prog, lineNum, analysis>>
  PROVE  Walking'
<1>1. /\ opsLatency' = opsLatency /\ prog' = prog /\ lineNum' = lineNum
      /\ c' = c /\ dstHelp' = dstHelp /\ i' = i
  BY DEF analysis
<1>2. /\ \A k, r : CodeSource(k, r)' = CodeSource(k, r)
      /\ \A k : Lat(k)' = Lat(k) /\ CodeSources(k)' = CodeSources(k)
  BY <1>1, SameGraph
<1>3. Insts' = Insts /\ Registers' = Registers /\ Elems' = Elems /\ NewElem' = NewElem
  BY <1>1 DEF Insts, Registers, Elems, NewElem
<1>4. \A k, d : Wait(k, d)' = Wait(k, d)
  BY <1>1 DEF Wait
<1>5. ASSUME NEW k PROVE Found(k)' <=> Found(k)
  BY <1>1, <1>2, <1>3, <1>4 DEF Found, InRange
<1>6. \A k : IsSource(i, k)' <=> IsSource(i, k)
  BY <1>1, <1>2 DEF IsSource
<1>7. \A r \in Registers : dstHelp'[r] = CodeSource(i, r)'
  <2>1. \A r : CodeSource(i, r)' = CodeSource(i, r)
    BY <1>1 DEF CodeSource, Writers
  <2> QED  BY <1>1, <2>1 DEF Walking
<1> QED  BY <1>1, <1>3, <1>5, <1>6, <1>7 DEF Walking

LEMMA NextInv == DflowInv /\ [Next]_mainVars => DflowInv'
<1> SUFFICES ASSUME DflowInv, [Next]_mainVars PROVE DflowInv'
  OBVIOUS
<1>0. Loaded /\ lineNum \in Nat /\ i \in Nat /\ Quota \in Nat \ {0} /\ MaxOps \in Nat \ {0}
  BY DataflowAssumption, MainAssumption DEF DflowInv, Loaded
<1>10. Registers' = Registers
  BY DEF Registers
<1>1. CASE ReadLatency
  <2>1. opsLatency' \in [Registers -> Nat]
    <3>1. \A l \in Latencies \cup {0} : l \in Nat
      BY MainAssumption
    <3> QED  BY <1>0, <1>1, <3>1 DEF ReadLatency, Loaded
  <2>3. /\ phase' = phase /\ prog' = prog /\ lineNum' = lineNum /\ dstHelp' = dstHelp
        /\ maxInsts' = maxInsts /\ i' \in Nat /\ Insts' = Insts
    BY <1>0, <1>1 DEF ReadLatency, Insts
  <2>2. Loaded'
    BY <1>0, <1>10, <2>1, <2>3 DEF Loaded
  <2> QED  BY <1>1, <2>2 DEF ReadLatency, DflowInv
<1>2. CASE LatenciesFail \/ LatenciesEnd \/ ProgramFails \/ ProgramEnd
  <2>1. /\ opsLatency' = opsLatency /\ prog' = prog /\ lineNum' = lineNum
        /\ dstHelp' = dstHelp /\ maxInsts' = maxInsts /\ i' \in Nat /\ Insts' = Insts
        /\ phase' \in {"program", "failed", "call"}
        /\ phase' = "call" => lineNum > 0
    BY <1>0, <1>2 DEF LatenciesFail, LatenciesEnd, ProgramFails, ProgramEnd, analysis,
       Insts
  <2>2. Loaded'
    BY <1>0, <1>10, <2>1 DEF Loaded
  <2> QED  BY <2>1, <2>2 DEF DflowInv
<1>3. CASE ReadInst
  <2>1. maxInsts' \in lineNum' .. lineNum' + Quota
    BY <1>0, <1>3 DEF ReadInst, Grown, Loaded
  <2>2. prog' \in [Insts' -> Instructions]
    <3>1. PICK inst \in Instructions :
            prog' = [k \in 0 .. lineNum |-> IF k = lineNum THEN inst ELSE prog[k]]
      BY <1>3 DEF ReadInst
    <3>2. \A k \in 0 .. lineNum : k = lineNum \/ k \in Insts
      BY <1>0 DEF Insts
    <3>3. Insts' = 0 .. lineNum
      BY <1>0, <1>3 DEF ReadInst, Insts
    <3>4. ASSUME NEW k \in 0 .. lineNum
          PROVE  (IF k = lineNum THEN inst ELSE prog[k]) \in Instructions
      BY <1>0, <3>2 DEF Loaded
    <3> QED  BY <3>1, <3>3, <3>4
  <2>3. dstHelp' \in [Registers' -> -1 .. Max({0, lineNum' - 1})]
    <3>1. Max({0, lineNum' - 1}) = lineNum
      BY <1>0, <1>3, MaxOfTwo DEF ReadInst
    <3>2. Max({0, lineNum - 1}) <= lineNum /\ Max({0, lineNum - 1}) \in Int
      BY <1>0, MaxOfTwo
    <3>3. dstHelp' = dstHelp /\ Registers' = Registers
      BY <1>3 DEF ReadInst, analysis, Registers
    <3> QED  BY <1>0, <3>1, <3>2, <3>3 DEF Loaded
  <2>5. /\ phase' = "program" /\ opsLatency' = opsLatency /\ i' = i
        /\ lineNum' \in Nat
    BY <1>0, <1>3 DEF ReadInst, analysis
  <2>4. Loaded'
    BY <1>0, <1>10, <2>1, <2>2, <2>3, <2>5 DEF Loaded
  <2> QED  BY <1>3, <2>4 DEF ReadInst, DflowInv
<1>4. CASE SkipLine
  <2>1. maxInsts' \in lineNum' .. lineNum' + Quota
    BY <1>0, <1>4 DEF SkipLine, Grown, Loaded
  <2>2. Loaded'
    BY <1>0, <1>4, <1>10, <2>1 DEF SkipLine, analysis, Loaded, Insts
  <2> QED  BY <1>4, <2>2 DEF SkipLine, DflowInv
<1>5. CASE Analyze
  <2>0. /\ opsLatency' = opsLatency /\ prog' = prog /\ lineNum' = lineNum
        /\ maxInsts' = maxInsts /\ Registers' = Registers /\ Insts' = Insts
    BY <1>5 DEF Analyze, analyzeProg, Registers, Insts
  <2>1. CASE Begin
    <3>1. NobodyWrote \in [Registers -> -1 .. 0] /\ NobodyWrote \in [Registers -> Int]
      BY DEF NobodyWrote
    <3>2. dstHelp' \in [Registers -> -1 .. Max({0, lineNum - 1})]
      <4>1. Max({0, lineNum - 1}) \in Nat
        BY <1>0, MaxOfTwo
      <4> QED  BY <2>1, <3>1, <4>1 DEF Begin
    <3>3. c' = [k \in Insts |-> NewElem] /\ i' = 0 /\ NewElem \in Elems
      BY <2>1 DEF Begin, NewElem, Elems
    <3>4. ASSUME NEW r \in Registers PROVE dstHelp'[r] = CodeSource(i, r)'
      <4>1. Writers(i, r)' = {}
        BY <3>3 DEF Writers
      <4> QED  BY <2>1, <4>1 DEF Begin, NobodyWrote, CodeSource
    <3>5. Walking'
      <4>1. NewElem' = NewElem /\ Elems' = Elems
        BY DEF NewElem, Elems
      <4> QED  BY <1>0, <2>0, <3>3, <3>4, <4>1 DEF Walking, Insts
    <3>6. Loaded'
      <4>1. phase' = "analysis" /\ phase = "call" /\ i' \in Nat
        BY <2>1 DEF Begin
      <4> QED  BY <1>0, <2>0, <3>2, <4>1 DEF Loaded
    <3> QED  BY <2>1, <3>5, <3>6 DEF DflowInv, Begin
  <2>2. CASE BeginNowhere \/ AnalyzeWild
    BY <1>0, <2>0, <2>2 DEF BeginNowhere, AnalyzeWild, analysis, DflowInv, Loaded
  <2>3. CASE AnalyzeInst
    <3>1. Walking
      BY <2>3 DEF AnalyzeInst, DflowInv
    <3>2. Walking' /\ dstHelp' \in [Registers -> -1 .. Max({0, lineNum' - 1})]
      BY <1>0, <2>0, <2>3, <3>1, Turn
    <3>3. Loaded'
      <4>1. phase' = phase /\ phase = "analysis" /\ i' = i + 1
        BY <2>3 DEF AnalyzeInst
      <4>2. i' \in Nat
        BY <1>0, <4>1
      <4> QED  BY <1>0, <2>0, <3>2, <4>1, <4>2 DEF Loaded
    <3> QED  BY <2>3, <3>2, <3>3 DEF DflowInv, AnalyzeInst
  <2>4. CASE Return
    <3>1. Walking /\ i = lineNum
      BY <2>4 DEF Return, DflowInv
    <3>2. Walking'
      BY <2>0, <2>4, <3>1, SameWalking DEF Return
    <3>3. Loaded'
      <4>1. dstHelp' = dstHelp /\ i' = i /\ phase' = "queries" /\ phase = "analysis"
        BY <2>4 DEF Return, analysis
      <4> QED  BY <1>0, <2>0, <4>1 DEF Loaded
    <3> QED  BY <2>0, <2>4, <3>1, <3>2, <3>3 DEF DflowInv, Return, analysis
  <2> QED  BY <1>5, <2>1, <2>2, <2>3, <2>4 DEF Analyze, analyzeProg
<1>6. CASE Answered
  <2>1. Walking /\ i = lineNum
    BY <1>6 DEF Answered, DflowInv
  <2>2. Walking'
    BY <1>6, <2>1, SameWalking DEF Answered
  <2>3. Loaded'
    BY <1>0, <1>6, <1>10 DEF Loaded, Answered, analysis, Insts
  <2> QED  BY <1>6, <2>1, <2>2, <2>3 DEF DflowInv, Answered, analysis
<1>7. CASE UNCHANGED mainVars
  <2>1. Walking => Walking'
    BY <1>7, SameWalking DEF mainVars
  <2>2. Loaded'
    BY <1>0, <1>7, <1>10 DEF mainVars, analysis, Loaded, Insts
  <2> QED  BY <1>7, <2>1, <2>2 DEF mainVars, analysis, DflowInv
<1> QED  BY <1>1, <1>2, <1>3, <1>4, <1>5, <1>6, <1>7 DEF Next

THEOREM Invariance == Spec => []DflowInv
<1>1. Init => DflowInv
  BY InitInv
<1>2. DflowInv /\ [Next]_mainVars => DflowInv'
  BY NextInv
<1> QED  BY <1>1, <1>2, PTL DEF Spec

-----------------------------------------------------------------------------
(* What the invariant says of one instruction.                             *)
LEMMA OfElem ==
  ASSUME DflowInv, Walking, NEW k \in 0 .. i - 1
  PROVE  /\ k \in Insts /\ k \in Nat /\ c[k] \in Elems /\ Found(k)
         /\ c[k].src1D \in -1 .. k - 1 \/ c[k].src1D = 0
         /\ c[k].src2D \in -1 .. k - 1 \/ c[k].src2D = 0
         /\ Lat(k) \in Nat /\ c[k].dur \in Nat
         /\ \A d \in {c[k].src1D, c[k].src2D} : Wait(k, d) \in Nat
<1>1. k \in Insts /\ k \in Nat /\ i \in Nat /\ lineNum \in Nat /\ i <= lineNum
  BY DEF DflowInv, Loaded, Walking, Insts
<1>2. c[k] \in Elems /\ Found(k)
  BY <1>1 DEF Walking
<1>3. /\ c[k].src1D \in -1 .. k - 1 \/ c[k].src1D = 0
      /\ c[k].src2D \in -1 .. k - 1 \/ c[k].src2D = 0
  BY <1>1, <1>2, SourceRange DEF Found
<1>4. Lat(k) \in Nat /\ c[k].dur \in Nat
  BY <1>2 DEF Found, Elems
<1>5. ASSUME NEW d, d \in -1 .. k - 1 \/ d = 0 PROVE Wait(k, d) \in Nat
  <2>1. d \in {-1, k} \/ d \in Insts
    BY <1>1, <1>5 DEF Insts
  <2>2. d \in Insts => c[d].dur \in Nat
    BY DEF Walking, Elems
  <2> QED  BY <2>1, <2>2 DEF Wait
<1> QED  BY <1>1, <1>2, <1>3, <1>4, <1>5

(* Every element of the context points backwards, to an instruction or to  *)
(* the entry, and no instruction is written behind the end of the buffer,  *)
(* which has at most a quota to spare, however long the program and the    *)
(* tables are (readProgram, analyzeProg).                                  *)
THEOREM TypeCorrect == Spec => []TypeOK
<1>1. DflowInv => TypeOK
  <2> SUFFICES ASSUME DflowInv PROVE TypeOK
    OBVIOUS
  <2>1. /\ phase \in {"latencies", "program", "call", "analysis", "queries", "wild",
                      "failed", "done"}
        /\ opsLatency \in [Registers -> Nat] /\ lineNum \in Nat
        /\ maxInsts \in lineNum .. lineNum + Quota /\ i \in Nat
        /\ dstHelp \in [Registers -> -1 .. Max({0, lineNum - 1})]
    BY DEF DflowInv, Loaded
  <2>2. prog \in [Insts -> [opcode : Int, dst : Int, src1 : Int, src2 : Int]]
    BY MainAssumption DEF DflowInv, Loaded
  <2>3. ASSUME phase \in {"analysis", "queries", "done"}, NEW k \in Insts
        PROVE  /\ {c[k].src1D, c[k].src2D} \subseteq -1 .. Max({0, k - 1})
               /\ c[k].dur >= c[k].lat
    <3>1. Walking /\ k \in Nat /\ (k \in 0 .. i - 1 \/ k \in i .. lineNum - 1)
      BY <2>1, <2>3 DEF DflowInv, Insts
    <3>2. Max({0, k - 1}) = IF 0 >= k - 1 THEN 0 ELSE k - 1
      BY <3>1, MaxOfTwo
    <3>3. CASE k \in i .. lineNum - 1
      <4>1. c[k] = NewElem
        BY <3>1, <3>3 DEF Walking
      <4> QED  BY <3>1, <3>2, <4>1 DEF NewElem
    <3>4. CASE k \in 0 .. i - 1
      <4>1. /\ Found(k) /\ Lat(k) \in Nat
            /\ c[k].src1D \in -1 .. k - 1 \/ c[k].src1D = 0
            /\ c[k].src2D \in -1 .. k - 1 \/ c[k].src2D = 0
            /\ Wait(k, c[k].src1D) \in Nat /\ Wait(k, c[k].src2D) \in Nat
        BY <3>1, <3>4, OfElem
      <4>2. Max({Wait(k, c[k].src1D), Wait(k, c[k].src2D)}) \in Nat
        BY <4>1, MaxOfTwo
      <4>3. c[k].dur >= c[k].lat
        BY <4>1, <4>2 DEF Found
      <4> QED  BY <3>1, <3>2, <4>1, <4>3
    <3> QED  BY <3>1, <3>3, <3>4
  <2>4. phase \in {"analysis", "queries", "done"} => i <= lineNum
    BY DEF DflowInv, Walking
  <2> QED  BY <2>1, <2>2, <2>3, <2>4 DEF TypeOK
<1> QED  BY <1>1, Invariance, PTL

-----------------------------------------------------------------------------
(* The time of an element is that of the graph.                            *)
LEMMA DurStep ==
  ASSUME DflowInv, Walking, NEW k \in 0 .. i - 1
  PROVE  /\ Lat(k) \in Nat /\ c[k].dur >= Lat(k)
         /\ \A p \in CodeSources(k) : p \in 0 .. k - 1 => c[k].dur >= c[p].dur + Lat(k)
         /\ \/ c[k].dur = Lat(k)
            \/ \E p \in CodeSources(k) : p \in 0 .. k - 1 /\ c[k].dur = c[p].dur + Lat(k)
<1> DEFINE d1 == c[k].src1D
           d2 == c[k].src2D
<1>1. /\ k \in Nat /\ Lat(k) \in Nat /\ i \in Nat
      /\ d1 \in -1 .. k - 1 \/ d1 = 0
      /\ d2 \in -1 .. k - 1 \/ d2 = 0
      /\ Wait(k, d1) \in Nat /\ Wait(k, d2) \in Nat
  BY OfElem DEF DflowInv, Loaded
<1>2. CodeSources(k) = {d1, d2} \ {-1} /\ c[k].dur = Max({Wait(k, d1), Wait(k, d2)}) + Lat(k)
  BY OfElem DEF Found, CodeSources
<1> HIDE DEF d1, d2
<1>3. c[k].dur = (IF Wait(k, d1) >= Wait(k, d2) THEN Wait(k, d1) ELSE Wait(k, d2)) + Lat(k)
  BY <1>1, <1>2, MaxOfTwo
<1>4. ASSUME NEW d, d \in {d1, d2}
      PROVE  /\ d \in 0 .. k - 1 => Wait(k, d) = c[d].dur /\ d \in CodeSources(k)
             /\ d \notin 0 .. k - 1 => Wait(k, d) = 0
  <2>1. d \in -1 .. k - 1 \/ d = 0
    BY <1>1, <1>4
  <2>2. d \in 0 .. k - 1 => d \in 0 .. i - 1 /\ d # k /\ d # -1
    BY <1>1
  <2>3. d \notin 0 .. k - 1 => d \in {-1, k}
    BY <1>1, <2>1
  <2> QED  BY <1>2, <1>4, <2>2, <2>3 DEF Wait
<1>5. ASSUME NEW p \in CodeSources(k), p \in 0 .. k - 1
      PROVE  c[k].dur >= c[p].dur + Lat(k)
  <2>1. p \in {d1, d2} /\ c[p].dur = Wait(k, p)
    BY <1>2, <1>4, <1>5
  <2> QED  BY <1>1, <1>3, <2>1
<1>6. c[k].dur = Wait(k, d1) + Lat(k) \/ c[k].dur = Wait(k, d2) + Lat(k)
  BY <1>3
<1>7. c[k].dur = Lat(k) \/ \E p \in CodeSources(k) : p \in 0 .. k - 1 /\ c[k].dur = c[p].dur + Lat(k)
  <2>1. PICK d \in {d1, d2} : c[k].dur = Wait(k, d) + Lat(k)
    BY <1>6
  <2>2. CASE d \in 0 .. k - 1
    BY <1>4, <2>1, <2>2
  <2>3. CASE d \notin 0 .. k - 1
    <3>1. Wait(k, d) = 0
      BY <1>4, <2>3
    <3> QED  BY <1>1, <2>1, <3>1
  <2> QED  BY <2>2, <2>3
<1>8. c[k].dur >= Lat(k)
  BY <1>1, <1>3
<1> QED  BY <1>1, <1>5, <1>7, <1>8

(* What Max is when the greatest element is known.                         *)
LEMMA MaxIs ==
  ASSUME NEW S, NEW m \in S, \A x \in S : x \in Int /\ x <= m
  PROVE  Max(S) = m
<1>1. \A x \in S : m >= x
  OBVIOUS
<1>2. Max(S) \in S /\ \A x \in S : Max(S) >= x
  BY <1>1, Zenon DEF Max
<1>3. Max(S) \in Int /\ m \in Int /\ Max(S) >= m /\ Max(S) <= m
  BY <1>2
<1> QED  BY <1>3

(* The code finds the documented source of an operand that was written.    *)
LEMMA DocumentedSource ==
  ASSUME NEW k \in Nat, NEW r, r = 0 \/ Writers(k, r) # {}
  PROVE  CodeSource(k, r) = Source(k, r)
<1>1. CASE Writers(k, r) = {}
  <2>1. {-1} \cup Writers(k, r) = {-1} /\ Max({-1, -1}) = -1
    BY <1>1, MaxOfTwo
  <2>2. {-1, -1} = {-1}
    OBVIOUS
  <2> QED  BY <1>1, <2>1, <2>2 DEF Source, CodeSource
<1>2. CASE Writers(k, r) # {}
  <2>1. Writers(k, r) \in SUBSET (0 .. k - 1)
    BY DEF Writers
  <2>2. /\ Max(Writers(k, r)) \in Writers(k, r)
        /\ \A x \in Writers(k, r) : x <= Max(Writers(k, r))
    BY <1>2, <2>1, LastOf
  <2> DEFINE M == Max(Writers(k, r))
             T == {-1} \cup Writers(k, r)
  <2>3. M \in T /\ \A x \in T : x \in Int /\ x <= M
    BY <2>1, <2>2
  <2> HIDE DEF M, T
  <2>4. Max(T) = M
    BY <2>3, MaxIs
  <2> QED  BY <1>2, <2>4 DEF Source, CodeSource, M, T
<1> QED  BY <1>1, <1>2

LEMMA DocumentedSources ==
  ASSUME NEW k \in Nat, WellRead(k), NEW p \in 0 .. k - 1
  PROVE  p \in Sources(k) <=> p \in CodeSources(k)
<1>1. ReadsWritten(k)
  BY DEF WellRead
<1>2. \A r \in {prog[k].src1, prog[k].src2} : CodeSource(k, r) = Source(k, r)
  BY <1>1, DocumentedSource DEF ReadsWritten
<1> QED  BY <1>2 DEF Sources, CodeSources

(* The elements behind the loop hold times of the graph, and so the        *)
(* longest ones, where all that they depend on reads what is written.      *)
LEMMA DurIsLongest ==
  ASSUME DflowInv, Walking
  PROVE  \A k \in 0 .. i - 1 : WellBehind(k) => Longest(k) = c[k].dur
<1> DEFINE D == [k \in 0 .. i - 1 |-> c[k].dur]
<1>1. D \in [0 .. i - 1 -> Nat]
  BY OfElem
<1>2. ASSUME NEW k \in 0 .. i - 1
      PROVE  /\ Lat(k) \in Nat /\ D[k] >= Lat(k)
             /\ WellRead(k) =>
                  /\ \A p \in Sources(k) : p \in 0 .. k - 1 => D[k] >= D[p] + Lat(k)
                  /\ \/ D[k] = Lat(k)
                     \/ \E p \in Sources(k) : p \in 0 .. k - 1 /\ D[k] = D[p] + Lat(k)
  <2>1. \A p \in 0 .. k - 1 : D[p] = c[p].dur
    BY DEF DflowInv, Loaded
  <2>2. WellRead(k) => \A p \in 0 .. k - 1 : p \in Sources(k) <=> p \in CodeSources(k)
    BY DocumentedSources
  <2>3. /\ Lat(k) \in Nat /\ c[k].dur >= Lat(k)
        /\ \A p \in CodeSources(k) : p \in 0 .. k - 1 => c[k].dur >= c[p].dur + Lat(k)
        /\ \/ c[k].dur = Lat(k)
           \/ \E p \in CodeSources(k) : p \in 0 .. k - 1 /\ c[k].dur = c[p].dur + Lat(k)
    BY DurStep
  <2> QED  BY <2>1, <2>2, <2>3
<1>3. PICK n \in Nat : n = i
  BY DEF DflowInv, Loaded
<1>4. PICK E \in [0 .. n - 1 -> Nat] : E = D
  BY <1>1, <1>3
<1>5. Times(n, E)
  <2> HIDE DEF D
  <2> QED  BY <1>2, <1>3, <1>4 DEF Times
<1>6. \A k \in 0 .. n - 1 : WellBehind(k) => Longest(k) = E[k]
  BY <1>5, LongestIs
<1> QED  BY <1>3, <1>4, <1>6

(* The depth of an instruction is the time of a longest path to it without *)
(* its own latency, at every turn of the loop, for every latency and every *)
(* program, if all that it depends on, near or far, reads what is written  *)
(* (getInstDepth: one pass of analyzeProg suffices).                       *)
THEOREM DepthCorrect == Spec => []DepthIsLongestPath
<1>1. DflowInv => DepthIsLongestPath
  <2> SUFFICES ASSUME DflowInv, phase \in {"analysis", "queries"}, NEW k \in 0 .. i - 1,
                      \A j \in UNION PathsTo(k) : j = 0 \/ ReadsWritten(j)
               PROVE  getInstDepth(k) = Longest(k) - Lat(k)
    BY DEF DepthIsLongestPath
  <2>1. Walking
    BY DEF DflowInv
  <2>2. k \in Insts /\ Found(k)
    BY <2>1, OfElem
  <2>3. Longest(k) = c[k].dur
    BY <2>1, DurIsLongest DEF WellBehind, WellRead
  <2> QED  BY <2>2, <2>3 DEF getInstDepth, Known, Found
<1> QED  BY <1>1, Invariance, PTL

-----------------------------------------------------------------------------
(* Times are bounded, so there is a greatest one.                          *)
LEMMA Bounded ==
  ASSUME NEW n \in Nat, NEW D \in [0 .. n - 1 -> Nat]
  PROVE  \E B \in Nat : \A k \in 0 .. n - 1 : D[k] <= B
<1> DEFINE Good(m) == \E B \in Nat : \A k \in 0 .. m - 1 : D[k] <= B
           Bad == {m \in 0 .. n : ~Good(m)}
<1>1. Good(0)
  <2>1. 0 .. 0 - 1 = {} /\ 0 \in Nat
    OBVIOUS
  <2> QED  BY <2>1
<1>2. ASSUME NEW m \in 0 .. n - 1, Good(m) PROVE Good(m + 1)
  <2>1. PICK B \in Nat : \A k \in 0 .. m - 1 : D[k] <= B
    BY <1>2
  <2>2. D[m] \in Nat
    OBVIOUS
  <2>3. B + D[m] \in Nat /\ \A k \in 0 .. (m + 1) - 1 : D[k] <= B + D[m]
    <3>1. ASSUME NEW k \in 0 .. (m + 1) - 1 PROVE D[k] <= B + D[m]
      <4>1. (k = m \/ k \in 0 .. m - 1) /\ D[k] \in Nat
        OBVIOUS
      <4> QED  BY <2>1, <2>2, <4>1
    <3> QED  BY <2>2, <3>1
  <2> QED  BY <2>3
<1> HIDE DEF Good
<1>3. Bad = {}
  <2> SUFFICES ASSUME Bad # {} PROVE FALSE
    OBVIOUS
  <2>1. PICK m \in Bad : \A j \in Bad : m <= j
    <3>1. Bad \in SUBSET (0 .. n)
      OBVIOUS
    <3> HIDE DEF Bad
    <3> QED  BY <3>1, FirstFailure
  <2>2. m \in 0 .. n /\ m # 0 /\ ~Good(m)
    BY <1>1
  <2>3. m - 1 \in 0 .. n /\ m - 1 \in 0 .. n - 1 /\ (m - 1) + 1 = m /\ ~(m <= m - 1)
    BY <2>2
  <2>4. Good(m - 1)
    BY <2>1, <2>3
  <2>5. Good(m)
    BY <1>2, <2>3, <2>4
  <2> QED  BY <2>2, <2>5
<1>4. Good(n)
  BY <1>3
<1> QED  BY <1>4 DEF Good

(* An instruction that is no exit has an instruction behind it that ends   *)
(* later, in a program that reads what is written: none is its own source. *)
LEMMA BehindNoExit ==
  ASSUME DflowInv, Walking, i = lineNum, NEW k \in Insts, c[k].exit # 1,
         ReadsWhatIsWritten
  PROVE  \E j \in Insts : j > k /\ c[j].dur >= c[k].dur
<1>1. k \in 0 .. i - 1 /\ k \in Nat /\ Insts = 0 .. i - 1 /\ i \in Nat
  BY DEF Insts, DflowInv, Loaded
<1>2. c[k] \in Elems /\ c[k].dur \in Nat
  BY <1>1, OfElem
<1>3. IsSource(i, k)
  BY <1>1, <1>2 DEF Elems, Walking
<1>4. \E j \in Insts : j > k /\ k \in CodeSources(j)
  <2>1. PICK j \in 0 .. i - 1 : k \in CodeSources(j)
    BY <1>3 DEF IsSource
  <2>2. PICK r \in {prog[j].src1, prog[j].src2} : k = CodeSource(j, r)
    BY <2>1 DEF CodeSources
  <2>3. j \in Nat /\ (k \in -1 .. j - 1 \/ k = 0)
    BY <2>2, SourceRange
  <2>4. CASE j > k
    BY <1>1, <2>1, <2>4
  <2>5. CASE j = 0 /\ k = 0
    <3>1. Writers(0, r) = {}
      BY DEF Writers
    <3>2. r = 0
      BY <1>1, <2>5, <3>1 DEF ReadsWhatIsWritten, ReadsWritten
    <3> QED  BY <2>2, <2>5, <3>1, <3>2 DEF CodeSource
  <2> QED  BY <1>1, <2>3, <2>4, <2>5
<1>5. PICK j \in Insts : j > k /\ k \in CodeSources(j)
  BY <1>4
<1>6. j \in 0 .. i - 1 /\ k \in 0 .. j - 1
  BY <1>1, <1>5
<1>7. Lat(j) \in Nat /\ c[j].dur >= c[k].dur + Lat(j) /\ c[j].dur \in Nat
  BY <1>5, <1>6, DurStep, OfElem
<1> QED  BY <1>2, <1>5, <1>7

(* Not looking at the others than the exits loses no time.                 *)
LEMMA ExitsSuffice ==
  ASSUME DflowInv, Walking, i = lineNum, NEW k \in Insts, ReadsWhatIsWritten
  PROVE  \E e \in Insts : c[e].exit = 1 /\ c[e].dur >= c[k].dur
<1> DEFINE Good(j) == \E e \in Insts : c[e].exit = 1 /\ c[e].dur >= c[j].dur
           Bad == {j \in Insts : ~Good(j)}
<1> SUFFICES ASSUME Bad # {} PROVE FALSE
  OBVIOUS
<1>1. Insts = 0 .. i - 1 /\ i \in Nat
  BY DEF Insts, DflowInv, Loaded
<1>2. PICK g \in Bad : \A j \in Bad : j <= g
  <2>1. Bad \in SUBSET (0 .. i - 1)
    BY <1>1
  <2> HIDE DEF Bad
  <2> QED  BY <1>1, <2>1, LastOf
<1>3. g \in Insts /\ ~Good(g) /\ c[g].dur \in Nat
  BY <1>1, OfElem
<1>4. c[g].exit # 1
  BY <1>3
<1>5. PICK j \in Insts : j > g /\ c[j].dur >= c[g].dur
  BY <1>3, <1>4, BehindNoExit
<1>6. c[j].dur \in Nat /\ ~(j <= g)
  <2>1. j \in 0 .. i - 1 /\ g \in 0 .. i - 1
    BY ONLY <1>1, <1>3, <1>5
  <2>2. c[j].dur \in Nat
    BY <2>1, OfElem
  <2>3. ~(j <= g)
    BY ONLY <1>1, <1>5, <2>1
  <2> QED  BY <2>2, <2>3
<1>7. Good(j)
  <2> HIDE DEF Good
  <2> QED  BY <1>2, <1>6
<1>8. PICK e \in Insts : c[e].exit = 1 /\ c[e].dur >= c[j].dur
  BY <1>7
<1>9. c[e].dur \in Nat
  BY <1>1, OfElem
<1> QED  BY <1>3, <1>5, <1>6, <1>8, <1>9

(* The greatest time of an exit.                                           *)
LEMMA ExitTimes ==
  ASSUME DflowInv, Analyzed
  PROVE  /\ Walking /\ i = lineNum /\ Insts = 0 .. i - 1 /\ 0 \in Insts
         /\ \A k \in Insts : c[k].dur \in Nat
         /\ getProgDepth \in Nat
         /\ \/ getProgDepth = 0
            \/ \E k \in Insts : c[k].exit = 1 /\ getProgDepth = c[k].dur
         /\ \A k \in Insts : c[k].exit = 1 => c[k].dur <= getProgDepth
<1>1. Walking /\ i = lineNum /\ i \in Nat /\ lineNum > 0
  BY DEF DflowInv, Loaded, Analyzed
<1>2. Insts = 0 .. i - 1 /\ 0 \in Insts
  BY <1>1 DEF Insts
<1>3. \A k \in Insts : c[k].dur \in Nat
  BY <1>1, <1>2, OfElem
<1> DEFINE S == {0} \cup {c[k].dur : k \in {k \in Insts : c[k].exit = 1}}
<1>4. Max(S) \in S /\ S \in SUBSET Nat /\ \A x \in S : x <= Max(S)
  <2>1. PICK D \in [0 .. i - 1 -> Nat] : \A k \in 0 .. i - 1 : D[k] = c[k].dur
    <3>1. [k \in 0 .. i - 1 |-> c[k].dur] \in [0 .. i - 1 -> Nat]
      BY <1>2, <1>3
    <3> QED  BY <3>1
  <2>2. PICK B \in Nat : \A k \in 0 .. i - 1 : D[k] <= B
    <3>1. PICK n \in Nat : n = i
      BY <1>1
    <3> QED  BY <3>1, Bounded
  <2>3. ASSUME NEW x \in S PROVE x \in 0 .. (B + 1) - 1
    <3>1. x = 0 \/ \E k \in Insts : x = c[k].dur
      OBVIOUS
    <3> QED  BY <1>2, <1>3, <2>1, <2>2, <3>1
  <2>6. S # {}
    OBVIOUS
  <2> HIDE DEF S
  <2>4. S \in SUBSET (0 .. (B + 1) - 1) /\ S # {} /\ B + 1 \in Nat
    BY <2>3, <2>6
  <2>5. S \in SUBSET Nat
    BY <2>4
  <2> QED  BY <2>4, <2>5, LastOf
<1>5. getProgDepth = Max(S)
  BY DEF getProgDepth
<1>6. Max(S) = 0 \/ \E k \in Insts : c[k].exit = 1 /\ Max(S) = c[k].dur
  BY <1>4
<1>7. \A k \in Insts : c[k].exit = 1 => c[k].dur \in S
  OBVIOUS
<1> HIDE DEF S
<1> QED  BY <1>1, <1>2, <1>3, <1>4, <1>5, <1>6, <1>7

(* All the answers are those that dflow_calc.h documents, for every        *)
(* program that reads no register but 0 before it is written (the last     *)
(* writers, depth 0 behind the entry, the longest execution path).         *)
THEOREM DocumentedCorrect == Spec => []AsDocumented
<1>1. DflowInv => AsDocumented
  <2> SUFFICES ASSUME DflowInv, Analyzed, ReadsWhatIsWritten
               PROVE  /\ \A k \in Insts :
                           /\ getInstDeps(k) = <<Source(k, prog[k].src1), Source(k, prog[k].src2)>>
                           /\ getInstDeps(k) = <<-1, -1>> => getInstDepth(k) = 0
                      /\ getProgDepth = Max({Longest(k) : k \in Insts})
    BY DEF AsDocumented
  <2>1. /\ Walking /\ i = lineNum /\ Insts = 0 .. i - 1 /\ 0 \in Insts /\ i \in Nat
        /\ \A k \in Insts : c[k].dur \in Nat
    BY ExitTimes DEF DflowInv, Loaded
  <2>2. ASSUME NEW k \in Insts PROVE Longest(k) = c[k].dur
    <3>1. \A j \in UNION PathsTo(k) : j \in Insts
      BY <2>1 DEF PathsTo
    <3>2. WellBehind(k)
      BY <3>1 DEF WellBehind, WellRead, ReadsWhatIsWritten
    <3> QED  BY <2>1, <3>2, DurIsLongest
  <2>3. ASSUME NEW k \in Insts
        PROVE  /\ getInstDeps(k) = <<Source(k, prog[k].src1), Source(k, prog[k].src2)>>
               /\ getInstDeps(k) = <<-1, -1>> => getInstDepth(k) = 0
    <3>1. Found(k) /\ Lat(k) \in Nat /\ k \in Nat
      BY <2>1, OfElem
    <3>2. getInstDeps(k) = <<c[k].src1D, c[k].src2D>>
      BY DEF getInstDeps, Known
    <3>4. \A r \in {prog[k].src1, prog[k].src2} : CodeSource(k, r) = Source(k, r)
      BY <3>1, DocumentedSource DEF ReadsWhatIsWritten, ReadsWritten
    <3>5. c[k].src1D = Source(k, prog[k].src1) /\ c[k].src2D = Source(k, prog[k].src2)
      BY <3>1, <3>4 DEF Found
    <3>3. ASSUME c[k].src1D = -1, c[k].src2D = -1 PROVE getInstDepth(k) = 0
      <4>1. Max({Wait(k, c[k].src1D), Wait(k, c[k].src2D)}) = 0
        BY <3>3, MaxOfTwo DEF Wait
      <4> QED  BY <3>1, <4>1 DEF Found, getInstDepth, Known
    <3> QED  BY <3>2, <3>3, <3>5
  <2>5. getProgDepth = Max({Longest(k) : k \in Insts})
    <3> DEFINE T == {Longest(k) : k \in Insts}
               m == getProgDepth
    <3>1. /\ m \in Nat
          /\ m = 0 \/ \E k \in Insts : c[k].exit = 1 /\ m = c[k].dur
          /\ \A k \in Insts : c[k].exit = 1 => c[k].dur <= m
      BY ExitTimes
    <3> HIDE DEF m
    <3>2. ASSUME NEW k \in Insts PROVE Longest(k) <= m /\ Longest(k) \in Nat
      <4>1. PICK e \in Insts : c[e].exit = 1 /\ c[e].dur >= c[k].dur
        BY <2>1, ExitsSuffice
      <4> QED  BY <2>1, <2>2, <3>1, <4>1
    <3>3. \A x \in T : x \in Int /\ x <= m
      BY <3>2
    <3>4. m \in T
      <4>1. CASE m = 0
        <5>1. Longest(0) <= 0 /\ Longest(0) \in Nat
          BY <2>1, <3>2, <4>1
        <5>2. Longest(0) = 0 /\ Longest(0) \in T
          BY <2>1, <5>1
        <5> QED  BY <4>1, <5>2
      <4>2. CASE \E k \in Insts : m = c[k].dur
        BY <2>2, <4>2
      <4> QED  BY <3>1, <4>1, <4>2
    <3> HIDE DEF T
    <3>5. Max(T) = m
      BY <3>3, <3>4, MaxIs
    <3> QED  BY <3>5 DEF T, m
  <2> QED  BY <2>3, <2>5
<1> QED  BY <1>1, Invariance, PTL
=============================================================================
