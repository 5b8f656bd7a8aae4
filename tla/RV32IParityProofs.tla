-------------------------- MODULE RV32IParityProofs --------------------------
(***************************************************************************)
(* Theorems about what the RV32I bridge writes.                            *)
(***************************************************************************)
EXTENDS RV32IParity, CoreExecutorProofs, FiniteSetTheorems

----------------------------------------------------------------------------
(* Elements in the order Less are numbered by how many come before them.      *)

Before(S, Less, x) == {y \in S : <<y, x>> \in Less}

StrictOrder(S, Less) ==
  /\ \A x \in S : <<x, x>> \notin Less
  /\ \A x, y, z \in S : <<x, y>> \in Less /\ <<y, z>> \in Less => <<x, z>> \in Less
  /\ \A x, y \in S : x # y => <<x, y>> \in Less \/ <<y, x>> \in Less

Ranked(S, Less) ==
  /\ \A x \in S : Cardinality(Before(S, Less, x)) + 1 \in 1..Cardinality(S)
  /\ \A x, y \in S : Cardinality(Before(S, Less, x)) = Cardinality(Before(S, Less, y)) => x = y
  /\ \A k \in 1..Cardinality(S) : \E x \in S : Cardinality(Before(S, Less, x)) = k - 1

LEMMA BeforeGrows ==
  ASSUME NEW S, IsFiniteSet(S), NEW Less, StrictOrder(S, Less),
         NEW x \in S, NEW y \in S, <<x, y>> \in Less
  PROVE  /\ Cardinality(Before(S, Less, x)) \in Nat
         /\ Cardinality(Before(S, Less, x)) < Cardinality(Before(S, Less, y))
<1>1. /\ Before(S, Less, x) \subseteq S /\ Before(S, Less, y) \subseteq S
  BY DEF Before
<1>2. IsFiniteSet(Before(S, Less, x)) /\ IsFiniteSet(Before(S, Less, y))
  BY <1>1, FS_Subset
<1>3. x \notin Before(S, Less, x)
  BY DEF Before, StrictOrder
<1>4. Before(S, Less, x) \cup {x} \subseteq Before(S, Less, y)
  BY DEF Before, StrictOrder
<1>5. /\ IsFiniteSet(Before(S, Less, x) \cup {x})
      /\ Cardinality(Before(S, Less, x) \cup {x}) = Cardinality(Before(S, Less, x)) + 1
  BY <1>2, <1>3, FS_AddElement
<1>6. Cardinality(Before(S, Less, x) \cup {x}) <= Cardinality(Before(S, Less, y))
  BY <1>2, <1>4, FS_Subset
<1>7. Cardinality(Before(S, Less, x)) \in Nat /\ Cardinality(Before(S, Less, y)) \in Nat
  BY <1>2, FS_CardinalityType
<1> QED BY <1>5, <1>6, <1>7

LEMMA Ranks ==
  ASSUME NEW S, IsFiniteSet(S), NEW Less, StrictOrder(S, Less)
  PROVE  Ranked(S, Less)
<1> DEFINE n == Cardinality(S)
           rank == [x \in S |-> Cardinality(Before(S, Less, x)) + 1]
<1>1. n \in Nat
  BY FS_CardinalityType
<1>2. ASSUME NEW x \in S PROVE Cardinality(Before(S, Less, x)) + 1 \in 1..n
  <2>1. Before(S, Less, x) \subseteq S /\ x \notin Before(S, Less, x)
    BY DEF Before, StrictOrder
  <2>2. IsFiniteSet(Before(S, Less, x)) /\ Cardinality(Before(S, Less, x)) <= n
    BY <2>1, FS_Subset
  <2>3. Cardinality(Before(S, Less, x)) # n
    BY <2>1, FS_Subset
  <2>4. Cardinality(Before(S, Less, x)) \in Nat
    BY <2>2, FS_CardinalityType
  <2> QED BY <1>1, <2>2, <2>3, <2>4
<1>3. ASSUME NEW x \in S, NEW y \in S, Cardinality(Before(S, Less, x)) = Cardinality(Before(S, Less, y))
      PROVE  x = y
  <2>1. SUFFICES ASSUME x # y PROVE FALSE
    OBVIOUS
  <2>2. <<x, y>> \in Less \/ <<y, x>> \in Less
    BY <2>1 DEF StrictOrder
  <2>3. CASE <<x, y>> \in Less
    BY <1>3, <2>3, BeforeGrows
  <2>4. CASE <<y, x>> \in Less
    BY <1>3, <2>4, BeforeGrows
  <2> QED BY <2>2, <2>3, <2>4
<1>4. \A x \in S : rank[x] = Cardinality(Before(S, Less, x)) + 1 /\ rank[x] \in 1..n
  BY <1>2
<1>5. rank \in [S -> 1..n]
  BY <1>4
<1>6. \A x, y \in S : rank[x] = rank[y] => x = y
  <2> SUFFICES ASSUME NEW x \in S, NEW y \in S, rank[x] = rank[y] PROVE x = y
    OBVIOUS
  <2>1. Before(S, Less, x) \subseteq S /\ Before(S, Less, y) \subseteq S
    BY DEF Before
  <2>2. Cardinality(Before(S, Less, x)) \in Nat /\ Cardinality(Before(S, Less, y)) \in Nat
    BY <2>1, FS_Subset, FS_CardinalityType
  <2>3. Cardinality(Before(S, Less, x)) = Cardinality(Before(S, Less, y))
    BY <2>2
  <2> QED BY <1>3, <2>3
<1>7. rank \in Injection(S, 1..n)
  BY <1>5, <1>6 DEF Injection, IsInjective
<1>8. IsFiniteSet(1..n) /\ Cardinality(1..n) = n
  BY <1>1, FS_Interval
<1>9. rank \in Surjection(S, 1..n)
  BY <1>7, <1>8, FS_Injection
<1>10. \A k \in 1..n : \E x \in S : rank[x] = k
  BY <1>9 DEF Surjection
<1>11. \A k \in 1..n : \E x \in S : Cardinality(Before(S, Less, x)) = k - 1
  <2> SUFFICES ASSUME NEW k \in 1..n PROVE \E x \in S : Cardinality(Before(S, Less, x)) = k - 1
    OBVIOUS
  <2>1. PICK x \in S : rank[x] = k
    BY <1>10
  <2>2. Before(S, Less, x) \subseteq S
    BY DEF Before
  <2>3. Cardinality(Before(S, Less, x)) \in Nat
    BY <2>2, FS_Subset, FS_CardinalityType
  <2> QED BY <1>4, <2>1, <2>3
<1> QED BY <1>2, <1>3, <1>11 DEF Ranked

(* sorted() gives the elements of a set of numbers.                        *)
LEMMA AscendingIsOrder ==
  ASSUME NEW S \in SUBSET Int, IsFiniteSet(S)
  PROVE  /\ Cardinality(S) \in Nat /\ DOMAIN Ascending(S) = 1..Cardinality(S)
         /\ \A k \in DOMAIN Ascending(S) : Ascending(S)[k] \in S
         /\ \A x \in S : \E k \in DOMAIN Ascending(S) : Ascending(S)[k] = x
         /\ S # {} => Greatest(S) \in S
<1> DEFINE Less == {p \in S \X S : p[1] < p[2]}
<1>1. StrictOrder(S, Less)
  BY DEF StrictOrder
<1>2. \A x \in S : {y \in S : y < x} = Before(S, Less, x)
  BY DEF Before
<1> HIDE DEF Less
<1>3. /\ \A x \in S : Cardinality({y \in S : y < x}) + 1 \in 1..Cardinality(S)
      /\ \A x, y \in S : Cardinality({z \in S : z < x}) = Cardinality({z \in S : z < y}) => x = y
      /\ \A k \in 1..Cardinality(S) : \E x \in S : Cardinality({y \in S : y < x}) = k - 1
  <2>0. Ranked(S, Less)
    BY <1>1, Ranks
  <2>1. /\ \A x \in S : Cardinality(Before(S, Less, x)) + 1 \in 1..Cardinality(S)
        /\ \A x, y \in S :
             Cardinality(Before(S, Less, x)) = Cardinality(Before(S, Less, y)) => x = y
        /\ \A k \in 1..Cardinality(S) : \E x \in S : Cardinality(Before(S, Less, x)) = k - 1
    BY <2>0 DEF Ranked
  <2>2. \A x \in S : Cardinality({y \in S : y < x}) + 1 \in 1..Cardinality(S)
    BY <1>2, <2>1
  <2>3. ASSUME NEW x \in S, NEW y \in S,
               Cardinality({z \in S : z < x}) = Cardinality({z \in S : z < y})
        PROVE  x = y
    BY <1>2, <2>1, <2>3
  <2>4. ASSUME NEW k \in 1..Cardinality(S)
        PROVE  \E x \in S : Cardinality({y \in S : y < x}) = k - 1
    BY <1>2, <2>1, <2>4
  <2> QED BY <2>2, <2>3, <2>4
<1>4. Cardinality(S) \in Nat /\ DOMAIN Ascending(S) = 1..Cardinality(S)
  BY FS_CardinalityType DEF Ascending
<1>5. \A k \in 1..Cardinality(S) :
        /\ Ascending(S)[k] \in S
        /\ Cardinality({y \in S : y < Ascending(S)[k]}) = k - 1
  BY <1>3 DEF Ascending
<1>6. ASSUME NEW x \in S PROVE \E k \in DOMAIN Ascending(S) : Ascending(S)[k] = x
  <2> DEFINE c == Cardinality({y \in S : y < x})
  <2>1. c + 1 \in 1..Cardinality(S)
    BY <1>3
  <2>2. IsFiniteSet({y \in S : y < x})
    BY FS_Subset
  <2>3. c \in Nat
    BY <2>2, FS_CardinalityType
  <2>4. Cardinality({y \in S : y < Ascending(S)[c + 1]}) = c
    BY <1>5, <2>1, <2>3
  <2>5. Ascending(S)[c + 1] = x
    BY <1>3, <1>5, <2>1, <2>4
  <2> QED BY <1>4, <2>1, <2>5
<1>7. ASSUME S # {} PROVE Greatest(S) \in S
  <2>1. Cardinality(S) # 0
    BY <1>7, FS_EmptySet
  <2> DEFINE g == Ascending(S)[Cardinality(S)]
  <2>2. g \in S /\ Cardinality({y \in S : y < g}) = Cardinality(S) - 1
    BY <1>4, <1>5, <2>1
  <2> HIDE DEF g
  <2>3. ASSUME NEW y \in S, ~(y <= g) PROVE FALSE
    <3>1. <<g, y>> \in Less
      BY <2>2, <2>3 DEF Less
    <3>2. Cardinality({z \in S : z < g}) < Cardinality({z \in S : z < y})
      BY <1>1, <1>2, <2>2, <3>1, BeforeGrows
    <3>3. Cardinality({z \in S : z < y}) + 1 \in 1..Cardinality(S)
      BY <1>3
    <3>4. IsFiniteSet({z \in S : z < y})
      BY FS_Subset
    <3>5. Cardinality({z \in S : z < y}) \in Nat
      BY <3>4, FS_CardinalityType
    <3> QED BY <1>4, <2>2, <3>2, <3>3, <3>5
  <2> QED BY <2>2, <2>3 DEF Greatest
<1> QED BY <1>4, <1>5, <1>6, <1>7

LEMMA PartOfInterval ==
  ASSUME NEW n \in Nat, NEW P \in SUBSET (1..n)
  PROVE  P \in SUBSET Int /\ IsFiniteSet(P) /\ Cardinality(1..n) = n
<1>1. IsFiniteSet(1..n) /\ Cardinality(1..n) = n
  BY FS_Interval
<1>2. IsFiniteSet(P)
  BY <1>1, FS_Subset
<1> QED BY <1>1, <1>2

(* A least element is the one before which there is none.                 *)
LEMMA LeastExists ==
  ASSUME NEW S \in SUBSET Int, IsFiniteSet(S), S # {}
  PROVE  \E x \in S : \A y \in S : x <= y
<1> DEFINE Less == {p \in S \X S : p[1] < p[2]}
<1>1. StrictOrder(S, Less)
  BY DEF StrictOrder
<1>2. 1 \in 1..Cardinality(S)
  <2>1. Cardinality(S) \in Nat
    BY FS_CardinalityType
  <2>2. Cardinality(S) # 0
    BY FS_EmptySet
  <2> QED BY <2>1, <2>2
<1>3. \A k \in 1..Cardinality(S) : \E x \in S : Cardinality(Before(S, Less, x)) = k - 1
  <2> HIDE DEF Less
  <2>1. Ranked(S, Less)
    BY <1>1, Ranks
  <2> QED BY <2>1 DEF Ranked
<1>4. PICK x \in S : Cardinality(Before(S, Less, x)) = 1 - 1
  BY <1>2, <1>3
<1>5. IsFiniteSet(Before(S, Less, x))
  <2>1. Before(S, Less, x) \subseteq S
    BY DEF Before
  <2> QED BY <2>1, FS_Subset
<1>6. Before(S, Less, x) = {}
  BY <1>4, <1>5, FS_EmptySet
<1>7. ASSUME NEW y \in S, ~(x <= y) PROVE FALSE
  <2>1. y \in Before(S, Less, x)
    BY <1>7 DEF Before
  <2> QED BY <1>6, <2>1
<1> QED BY <1>7

----------------------------------------------------------------------------
Recursion(h, n, v0, step) == h = [m \in 0..n |-> IF m = 0 THEN v0 ELSE step[<<m, h[m - 1]>>]]

(* What a definition by recursion over 0..n stays in.                      *)
LEMMA RecursionStays ==
  ASSUME NEW V, NEW v0, NEW step, Steps(V, v0, step), NEW n \in Nat, NEW h,
         Recursion(h, n, v0, step)
  PROVE  h \in [0..n -> V]
<1>0. h = [m \in 0..n |-> IF m = 0 THEN v0 ELSE step[<<m, h[m - 1]>>]]
  BY DEF Recursion
<1> DEFINE S == {m \in Nat : m \in 0..n => h[m] \in V}
<1>1. 0 \in S
  BY <1>0 DEF Steps
<1>2. ASSUME NEW m \in S PROVE m + 1 \in S
  <2>1. CASE m + 1 \in 0..n
    <3>1. m \in 0..n /\ m \in Nat /\ h[m] \in V /\ m + 1 # 0 /\ (m + 1) - 1 = m
      BY <1>2, <2>1
    <3>2. h[m + 1] = step[<<m + 1, h[m]>>]
      BY <1>0, <2>1, <3>1
    <3> QED BY <3>1, <3>2 DEF Steps
  <2> QED BY <2>1, <1>2
<1>3. S \in SUBSET Nat
  OBVIOUS
<1> HIDE DEF S
<1>4. S = Nat
  BY <1>1, <1>2, <1>3, SetInduction
<1>5. \A m \in 0..n : h[m] \in V
  BY <1>4 DEF S
<1> QED BY <1>0, <1>5

(* Such a function exists.                                                 *)
LEMMA RecursionExists ==
  ASSUME NEW V, NEW v0, NEW step, Steps(V, v0, step), NEW n \in Nat
  PROVE  \E h : Recursion(h, n, v0, step)
<1>1. PICK g : Iterates(V, v0, step, g)
  BY Iteration
<1> DEFINE h == [m \in 0..n |-> g[m]]
<1>2. ASSUME NEW m \in 0..n PROVE g[m] = IF m = 0 THEN v0 ELSE step[<<m, h[m - 1]>>]
  <2>1. CASE m = 0
    BY <1>1, <2>1 DEF Iterates
  <2>2. CASE m # 0
    <3>1. m - 1 \in Nat /\ m - 1 \in 0..n /\ (m - 1) + 1 = m
      BY <2>2
    <3>2. g[(m - 1) + 1] = step[<<(m - 1) + 1, g[m - 1]>>]
      BY <1>1, <3>1 DEF Iterates
    <3> QED BY <2>2, <3>1, <3>2
  <2> QED BY <2>1, <2>2
<1>3. h = [m \in 0..n |-> IF m = 0 THEN v0 ELSE step[<<m, h[m - 1]>>]]
  BY <1>2
<1>4. Recursion(h, n, v0, step)
  BY <1>3 DEF Recursion
<1> QED BY <1>4

(* A list of lists, joined, is a list of what they hold.                   *)
LEMMA FlattenedList ==
  ASSUME NEW T, NEW lists \in Seq(Seq(T))
  PROVE  Seqs!FlattenSeq(lists) \in Seq(T)
<1> DEFINE n == Len(lists)
           V == Seq(T)
           Piece(m) == IF m \in 1..n THEN lists[m] ELSE <<>>
           step == [p \in (Nat \X V) |-> p[2] \o Piece(p[1])]
           Equation(h) == h = [i \in 1..n |-> IF i = 1 THEN lists[i] ELSE h[i - 1] \o lists[i]]
           flat == CHOOSE h : Equation(h)
<1>1. n \in Nat /\ \A m \in 1..n : lists[m] \in V
  OBVIOUS
<1>0. /\ <<>> \in V
      /\ \A x \in V : <<>> \o x = x
      /\ \A x, y \in V : x \o y \in V
  OBVIOUS
<1> HIDE DEF V
<1>2. \A m \in Nat : Piece(m) \in V
  BY <1>0, <1>1
<1>3. \A p \in Nat \X V : p[2] \o Piece(p[1]) \in V
  BY <1>0, <1>2
<1> HIDE DEF Piece
<1>4. Steps(V, <<>>, step)
  <2>1. \A m \in Nat, x \in V : step[<<m + 1, x>>] \in V
    BY <1>3
  <2> QED BY <1>0, <2>1 DEF Steps
<1>5. PICK g : Iterates(V, <<>>, step, g)
  BY <1>4, Iteration
<1>6. /\ g[0] = <<>> /\ \A m \in Nat : g[m] \in V
      /\ \A m \in Nat : g[m + 1] = g[m] \o Piece(m + 1)
  <2>0. g[0] = <<>> /\ \A m \in Nat : g[m] \in V
    BY <1>5 DEF Iterates
  <2>1. \A m \in Nat : g[m + 1] = step[<<m + 1, g[m]>>]
    BY <1>5 DEF Iterates
  <2>2. ASSUME NEW m \in Nat PROVE g[m + 1] = g[m] \o Piece(m + 1)
    <3>1. <<m + 1, g[m]>> \in Nat \X V
      BY <2>0
    <3>2. \A p \in Nat \X V : step[p] = p[2] \o Piece(p[1])
      BY Zenon
    <3>3. step[<<m + 1, g[m]>>] = g[m] \o Piece(m + 1)
      BY <3>1, <3>2
    <3> QED BY <2>1, <3>3, Zenon
  <2> QED BY <2>0, <2>2
<1> HIDE DEF step
<1>7. Equation([i \in 1..n |-> g[i]])
  <2> DEFINE h == [i \in 1..n |-> g[i]]
  <2>1. ASSUME NEW i \in 1..n PROVE g[i] = IF i = 1 THEN lists[i] ELSE h[i - 1] \o lists[i]
    <3>1. i - 1 \in Nat /\ (i - 1) + 1 = i /\ Piece(i) = lists[i]
      BY <1>1 DEF Piece
    <3>2. g[i] = g[i - 1] \o lists[i]
      BY <1>6, <3>1
    <3>3. CASE i = 1
      <4>1. g[i - 1] = <<>> /\ lists[i] \in V
        BY <1>1, <1>6, <3>3
      <4> QED BY <1>0, <3>2, <3>3, <4>1
    <3>4. CASE i # 1
      <4>1. i - 1 \in 1..n
        BY <1>1, <3>4
      <4> QED BY <3>2, <3>4, <4>1
    <3> QED BY <3>3, <3>4
  <2> QED BY <2>1
<1>8. Equation(flat)
  BY <1>7
<1> HIDE DEF flat
<1> DEFINE S == {m \in Nat : m + 1 \in 1..n => flat[m + 1] \in V}
<1>9. 0 \in S
  BY <1>1, <1>8
<1>10. ASSUME NEW m \in S PROVE m + 1 \in S
  <2>1. CASE (m + 1) + 1 \in 1..n
    <3>1. m + 1 \in 1..n /\ (m + 1) + 1 # 1 /\ ((m + 1) + 1) - 1 = m + 1 /\ flat[m + 1] \in V
      BY <1>1, <1>10, <2>1
    <3>2. flat[(m + 1) + 1] = flat[m + 1] \o lists[(m + 1) + 1]
      BY <1>8, <2>1, <3>1
    <3>3. lists[(m + 1) + 1] \in V
      BY <1>1, <2>1
    <3>4. flat[m + 1] \o lists[(m + 1) + 1] \in V
      BY <1>0, <3>1, <3>3
    <3>5. flat[(m + 1) + 1] \in V
      BY <3>2, <3>4, Zenon
    <3> QED BY <3>1, <3>5
  <2> QED BY <2>1, <1>10
<1>11. S \in SUBSET Nat
  OBVIOUS
<1> HIDE DEF S
<1>12. S = Nat
  BY <1>9, <1>10, <1>11, SetInduction
<1>13. CASE n = 0
  <2>1. Seqs!FlattenSeq(lists) = lists /\ lists = <<>>
    BY <1>13 DEF Seqs!FlattenSeq
  <2> QED BY <1>0, <2>1 DEF V
<1>14. CASE n # 0
  <2>1. Seqs!FlattenSeq(lists) = flat[n]
    BY <1>14 DEF Seqs!FlattenSeq, flat
  <2>2. n - 1 \in Nat /\ (n - 1) + 1 = n /\ n \in 1..n
    BY <1>1, <1>14
  <2> QED BY <1>12, <2>1, <2>2 DEF S, V
<1> QED BY <1>13, <1>14

----------------------------------------------------------------------------
(* Lists of instructions that the oracle knows.                            *)

OracleCode(s) == IsList(s) /\ \A i \in Elements(s) : InsnBridged(i)

LEMMA JoinedList ==
  ASSUME NEW x, NEW y, IsList(x), IsList(y)
  PROVE  IsList(x \o y) /\ Elements(x \o y) \subseteq Elements(x) \cup Elements(y)
<1> DEFINE T == Elements(x) \cup Elements(y)
<1>1. x \in Seq(T) /\ y \in Seq(T)
  BY DEF IsList
<1>2. x \o y \in Seq(T)
  BY <1>1
<1>3. IsList(x \o y)
  BY <1>2, SeqIsList
<1>4. \A k \in DOMAIN (x \o y) : (x \o y)[k] \in T
  BY <1>2
<1> QED BY <1>3, <1>4 DEF Elements

LEMMA JoinedCode ==
  ASSUME NEW x, NEW y, OracleCode(x), OracleCode(y)
  PROVE  OracleCode(x \o y)
BY JoinedList DEF OracleCode

LEMMA NoCodeIsCode == OracleCode(<<>>)
<1>1. <<>> \in Seq({})
  OBVIOUS
<1>2. DOMAIN <<>> = {}
  OBVIOUS
<1>3. IsList(<<>>)
  BY <1>1, SeqIsList
<1> QED BY <1>2, <1>3 DEF OracleCode, Elements

LEMMA OneInsnIsCode ==
  ASSUME NEW i, InsnBridged(i)
  PROVE  OracleCode(<<i>>)
<1>1. <<i>> \in Seq({i})
  OBVIOUS
<1>2. DOMAIN <<i>> = {1} /\ <<i>>[1] = i
  OBVIOUS
<1>3. IsList(<<i>>)
  BY <1>1, SeqIsList
<1> QED BY <1>2, <1>3 DEF OracleCode, Elements

LEMMA FlattenedCode ==
  ASSUME NEW lists, IsList(lists), \A x \in Elements(lists) : OracleCode(x)
  PROVE  OracleCode(Seqs!FlattenSeq(lists))
<1> DEFINE T == UNION {Elements(x) : x \in Elements(lists)}
           flat == Seqs!FlattenSeq(lists)
<1>1. ASSUME NEW x \in Elements(lists) PROVE x \in Seq(T)
  <2>1. x \in Seq(Elements(x)) /\ Elements(x) \subseteq T
    BY DEF OracleCode, IsList
  <2> QED BY <2>1
<1>2. lists \in Seq(Seq(T))
  BY <1>1 DEF IsList
<1>3. flat \in Seq(T)
  BY <1>2, FlattenedList
<1>4. IsList(flat)
  BY <1>3, SeqIsList
<1>5. \A k \in DOMAIN flat : flat[k] \in T
  BY <1>3
<1>6. \A i \in T : InsnBridged(i)
  BY DEF OracleCode
<1> QED BY <1>4, <1>5, <1>6 DEF OracleCode, Elements

(* A list given by its elements.                                           *)
LEMMA ListedCode ==
  ASSUME NEW n \in Nat, NEW s, s = [k \in 1..n |-> s[k]], \A k \in 1..n : OracleCode(s[k])
  PROVE  OracleCode(Seqs!FlattenSeq(s))
<1> DEFINE T == {s[k] : k \in 1..n}
<1>1. s \in [1..n -> T]
  OBVIOUS
<1>2. s \in Seq(T)
  BY <1>1, SeqDef
<1>3. IsList(s) /\ \A x \in Elements(s) : OracleCode(x)
  BY <1>1, <1>2, SeqIsList DEF Elements
<1> QED BY <1>3, FlattenedCode

----------------------------------------------------------------------------
(* What each constructor makes.                                            *)

LEMMA ReadIsCode ==
  ASSUME NEW r, NEW t, NEW slot PROVE OracleCode(<<Rd(r, t, slot)>>)
<1>1. InsnBridged(Rd(r, t, slot))
  BY DEF Rd, Blank, InsnBridged
<1> QED BY <1>1, OneInsnIsCode

LEMMA WriteIsCode ==
  ASSUME NEW slot, NEW o PROVE OracleCode(<<Wr(slot, o)>>)
<1>1. InsnBridged(Wr(slot, o))
  BY DEF Wr, Blank, InsnBridged
<1> QED BY <1>1, OneInsnIsCode

LEMMA ConstIsCode ==
  ASSUME NEW r, NEW t, NEW v PROVE OracleCode(<<Con(r, t, v)>>)
<1>1. InsnBridged(Con(r, t, v))
  BY DEF Con, Blank, InsnBridged
<1> QED BY <1>1, OneInsnIsCode

LEMMA BinopIsCode ==
  ASSUME NEW r, NEW t, NEW k \in BinopKinds, NEW x, NEW y PROVE OracleCode(<<Bin(r, t, k, x, y)>>)
<1>1. InsnBridged(Bin(r, t, k, x, y))
  BY DEF Bin, Blank, InsnBridged
<1> QED BY <1>1, OneInsnIsCode

LEMMA CompareIsCode ==
  ASSUME NEW r, NEW k, NEW x, NEW y PROVE OracleCode(<<Cmp(r, k, x, y)>>)
<1>1. InsnBridged(Cmp(r, k, x, y))
  BY DEF Cmp, Blank, InsnBridged
<1> QED BY <1>1, OneInsnIsCode

LEMMA LoadIsCode ==
  ASSUME NEW r, NEW t, NEW n, NEW al, NEW sg, NEW a PROVE OracleCode(<<Ld(r, t, n, al, sg, a)>>)
<1>1. InsnBridged(Ld(r, t, n, al, sg, a))
  BY DEF Ld, Blank, InsnBridged
<1> QED BY <1>1, OneInsnIsCode

LEMMA StoreIsCode ==
  ASSUME NEW n, NEW al, NEW x, NEW a PROVE OracleCode(<<St(n, al, x, a)>>)
<1>1. InsnBridged(St(n, al, x, a))
  BY DEF St, Blank, InsnBridged
<1> QED BY <1>1, OneInsnIsCode

LEMMA CallIsCode ==
  ASSUME NEW f PROVE OracleCode(<<Call(NoName, "i32", f, <<>>)>>)
<1>1. InsnBridged(Call(NoName, "i32", f, <<>>))
  BY DEF Call, Blank, InsnBridged
<1> QED BY <1>1, OneInsnIsCode

LEMMA HostIsCode ==
  ASSUME NEW r, NEW t, NEW s, NEW args PROVE OracleCode(<<Host(r, t, s, args)>>)
<1>1. InsnBridged(Host(r, t, s, args))
  BY DEF Host, Blank, InsnBridged
<1> QED BY <1>1, OneInsnIsCode

----------------------------------------------------------------------------
(* The lowering of each instruction.                                       *)

RVOps ==
  {"addi", "andi", "slli", "srli", "add", "xor", "lui", "lw", "lhu", "sw", "jalr", "jal"}
    \cup Branches

(* The decoder knows nothing else.                                         *)
LEMMA OperationIsKnown ==
  ASSUME NEW w, Operation(w) # Undecodable
  PROVE  Operation(w) \in RVOps
BY DEF Operation, OpIn, RVOps, Branches, ShiftOps, LogicOps, AluOps, LoadOps, BranchOps

LEMMA GetIsCode ==
  ASSUME NEW a, NEW r, NEW tag PROVE OracleCode(Get(a, r, tag))
BY NoCodeIsCode, ReadIsCode DEF Get

LEMMA PutIsCode ==
  ASSUME NEW r, NEW o PROVE OracleCode(Put(r, o))
BY NoCodeIsCode, WriteIsCode DEF Put

LEMMA ImmediateIsCode ==
  ASSUME NEW a, NEW i, i.op \in DOMAIN ImmediateKind PROVE OracleCode(LowerImmediate(a, i))
<1>1. ImmediateKind[i.op] \in BinopKinds
  <2>1. /\ DOMAIN ImmediateKind = {"addi", "andi", "slli", "srli"}
        /\ ImmediateKind["addi"] = "add" /\ ImmediateKind["andi"] = "and"
        /\ ImmediateKind["slli"] = "shl" /\ ImmediateKind["srli"] = "lshr"
    BY DEF ImmediateKind
  <2>2. ImmediateKind[i.op] \in {"add", "and", "shl", "lshr"}
    BY <2>1
  <2> QED BY <2>2 DEF BinopKinds, ShiftKinds
<1> QED BY <1>1, GetIsCode, PutIsCode, BinopIsCode, JoinedCode DEF LowerImmediate

LEMMA RegisterIsCode ==
  ASSUME NEW a, NEW i, i.op \in DOMAIN RegisterKind PROVE OracleCode(LowerRegister(a, i))
<1>1. RegisterKind[i.op] \in BinopKinds
  BY DEF RegisterKind, BinopKinds
<1> QED BY <1>1, GetIsCode, PutIsCode, BinopIsCode, JoinedCode DEF LowerRegister

LEMMA UpperIsCode ==
  ASSUME NEW a, NEW i PROVE OracleCode(LowerUpper(a, i))
BY ConstIsCode, PutIsCode, JoinedCode DEF LowerUpper

LEMMA EffectiveIsCode ==
  ASSUME NEW a, NEW i PROVE OracleCode(Effective(a, i))
<1>1. "add" \in BinopKinds
  BY DEF BinopKinds
<1> QED BY <1>1, BinopIsCode DEF Effective

LEMMA LoweredLoadIsCode ==
  ASSUME NEW a, NEW i PROVE OracleCode(LowerLoad(a, i))
BY GetIsCode, PutIsCode, EffectiveIsCode, LoadIsCode, JoinedCode DEF LowerLoad

LEMMA LoweredStoreIsCode ==
  ASSUME NEW a, NEW i PROVE OracleCode(LowerStore(a, i))
BY GetIsCode, EffectiveIsCode, StoreIsCode, JoinedCode DEF LowerStore

LEMMA ConditionIsCode ==
  ASSUME NEW a, NEW i PROVE OracleCode(Condition(a, i))
BY GetIsCode, CompareIsCode, JoinedCode DEF Condition

LEMMA LinkIsCode ==
  ASSUME NEW a, NEW i PROVE OracleCode(LinkOf(a, i))
BY PutIsCode DEF LinkOf

(* The registers of a call of the host are read in a list of reads.        *)
LEMMA HostCallIsCode ==
  ASSUME NEW a, NEW i, NEW host \in Hosts PROVE OracleCode(LowerHostCall(a, i, host))
<1> DEFINE registers == HostArgs[host]
           Tag(k) == "host_arg" \o ToString(k - 1)
           reads == [k \in DOMAIN registers |-> Get(a, registers[k], Tag(k))]
<1>1. \E n \in Nat : DOMAIN registers = 1..n
  <2>1. /\ HostArgs["host_graphics"] = <<10, 11, 12>> /\ HostArgs["host_audio"] = <<10>>
        /\ HostArgs["host_input"] = <<10>> /\ HostArgs["host_system"] = <<10, 11>>
    BY DEF HostArgs
  <2>2. /\ DOMAIN <<10, 11, 12>> = 1..3 /\ DOMAIN <<10>> = 1..1 /\ DOMAIN <<10, 11>> = 1..2
    OBVIOUS
  <2> QED BY <2>1, <2>2 DEF Hosts
<1>2. OracleCode(Seqs!FlattenSeq(reads))
  <2>1. PICK n \in Nat : DOMAIN registers = 1..n
    BY <1>1
  <2>2. reads = [k \in 1..n |-> reads[k]] /\ \A k \in 1..n : OracleCode(reads[k])
    BY <2>1, GetIsCode
  <2> HIDE DEF reads
  <2> QED BY <2>2, ListedCode
<1> QED BY <1>2, LinkIsCode, PutIsCode, HostIsCode, NoCodeIsCode, JoinedCode DEF LowerHostCall

LEMMA CallToIsCode ==
  ASSUME NEW l, NEW address PROVE OracleCode(<<CallTo(l, address)>>)
BY CallIsCode DEF CallTo

LEMMA LoweredCallIsCode ==
  ASSUME NEW l, NEW a, NEW i PROVE OracleCode(LowerCall(l, a, i))
BY HostCallIsCode, LinkIsCode, CallToIsCode, JoinedCode DEF LowerCall, IsHostAt

LEMMA TailIsCode ==
  ASSUME NEW l, NEW g, NEW a, NEW i PROVE OracleCode(TailCode(l, g, a, i))
BY HostCallIsCode, NoCodeIsCode, CallToIsCode DEF TailCode, IsHostAt

LEMMA LoweredIsCode ==
  ASSUME NEW l, NEW g, NEW a, l.code[a].op \in RVOps
  PROVE  OracleCode(Lower(l, g, a))
<1> DEFINE i == l.code[a]
<1>1. /\ DOMAIN ImmediateKind = {"addi", "andi", "slli", "srli"}
      /\ DOMAIN RegisterKind = {"add", "xor"}
  BY DEF ImmediateKind, RegisterKind
<1>2. CASE i.op \in DOMAIN ImmediateKind
  <2>1. Lower(l, g, a) = LowerImmediate(a, i)
    BY <1>1, <1>2 DEF Lower, Branches, IsCall, IsTail
  <2> QED BY <1>2, <2>1, ImmediateIsCode
<1>3. CASE i.op \in DOMAIN RegisterKind
  <2>1. Lower(l, g, a) = LowerRegister(a, i)
    BY <1>1, <1>3 DEF Lower, Branches, IsCall, IsTail
  <2> QED BY <1>3, <2>1, RegisterIsCode
<1>4. CASE i.op = "lui"
  <2>1. Lower(l, g, a) = LowerUpper(a, i)
    BY <1>1, <1>4 DEF Lower, Branches, IsCall, IsTail
  <2> QED BY <2>1, UpperIsCode
<1>5. CASE i.op \in {"lw", "lhu"}
  <2>1. Lower(l, g, a) = LowerLoad(a, i)
    BY <1>1, <1>5 DEF Lower, Branches, IsCall, IsTail
  <2> QED BY <2>1, LoweredLoadIsCode
<1>6. CASE i.op = "sw"
  <2>1. Lower(l, g, a) = LowerStore(a, i)
    BY <1>1, <1>6 DEF Lower, Branches, IsCall, IsTail
  <2> QED BY <2>1, LoweredStoreIsCode
<1>7. CASE i.op \in Branches
  <2>1. Lower(l, g, a) = Condition(a, i)
    BY <1>1, <1>7 DEF Lower, Branches, IsCall, IsTail
  <2> QED BY <2>1, ConditionIsCode
<1>8. CASE i.op = "jalr"
  <2>1. Lower(l, g, a) = <<>>
    BY <1>1, <1>8 DEF Lower, Branches, IsCall, IsTail
  <2> QED BY <2>1, NoCodeIsCode
<1>9. CASE i.op = "jal" /\ i.rd # 0
  <2>1. Lower(l, g, a) = LowerCall(l, a, i)
    BY <1>1, <1>9 DEF Lower, Branches, IsCall, IsTail
  <2> QED BY <2>1, LoweredCallIsCode
<1>10. CASE i.op = "jal" /\ i.rd = 0
  <2>1. Lower(l, g, a) = TailCode(l, g, a, i)
    BY <1>1, <1>10 DEF Lower, Branches, IsCall, IsTail
  <2> QED BY <2>1, TailIsCode
<1> QED BY <1>1, <1>2, <1>3, <1>4, <1>5, <1>6, <1>7, <1>8, <1>9, <1>10 DEF RVOps

----------------------------------------------------------------------------
(* What make_ir.py makes of a file.                                        *)

(* Positions of a list, in order, give a list of its elements.             *)
LEMMA PickedElements ==
  ASSUME NEW s, IsList(s), NEW P \in SUBSET DOMAIN s
  PROVE  IsList(Picked(s, P)) /\ Elements(Picked(s, P)) \subseteq Elements(s)
<1> DEFINE order == Ascending(P)
<1>1. DOMAIN s = 1..Len(s) /\ Len(s) \in Nat
  BY ListLen
<1>2. P \in SUBSET Int /\ IsFiniteSet(P)
  BY <1>1, PartOfInterval
<1>3. /\ Cardinality(P) \in Nat /\ DOMAIN order = 1..Cardinality(P)
      /\ \A k \in DOMAIN order : order[k] \in P
  BY <1>2, AscendingIsOrder
<1> HIDE DEF order
<1>4. \A k \in 1..Cardinality(P) : s[order[k]] \in Elements(s)
  BY <1>3 DEF Elements
<1> DEFINE t == [k \in 1..Cardinality(P) |-> s[order[k]]]
<1>5. t \in [1..Cardinality(P) -> Elements(s)]
  BY <1>4
<1>6. t \in Seq(Elements(s))
  BY <1>3, <1>5, SeqDef
<1>7. Picked(s, P) = t
  BY <1>3 DEF Picked, order
<1> HIDE DEF t
<1>8. IsList(t)
  BY <1>6, SeqIsList
<1>9. Elements(t) \subseteq Elements(s)
  BY <1>5 DEF Elements
<1> QED BY <1>7, <1>8, <1>9

(* All symbols have numbers for values.                                    *)
LEMMA SymbolsAreNumbers ==
  ASSUME NEW f, FileShaped(f)
  PROVE  IsList(Symbols(f)) /\ \A s \in Elements(Symbols(f)) : s.value \in Nat
<1> DEFINE Y == UNION {Elements(s.symbols) : s \in Elements(f.sections)}
           WithNames(t) == Picked(t, {k \in DOMAIN t : t[k].name # NoName})
           Table(s) == IF IsSymbolTable(s) THEN WithNames(s.symbols) ELSE <<>>
           tables == [k \in DOMAIN f.sections |-> Table(f.sections[k])]
<1>1. ASSUME NEW s \in Elements(f.sections) PROVE Table(s) \in Seq(Y)
  <2>1. IsList(s.symbols)
    BY DEF FileShaped
  <2>2. IsList(WithNames(s.symbols)) /\ Elements(WithNames(s.symbols)) \subseteq Elements(s.symbols)
    BY <2>1, PickedElements
  <2>3. Elements(WithNames(s.symbols)) \subseteq Y
    BY <2>2
  <2>4. WithNames(s.symbols) \in Seq(Y)
    BY <2>2, <2>3 DEF IsList
  <2>5. <<>> \in Seq(Y)
    OBVIOUS
  <2> QED BY <2>4, <2>5
<1>2. DOMAIN f.sections = 1..Len(f.sections) /\ Len(f.sections) \in Nat
  BY ListLen DEF FileShaped
<1>3. \A k \in 1..Len(f.sections) : Table(f.sections[k]) \in Seq(Y)
  BY <1>1, <1>2 DEF Elements
<1> HIDE DEF Table
<1>4. tables \in [1..Len(f.sections) -> Seq(Y)]
  BY <1>2, <1>3
<1>5. tables \in Seq(Seq(Y))
  BY <1>2, <1>4, SeqDef
<1> HIDE DEF tables
<1>6. Symbols(f) = Seqs!FlattenSeq(tables)
  BY DEF Symbols, tables, Table
<1>7. Symbols(f) \in Seq(Y)
  BY <1>5, <1>6, FlattenedList
<1>8. IsList(Symbols(f))
  BY <1>7, SeqIsList
<1>9. \A k \in DOMAIN Symbols(f) : Symbols(f)[k] \in Y
  BY <1>7
<1>10. \A s \in Y : s.value \in Nat
  BY DEF FileShaped
<1> QED BY <1>8, <1>9, <1>10 DEF Elements

(* Sorting by value loses and invents nothing.                             *)
LEMMA ByValueElements ==
  ASSUME NEW s, IsList(s), \A x \in Elements(s) : x.value \in Nat
  PROVE  /\ DOMAIN ByValue(s) = DOMAIN s
         /\ \A k \in DOMAIN s : ByValue(s)[k] \in Elements(s)
<1> DEFINE D == DOMAIN s
           Earlier(i, j) == s[i].value < s[j].value \/ (s[i].value = s[j].value /\ i < j)
           Less == {p \in D \X D : Earlier(p[1], p[2])}
<1>1. D = 1..Len(s) /\ Len(s) \in Nat
  BY ListLen
<1>2. IsFiniteSet(D) /\ Cardinality(D) = Len(s)
  <2> HIDE DEF Less
  <2> QED BY <1>1, PartOfInterval
<1>3. \A j \in D : s[j].value \in Nat /\ j \in Nat
  BY <1>1 DEF Elements
<1>4. StrictOrder(D, Less)
  <2>1. ASSUME NEW i \in D, NEW j \in D
        PROVE  <<i, j>> \in Less <=>
                 s[i].value < s[j].value \/ (s[i].value = s[j].value /\ i < j)
    OBVIOUS
  <2> HIDE DEF Less
  <2>2. \A i \in D : <<i, i>> \notin Less
    BY <1>3, <2>1
  <2>3. ASSUME NEW x \in D, NEW y \in D, NEW z \in D, <<x, y>> \in Less, <<y, z>> \in Less
        PROVE  <<x, z>> \in Less
    BY <1>3, <2>1, <2>3
  <2>4. \A x, y \in D : x # y => <<x, y>> \in Less \/ <<y, x>> \in Less
    BY <1>3, <2>1
  <2> QED BY <2>2, <2>3, <2>4 DEF StrictOrder
<1>5. \A j \in D : {i \in D : Earlier(i, j)} = Before(D, Less, j)
  BY DEF Before
<1>6. \A k \in 1..Len(s) : \E j \in D : Cardinality(Before(D, Less, j)) = k - 1
  <2> HIDE DEF D, Less
  <2>1. Ranked(D, Less)
    BY <1>2, <1>4, Ranks
  <2> QED BY <1>2, <2>1 DEF Ranked
<1>7. \A k \in D : \E j \in D : Cardinality({i \in D : Earlier(i, j)}) = k - 1
  <2> SUFFICES ASSUME NEW k \in D PROVE \E j \in D : Cardinality({i \in D : Earlier(i, j)}) = k - 1
    OBVIOUS
  <2>1. PICK j \in D : Cardinality(Before(D, Less, j)) = k - 1
    BY <1>1, <1>6
  <2> QED BY <1>5, <2>1
<1>8. \A k \in D : (CHOOSE j \in D : Cardinality({i \in D : Earlier(i, j)}) = k - 1) \in D
  BY <1>7
<1> QED BY <1>8 DEF ByValue, Elements

(* The code is decoded words, of finitely many addresses.                  *)
LEMMA CodeIsDecoded ==
  ASSUME NEW f, FileShaped(f), Buildable(f)
  PROVE  /\ DOMAIN TextCode(f) \subseteq Int /\ IsFiniteSet(DOMAIN TextCode(f))
         /\ \A a \in DOMAIN TextCode(f) : TextCode(f)[a].op \in RVOps
<1>1. HasText(f)
  BY DEF Buildable, LoadsRV32I, RV32ITextOK
<1>2. Text(f) \in Elements(f.sections)
  <2> DEFINE P == {k \in DOMAIN f.sections : f.sections[k].name = ".text"}
  <2>1. DOMAIN f.sections = 1..Len(f.sections) /\ Len(f.sections) \in Nat
    BY ListLen DEF FileShaped
  <2>2. P # {} /\ P \subseteq Int /\ IsFiniteSet(P)
    <3>1. P # {}
      BY <1>1 DEF HasText, Elements
    <3> QED BY <2>1, <3>1, PartOfInterval
  <2>3. PICK k \in P : \A j \in P : k <= j
    BY <2>2, LeastExists
  <2>4. \A j \in 1..(k - 1) : f.sections[j].name # ".text"
    BY <2>1, <2>3
  <2>5. TextIndex(f) \in DOMAIN f.sections
    BY <2>3, <2>4 DEF TextIndex
  <2> QED BY <2>5 DEF Text, Elements
<1>3. Text(f).addr \in Nat /\ IsList(Text(f).data)
  BY <1>2 DEF FileShaped
<1> DEFINE t == Text(f)
           D == DOMAIN t.data
<1>4. D = 1..Len(t.data) /\ Len(t.data) \in Nat /\ IsFiniteSet(D)
  BY <1>3, ListLen, PartOfInterval
<1>5. TextAddresses(f) = {t.addr + 4 * (k - 1) : k \in D}
  BY DEF TextAddresses
<1>6. TextAddresses(f) \subseteq Int
  BY <1>3, <1>4, <1>5
<1>7. IsFiniteSet({t.addr + 4 * (k - 1) : k \in D})
  <2> DEFINE A == {t.addr + 4 * (k - 1) : k \in D}
             at == [k \in D |-> t.addr + 4 * (k - 1)]
  <2>1. at \in Surjection(D, A)
    BY DEF Surjection
  <2> HIDE DEF A, at
  <2>2. IsFiniteSet(A)
    BY <1>4, <2>1, FS_Surjection
  <2> QED BY <2>2 DEF A
<1>8. DOMAIN TextCode(f) = TextAddresses(f)
  BY DEF TextCode
<1>9. ASSUME NEW a \in TextAddresses(f) PROVE TextCode(f)[a].op \in RVOps
  <2>1. TextCode(f)[a].op = Operation(TextWords(f)[a])
    BY DEF TextCode, Decode
  <2>2. TextCode(f)[a].op # Undecodable
    BY DEF Buildable
  <2> QED BY <2>1, <2>2, OperationIsKnown
<1> QED BY <1>5, <1>6, <1>7, <1>8, <1>9

(* What the bridge relies on in legacy IR.                                 *)
Represented(l) ==
  /\ IsList(l.functions)
  /\ \A g \in Elements(l.functions) :
       /\ g.address \in Int
       /\ \A b \in Elements(g.blocks) : b.body \subseteq DOMAIN l.code
  /\ DOMAIN l.code \subseteq Int /\ IsFiniteSet(DOMAIN l.code)
  /\ \A a \in DOMAIN l.code : l.code[a].op \in RVOps

LEMMA BlocksAreCode ==
  ASSUME NEW first, NEW end, NEW targets, NEW code,
         NEW b \in Elements(FunctionBlocks(first, end, targets, code))
  PROVE  b.body \subseteq DOMAIN code
<1> DEFINE blocks == FunctionBlocks(first, end, targets, code)
<1>1. PICK k \in DOMAIN blocks : b = blocks[k]
  BY DEF Elements
<1>2. blocks[k].body \subseteq DOMAIN code
  BY DEF FunctionBlocks
<1> QED BY <1>1, <1>2

LEMMA BuiltIsRepresented ==
  ASSUME NEW f, FileShaped(f), Buildable(f)
  PROVE  Represented(Legacy(f))
<1> DEFINE code == TextCode(f)
           text == Text(f)
           targets == Targets(text.addr, code)
           IsFunction(s) == s.type = TypeFunc /\ s.size # 0 /\ Covers(text, s.value)
           picked == Picked(Symbols(f),
                            {k \in DOMAIN Symbols(f) : IsFunction(Symbols(f)[k])})
           sorted == ByValue(picked)
           Function(s) == [name |-> s.name, address |-> s.value, size |-> s.size,
                           blocks |-> FunctionBlocks(s.value, s.value + s.size, targets, code)]
           functions == [k \in DOMAIN sorted |-> Function(sorted[k])]
           l == Legacy(f)
<1>1. l.code = code /\ l.functions = functions
  BY DEF Legacy
<1>2. IsList(Symbols(f)) /\ \A s \in Elements(Symbols(f)) : s.value \in Nat
  BY SymbolsAreNumbers
<1>3. IsList(picked) /\ Elements(picked) \subseteq Elements(Symbols(f))
  BY <1>2, PickedElements
<1> HIDE DEF picked
<1>4. /\ DOMAIN sorted = DOMAIN picked
      /\ \A k \in DOMAIN picked : sorted[k] \in Elements(picked)
  BY <1>2, <1>3, ByValueElements
<1>5. DOMAIN picked = 1..Len(picked) /\ Len(picked) \in Nat
  BY <1>3, ListLen
<1> HIDE DEF sorted
<1>6. IsList(functions)
  <2>1. functions \in [1..Len(picked) -> {functions[k] : k \in DOMAIN functions}]
    BY <1>4, <1>5
  <2> HIDE DEF functions
  <2>2. functions \in Seq({functions[k] : k \in DOMAIN functions})
    BY <1>5, <2>1, SeqDef
  <2> QED BY <2>2, SeqIsList
<1>7. ASSUME NEW g \in Elements(functions)
      PROVE  /\ g.address \in Int
             /\ \A b \in Elements(g.blocks) : b.body \subseteq DOMAIN code
  <2>1. PICK k \in DOMAIN sorted : g = Function(sorted[k])
    BY DEF Elements
  <2>2. sorted[k].value \in Nat
    BY <1>2, <1>3, <1>4
  <2>3. /\ g.address = sorted[k].value
        /\ g.blocks = FunctionBlocks(sorted[k].value, sorted[k].value + sorted[k].size,
                                     targets, code)
    BY <2>1
  <2> QED BY <2>2, <2>3, BlocksAreCode
<1>8. /\ DOMAIN code \subseteq Int /\ IsFiniteSet(DOMAIN code)
      /\ \A a \in DOMAIN code : code[a].op \in RVOps
  BY CodeIsDecoded
<1> HIDE DEF code, functions, l
<1>9. /\ IsList(l.functions)
      /\ \A g \in Elements(l.functions) : g.address \in Int
      /\ \A g \in Elements(l.functions) : \A b \in Elements(g.blocks) : b.body \subseteq DOMAIN l.code
  BY <1>1, <1>6, <1>7
<1>10. /\ DOMAIN l.code \subseteq Int /\ IsFiniteSet(DOMAIN l.code)
       /\ \A a \in DOMAIN l.code : l.code[a].op \in RVOps
  BY <1>1, <1>8
<1>11. Represented(l)
  BY <1>9, <1>10 DEF Represented
<1> QED BY <1>11 DEF l

(* The last of some positions of a list is one of them.                    *)
LEMMA GreatestPosition ==
  ASSUME NEW s, IsList(s), NEW P \in SUBSET DOMAIN s, P # {}
  PROVE  s[Greatest(P)] \in Elements(s)
<1>1. DOMAIN s = 1..Len(s) /\ Len(s) \in Nat
  BY ListLen
<1>2. P \in SUBSET Int /\ IsFiniteSet(P)
  BY <1>1, PartOfInterval
<1>3. Greatest(P) \in P
  BY <1>2, AscendingIsOrder
<1> QED BY <1>3 DEF Elements

(* The functions the entry reaches are functions of the file.              *)
LEMMA ReachedAreFunctions ==
  ASSUME NEW l, Represented(l), WithName(l, EntryName) # {}
  PROVE  Reachable(l) \subseteq Elements(l.functions)
<1> DEFINE F == Elements(l.functions)
           V == SUBSET F
           n == Len(l.functions)
           entry == EntryFunction(l)
           Grown(S) == S \cup {c \in UNION {Callees(l, g) : g \in S} : c.address # entry.address}
           step == [p \in Nat \X V |-> Grown(p[2])]
           Equation(h) == h = [m \in 0..n |-> IF m = 0 THEN {entry} ELSE Grown(h[m - 1])]
           after == CHOOSE h : Equation(h)
<1>1. n \in Nat /\ IsList(l.functions)
  BY ListLen DEF Represented
<1>2. entry \in F
  <2>1. WithName(l, EntryName) \subseteq DOMAIN l.functions
    BY DEF WithName
  <2> QED BY <1>1, <2>1, GreatestPosition DEF EntryFunction
<1>3. ASSUME NEW address, IsFunctionAt(l, address) PROVE FunctionAt(l, address) \in F
  <2>1. FunctionsAt(l, address) \subseteq DOMAIN l.functions /\ FunctionsAt(l, address) # {}
    BY <1>3 DEF FunctionsAt, IsFunctionAt
  <2> QED BY <1>1, <2>1, GreatestPosition DEF FunctionAt
<1>4. ASSUME NEW g PROVE Callees(l, g) \subseteq F
  BY <1>3 DEF Callees
<1> HIDE DEF F, entry
<1>5. ASSUME NEW S \in V PROVE Grown(S) \in V
  BY <1>4
<1> HIDE DEF V, Grown
<1>6. \A p \in Nat \X V : step[p] = Grown(p[2])
  BY Zenon
<1>7. ASSUME NEW m \in Nat, NEW S \in V PROVE step[<<m, S>>] = Grown(S) /\ step[<<m, S>>] \in V
  <2>1. <<m, S>> \in Nat \X V /\ <<m, S>>[2] = S
    OBVIOUS
  <2>2. step[<<m, S>>] = Grown(S)
    BY <1>6, <2>1
  <2> QED BY <1>5, <2>2
<1> HIDE DEF step
<1>8. {entry} \in V
  BY <1>2 DEF V
<1>9. Steps(V, {entry}, step)
  <2>1. \A m \in Nat, S \in V : step[<<m + 1, S>>] \in V
    BY <1>7
  <2> QED BY <1>8, <2>1 DEF Steps
<1>10. PICK h : Recursion(h, n, {entry}, step)
  BY <1>1, <1>9, RecursionExists
<1>11. h \in [0..n -> V]
  BY <1>1, <1>9, <1>10, RecursionStays
<1>12. Equation(h)
  <2>1. ASSUME NEW m \in 0..n, m # 0 PROVE step[<<m, h[m - 1]>>] = Grown(h[m - 1])
    <3>1. m \in Nat /\ m - 1 \in 0..n
      BY <1>1, <2>1
    <3>2. h[m - 1] \in V
      BY <1>11, <3>1
    <3> QED BY <1>7, <3>1, <3>2
  <2>2. [m \in 0..n |-> IF m = 0 THEN {entry} ELSE step[<<m, h[m - 1]>>]]
          = [m \in 0..n |-> IF m = 0 THEN {entry} ELSE Grown(h[m - 1])]
    BY <2>1
  <2> QED BY <1>10, <2>2 DEF Recursion
<1>13. Equation(after)
  BY <1>12
<1>14. Reachable(l) = after[n]
  BY DEF Reachable, Grown, entry
<1> HIDE DEF after
<1> DEFINE S == {m \in Nat : m \in 0..n => after[m] \in V}
<1>15. 0 \in S
  BY <1>1, <1>8, <1>13
<1>16. ASSUME NEW m \in S PROVE m + 1 \in S
  <2>1. CASE m + 1 \in 0..n
    <3>1. m \in 0..n /\ after[m] \in V /\ m + 1 # 0 /\ (m + 1) - 1 = m
      BY <1>1, <1>16, <2>1
    <3>2. after[m + 1] = Grown(after[m])
      BY <1>13, <2>1, <3>1
    <3>3. after[m + 1] \in V
      BY <1>5, <3>1, <3>2
    <3> QED BY <3>3, <1>16
  <2> QED BY <2>1, <1>16
<1>17. S \in SUBSET Nat
  OBVIOUS
<1> HIDE DEF S
<1>18. S = Nat
  BY <1>15, <1>16, <1>17, SetInduction
<1>19. after[n] \in V
  BY <1>1, <1>18 DEF S
<1> QED BY <1>14, <1>19 DEF V, F

(* An element of a set in order.                                           *)
LEMMA AscendingElement ==
  ASSUME NEW S \in SUBSET Int, IsFiniteSet(S), NEW k \in DOMAIN Ascending(S)
  PROVE  Ascending(S)[k] \in S
BY AscendingIsOrder

(* A block of the file becomes a block the oracle knows.                   *)
LEMMA BlockIsBridged ==
  ASSUME NEW l, Represented(l), NEW g, NEW b, b.body \subseteq DOMAIN l.code
  PROVE  /\ \A i \in Elements(BridgedBlock(l, g, b).insns) : InsnBridged(i)
         /\ BridgedBlock(l, g, b).term.op \in {"jump", "branch", "return"}
<1> DEFINE order == Ascending(b.body)
           last == Greatest(b.body)
           pieces == [k \in DOMAIN order |-> Lower(l, g, order[k])]
<1>1. b.body \in SUBSET Int /\ IsFiniteSet(b.body)
  <2>1. IsFiniteSet(DOMAIN l.code) /\ DOMAIN l.code \subseteq Int
    BY DEF Represented
  <2>2. IsFiniteSet(b.body)
    BY <2>1, FS_Subset
  <2> QED BY <2>1, <2>2
<1>2. /\ Cardinality(b.body) \in Nat /\ DOMAIN order = 1..Cardinality(b.body)
      /\ \A k \in DOMAIN order : order[k] \in b.body
  BY <1>1, AscendingIsOrder
<1> HIDE DEF order
<1>3. \A k \in DOMAIN order : OracleCode(Lower(l, g, order[k]))
  BY <1>2, LoweredIsCode DEF Represented
<1>4. /\ pieces = [k \in 1..Cardinality(b.body) |-> pieces[k]]
      /\ \A k \in 1..Cardinality(b.body) : OracleCode(pieces[k])
  BY <1>2, <1>3
<1> HIDE DEF pieces
<1>5. OracleCode(Seqs!FlattenSeq(pieces))
  BY <1>2, <1>4, ListedCode
<1>6. BridgedBlock(l, g, b).insns = Seqs!FlattenSeq(pieces)
  BY DEF BridgedBlock, Blk, pieces, order
<1>7. BridgedBlock(l, g, b).term = Exit(g, l.code[last], last)
  BY DEF BridgedBlock, Blk
<1>8. Exit(g, l.code[last], last).op \in {"jump", "branch", "return"}
  BY DEF Exit, Br, Jmp, Ret, Term
<1> QED BY <1>5, <1>6, <1>7, <1>8 DEF OracleCode

LEMMA FunctionIsBridged ==
  ASSUME NEW l, Represented(l), NEW g \in Elements(l.functions)
  PROVE  FunctionBridged(BridgedFunction(l, g))
<1> DEFINE f == BridgedFunction(l, g)
<1>1. f.params = <<>> /\ f.blocks = [k \in DOMAIN g.blocks |-> BridgedBlock(l, g, g.blocks[k])]
  BY DEF BridgedFunction, Fun
<1>2. ASSUME NEW c \in Elements(f.blocks)
      PROVE  /\ \A i \in Elements(c.insns) : InsnBridged(i)
             /\ c.term.op \in {"jump", "branch", "return"}
  <2>1. PICK k \in DOMAIN g.blocks : c = BridgedBlock(l, g, g.blocks[k])
    BY <1>1 DEF Elements
  <2>2. g.blocks[k].body \subseteq DOMAIN l.code
    BY DEF Represented, Elements
  <2> QED BY <2>1, <2>2, BlockIsBridged
<1> QED BY <1>1, <1>2 DEF FunctionBridged

(* Every module the bridge writes is one the oracle knows.                 *)
LEMMA ModuleIsBridged ==
  ASSUME NEW l, Represented(l), Bridgeable(l)
  PROVE  ModuleBridged(Bridged(l))
<1> DEFINE reachable == Reachable(l)
           addresses == {g.address : g \in reachable}
           starts == Ascending(addresses)
           gprs == Ascending(Registers \ {0})
           m == Bridged(l)
<1>1. reachable \subseteq Elements(l.functions)
  BY ReachedAreFunctions DEF Bridgeable
<1> HIDE DEF reachable
<1>2. addresses \in SUBSET Int
  BY <1>1 DEF Represented
<1>3. IsFiniteSet(addresses)
  <2> DEFINE A == {l.functions[k].address : k \in DOMAIN l.functions}
             at == [k \in DOMAIN l.functions |-> l.functions[k].address]
  <2>1. at \in Surjection(DOMAIN l.functions, A)
    BY DEF Surjection
  <2>2. IsFiniteSet(DOMAIN l.functions)
    BY ListLen, PartOfInterval DEF Represented
  <2>3. addresses \subseteq A
    BY <1>1 DEF Elements
  <2> HIDE DEF A, at
  <2>4. IsFiniteSet(A)
    BY <2>1, <2>2, FS_Surjection
  <2> QED BY <2>3, <2>4, FS_Subset
<1>4. ASSUME NEW k \in DOMAIN starts
      PROVE  (CHOOSE g \in reachable : g.address = starts[k]) \in Elements(l.functions)
  <2> HIDE DEF addresses
  <2>1. starts[k] \in addresses
    BY <1>2, <1>3, AscendingElement
  <2> HIDE DEF starts
  <2>2. \E g \in reachable : g.address = starts[k]
    BY <2>1 DEF addresses
  <2> QED BY <1>1, <2>2
<1>5. \A f \in Elements(m.functions) : FunctionBridged(f)
  <2>1. m.functions = [k \in DOMAIN starts |->
                         BridgedFunction(l, CHOOSE g \in reachable : g.address = starts[k])]
    BY DEF Bridged, reachable
  <2> HIDE DEF m, starts
  <2> QED BY <1>4, <2>1, FunctionIsBridged DEF Elements
<1>6. /\ Registers \ {0} \in SUBSET Int /\ IsFiniteSet(Registers \ {0})
      /\ {2, 10} \subseteq Registers \ {0}
  <2>1. Registers \ {0} \subseteq 1..31 /\ {2, 10} \subseteq Registers \ {0}
    BY RegistersAssumption
  <2> QED BY <2>1, PartOfInterval
<1>7. /\ m.contract = Contract.version /\ m.memorySize = Contract.memorySize
      /\ m.maxCallDepth = PackagedCallDepth /\ m.identityOK /\ m.observe = Slot(10)
      /\ m.initialState = <<[slot |-> Slot(2), value |-> StackTop]>>
      /\ m.slots = [k \in DOMAIN gprs |-> Par(Slot(gprs[k]), "i32")]
  BY DEF Bridged
<1>8. ASSUME NEW r \in {2, 10} PROVE Slot(r) \in Ids(m.slots)
  <2> DEFINE P == Registers \ {0}
  <2>0. r \in P /\ P \in SUBSET Int /\ IsFiniteSet(P)
    BY <1>6
  <2> HIDE DEF P
  <2>1. PICK k \in DOMAIN Ascending(P) : Ascending(P)[k] = r
    BY <2>0, AscendingIsOrder
  <2>2. k \in DOMAIN m.slots /\ m.slots[k] = Par(Slot(r), "i32")
    BY <1>7, <2>1 DEF P
  <2>3. m.slots[k].id = Slot(r)
    BY <2>2 DEF Par
  <2> QED BY <2>2, <2>3 DEF Ids, Elements
<1>9. InitialStateOK(m)
  <2> DEFINE v == [slot |-> Slot(2), value |-> StackTop]
  <2>1. /\ DOMAIN m.initialState = {1} /\ m.initialState[1] = v
        /\ v.slot = Slot(2) /\ v.value = StackTop
    BY <1>7
  <2>2. PICK k \in DOMAIN m.slots : m.slots[k].id = Slot(2)
    BY <1>8 DEF Ids
  <2>3. \A s \in Elements(m.slots) : s.type = "i32"
    BY <1>7 DEF Elements, Par
  <2>4. SlotType(m, Slot(2)) = "i32"
    <3> HIDE DEF m
    <3>1. IndexOf(m.slots, Slot(2)) \in DOMAIN m.slots
      BY <2>2 DEF IndexOf
    <3> QED BY <2>3, <3>1 DEF SlotType, Elements
  <2>5. Elements(m.initialState) = {v}
    BY <2>1 DEF Elements
  <2> HIDE DEF v, m
  <2> QED BY <1>8, <2>1, <2>4, <2>5, BridgeAssumption DEF InitialStateOK
<1> HIDE DEF m
<1>10. ModuleBridged(m)
  BY <1>5, <1>7, <1>8, <1>9, BridgeAssumption DEF ModuleBridged
<1> QED BY <1>10 DEF m

----------------------------------------------------------------------------
(* The tools, from the file to the comparison.                             *)

LEMMA BridgedModules ==
  ASSUME NEW f \in Files, Buildable(f), Bridgeable(Legacy(f))
  PROVE  ModuleBridged(Bridged(Legacy(f)))
BY FilesAssumption, BuiltIsRepresented, ModuleIsBridged

(* The bridge works on what was built from the file, nothing is loaded     *)
(* before it has written, and from then on executor and oracle are in step. *)
BInv ==
  /\ file \in Files
  /\ source # NoSource => Buildable(file) /\ source = Legacy(file)
  /\ turn \in {"tools", "refused", "core", "native"}
  /\ turn \in {"tools", "refused"} =>
       /\ phase = "loading" /\ executors = 0 /\ runs = 0 /\ operations = 0
       /\ state = NoValues /\ memory = NoValues
       /\ stack = <<>> /\ outcome = NoOutcome /\ hostLog = <<>>
       /\ services = Services(Contract) /\ oracle = NoOracle
  /\ turn \in {"core", "native"} => OInv

LEMMA InitBInv == ParityInit => BInv
BY DEF ParityInit, BInv

LEMMA BuildBInv ==
  ASSUME BInv, Build
  PROVE  BInv'
BY DEF BInv, Build, coreVars

LEMMA CoreBInv ==
  ASSUME BInv, CoreStarts \/ CoreSteps, RunArgs = {<<>>}
  PROVE  BInv'
<1>1. OInv /\ turn = "core"
  BY DEF BInv, CoreStarts, CoreSteps
<1>2. OInv'
  BY <1>1, LoadOInv, ConstructOInv, RunOInv, TogetherOInv DEF CoreStarts, CoreSteps, Start
<1>3. file' = file /\ source' = source /\ turn' \in {"core", "native"}
  BY <1>1 DEF CoreStarts, CoreSteps
<1> QED BY <1>2, <1>3 DEF BInv

LEMMA NativeBInv ==
  ASSUME BInv, Interpret \/ Stopped
  PROVE  BInv'
<1>1. OInv /\ turn = "native"
  BY DEF BInv, Interpret, Stopped
<1>2. UNCHANGED oracleVars
  BY DEF Interpret, Stopped, packaged, coreVars, oracleVars, vars
<1>3. file' = file /\ source' = source /\ turn' \in {"core", "native"}
  BY DEF Interpret, Stopped
<1> QED BY <1>1, <1>2, <1>3, StutterOInv DEF BInv

(* The bridge's step leads to a state in which both sides may start.       *)
LEMMA BridgeStarts ==
  ASSUME BInv, Bridge, Packaged(Files) \subseteq Documents,
         \A p \in Packaged(Files) : Parsed(p) = p
  PROVE  /\ file' = file /\ source' = source
         /\ \/ /\ turn' = "refused" /\ UNCHANGED coreVars
            \/ turn' = "core" /\ OracleInit' /\ ModuleBridged(image)'
<1>1. /\ source = Legacy(file) /\ Buildable(file) /\ file \in Files /\ turn = "tools"
      /\ file' = file /\ source' = source /\ UNCHANGED coreVars
  BY DEF BInv, Bridge
<1>2. CASE ~(Translatable(source) /\ Bridgeable(source) /\ WellShaped(Bridged(source)))
  BY <1>1, <1>2 DEF Bridge
<1>3. CASE Translatable(source) /\ Bridgeable(source) /\ WellShaped(Bridged(source))
  <2> DEFINE p == Bridged(source)
  <2>1. p \in Packaged(Files)
    BY <1>1, <1>3 DEF Packaged
  <2>2. ModuleBridged(p)
    BY <1>1, <1>3, BridgedModules
  <2>3. document' = p /\ package' = p /\ turn' = "core"
    BY <1>3 DEF Bridge
  <2> HIDE DEF p
  <2>4. image' = p /\ document' \in Documents
    BY <2>1, <2>3 DEF image
  <2>5. ModuleBridged(image)'
    BY <2>2, <2>4
  <2>6. OracleInit'
    BY <1>1, <2>3, <2>4 DEF BInv, coreVars, OracleInit, Init
  <2> QED BY <1>1, <2>3, <2>5, <2>6
<1> QED BY <1>2, <1>3

LEMMA BridgeInductive ==
  ASSUME RunArgs = {<<>>}, Packaged(Files) \subseteq Documents,
         \A p \in Packaged(Files) : Parsed(p) = p
  PROVE  ParitySpec => []BInv
<1>1. OracleInit /\ ModuleBridged(image) => OInv
  BY InitOInv
<1>2. (OracleInit /\ ModuleBridged(image) => OInv)'
  BY <1>1, PTL
<1>3. ASSUME BInv, Bridge PROVE BInv'
  <2>1. /\ file' = file /\ source' = source
        /\ \/ /\ turn' = "refused" /\ UNCHANGED coreVars
           \/ turn' = "core" /\ OInv'
    BY <1>2, <1>3, BridgeStarts
  <2> QED BY <1>3, <2>1 DEF BInv, Bridge, coreVars
<1>4. ASSUME BInv, UNCHANGED parityVars PROVE BInv'
  <2>1. UNCHANGED oracleVars /\ file' = file /\ source' = source /\ turn' = turn
    BY <1>4 DEF parityVars, packaged, coreVars, oracleVars, vars
  <2>2. UNCHANGED coreVars
    BY <1>4 DEF parityVars
  <2> QED BY <1>4, <2>1, <2>2, StutterOInv DEF BInv, coreVars
<1>5. BInv /\ [ParityNext]_parityVars => BInv'
  BY <1>3, <1>4, BuildBInv, CoreBInv, NativeBInv DEF ParityNext
<1> QED BY <1>5, InitBInv, PTL DEF ParitySpec

(* For every set of files, every contract and every bound: the bridge      *)
(* writes no module that its oracle does not know (_convert_function).     *)
THEOREM BridgeKeepsToTheOracle ==
  ASSUME RunArgs = {<<>>}, Packaged(Files) \subseteq Documents,
         \A p \in Packaged(Files) : Parsed(p) = p
  PROVE  ParitySpec => []OracleKnowsModule
<1>1. BInv => OracleKnowsModule
  BY DEF BInv, OInv, OracleKnowsModule
<1> QED BY <1>1, BridgeInductive, PTL

(* Of every file that the tools accept, from its sections to the end of    *)
(* the run: the bridge's differential oracle and the Core API run the      *)
(* module that the bridge writes alike, operation by operation             *)
(* (run_ir_v1_bridge.py against executor.py).                              *)
THEOREM BridgedFilesRunAlike ==
  ASSUME RunArgs = {<<>>}, Packaged(Files) \subseteq Documents,
         \A p \in Packaged(Files) : Parsed(p) = p
  PROVE  ParitySpec => []OracleAgrees
<1>1. BInv => OracleAgrees
  BY OInvAgrees DEF BInv, OracleAgrees
<1> QED BY <1>1, BridgeInductive, PTL
=============================================================================
