------------------------------ MODULE IRTheory ------------------------------
(***************************************************************************)
(* Lemmas about the constant operators: lists, powers of two and masks,    *)
(* the arithmetic and the guest memory of the two execution paths, and     *)
(* what the validator establishes of a position in a module.               *)
(*                                                                         *)
(* Facts about a recursive function, for every argument, follow by         *)
(* induction over the set of the numbers that have the property            *)
(* (SetInduction), and that such a function exists at all from Iteration.  *)
(***************************************************************************)
EXTENDS GuestMemory, SequenceTheorems, WellFoundedInduction, TLAPS

----------------------------------------------------------------------------
(* Lists whose elements have no common type. *)

(* Any sequence is a list of its own elements. *)
LEMMA SeqIsList ==
  ASSUME NEW T, NEW s \in Seq(T)
  PROVE  IsList(s)
<1>1. /\ Len(s) \in Nat
      /\ DOMAIN s = 1..Len(s)
      /\ s \in [1..Len(s) -> T]
  BY LenProperties
<1>2. \A k \in 1..Len(s) : s[k] \in Elements(s)
  BY <1>1 DEF Elements
<1>3. s \in [1..Len(s) -> Elements(s)]
  BY <1>1, <1>2
<1>4. Seq(Elements(s)) = UNION {[1..n -> Elements(s)] : n \in Nat}
  BY SeqDef
<1> QED BY <1>1, <1>3, <1>4 DEF IsList

(* The length and the indices of a list. *)
LEMMA ListLen ==
  ASSUME NEW s, IsList(s)
  PROVE  /\ Len(s) \in Nat
         /\ DOMAIN s = 1..Len(s)
         /\ s # <<>> <=> Len(s) > 0
  BY LenProperties, EmptySeq DEF IsList

(* Appending keeps the elements and adds one. *)
LEMMA ListAppend ==
  ASSUME NEW s, NEW x, IsList(s)
  PROVE  LET t == Append(s, x)
         IN  /\ IsList(t)
             /\ Len(t) = Len(s) + 1
             /\ \A k \in 1..Len(s) : t[k] = s[k]
             /\ t[Len(s) + 1] = x
<1> DEFINE t == Append(s, x)
<1>1. s \in Seq(Elements(s) \cup {x}) /\ t \in Seq(Elements(s) \cup {x})
  BY DEF IsList
<1>2. /\ Len(t) = Len(s) + 1
      /\ \A k \in 1..Len(s) : t[k] = s[k]
      /\ t[Len(s) + 1] = x
  BY <1>1
<1>3. IsList(t)
  BY <1>1, SeqIsList
<1> QED BY <1>2, <1>3

(* Replacing the last element. *)
LEMMA ListReplace ==
  ASSUME NEW s, NEW x, IsList(s), s # <<>>
  PROVE  LET t == [s EXCEPT ![Len(s)] = x]
         IN  /\ IsList(t)
             /\ Len(t) = Len(s) /\ Len(s) \in Nat \ {0}
             /\ \A k \in 1..(Len(s) - 1) : t[k] = s[k]
             /\ t[Len(s)] = x
<1> DEFINE t == [s EXCEPT ![Len(s)] = x]
<1>1. s \in Seq(Elements(s) \cup {x}) /\ t \in Seq(Elements(s) \cup {x})
  BY DEF IsList
<1>2. /\ Len(t) = Len(s) /\ Len(s) \in Nat \ {0}
      /\ \A k \in 1..(Len(s) - 1) : t[k] = s[k]
      /\ t[Len(s)] = x
  BY <1>1
<1>3. IsList(t)
  BY <1>1, SeqIsList
<1> QED BY <1>2, <1>3

(* A prefix. *)
LEMMA ListPrefix ==
  ASSUME NEW s, NEW n \in Nat, IsList(s), n <= Len(s)
  PROVE  LET r == SubSeq(s, 1, n)
         IN  /\ IsList(r)
             /\ Len(r) = n
             /\ \A k \in 1..n : r[k] = s[k]
<1> DEFINE r == SubSeq(s, 1, n)
<1>1. s \in Seq(Elements(s))
  BY DEF IsList
<1>2. r \in Seq(Elements(s)) /\ Len(r) = n /\ \A k \in 1..n : r[k] = s[k]
  BY <1>1
<1>3. IsList(r)
  BY <1>2, SeqIsList
<1> QED BY <1>2, <1>3

(* Replacing the last two elements by one. *)
LEMMA ListPop ==
  ASSUME NEW s, NEW x, IsList(s), Len(s) > 1
  PROVE  LET t == Append(SubSeq(s, 1, Len(s) - 2), x)
         IN  /\ IsList(t)
             /\ Len(t) = Len(s) - 1
             /\ \A k \in 1..(Len(s) - 2) : t[k] = s[k]
             /\ t[Len(s) - 1] = x
<1>0. Len(s) \in Nat
  BY ListLen
<1> DEFINE n == Len(s) - 2
<1>1. n \in Nat /\ n = Len(s) - 2 /\ n <= Len(s)
  BY <1>0
<1> HIDE DEF n
<1> DEFINE r == SubSeq(s, 1, n)
<1>2. IsList(r) /\ Len(r) = n /\ \A k \in 1..n : r[k] = s[k]
  BY <1>1, ListPrefix
<1>3. n + 1 = Len(s) - 1 /\ SubSeq(s, 1, Len(s) - 2) = r
  BY <1>0, <1>1
<1> HIDE DEF r
<1>4. LET t == Append(r, x)
      IN  /\ IsList(t)
          /\ Len(t) = Len(r) + 1
          /\ \A k \in 1..Len(r) : t[k] = r[k]
          /\ t[Len(r) + 1] = x
  BY <1>2, ListAppend
<1> QED BY <1>1, <1>2, <1>3, <1>4

(* A list rebuilt element by element has the same length. *)
LEMMA ListImage ==
  ASSUME NEW s, NEW t, IsList(s), t = [k \in DOMAIN s |-> t[k]]
  PROVE  IsList(t) /\ Len(t) = Len(s)
<1>1. Len(s) \in Nat /\ DOMAIN s = 1..Len(s)
  BY ListLen
<1> DEFINE T == {t[k] : k \in DOMAIN s}
<1>2. t \in [1..Len(s) -> T]
  BY <1>1
<1>3. t \in Seq(T)
  BY <1>1, <1>2, SeqDef
<1>4. Len(t) \in Nat /\ DOMAIN t = 1..Len(t)
  BY <1>3, LenProperties
<1>5. Len(t) = Len(s)
  BY <1>1, <1>2, <1>4
<1> QED BY <1>3, <1>5, SeqIsList

(* The position of an id that occurs. *)
LEMMA IndexOfId ==
  ASSUME NEW s, NEW id \in Ids(s)
  PROVE  IndexOf(s, id) \in DOMAIN s /\ s[IndexOf(s, id)].id = id
BY DEF Ids, IndexOf

----------------------------------------------------------------------------
(* Induction and recursion over the natural numbers. *)

(* A set of naturals with 0 and the successor of each member has them all. *)
LEMMA SetInduction ==
  ASSUME NEW S \in SUBSET Nat, 0 \in S, \A n \in S : n + 1 \in S
  PROVE  S = Nat
<1> DEFINE R == OpToRel(<, Nat)
           T == Nat \ S
<1>1. IsWellFoundedOn(R, Nat)
  BY NatLessThanWellFounded
<1>2. R = {ss \in Nat \X Nat : ss[1] < ss[2]}
  BY DEF OpToRel
<1> HIDE DEF R
<1>3. ASSUME T # {} PROVE FALSE
  <2>1. PICK x \in T : \A y \in T : <<y, x>> \notin R
    BY <1>1, <1>3, WFMin
  <2>2. x # 0 /\ x \in Nat /\ x - 1 \in Nat
    OBVIOUS
  <2>3. <<x - 1, x>> \in R
    BY <1>2, <2>2
  <2>4. x - 1 \in S
    BY <2>1, <2>2, <2>3
  <2> QED BY <2>2, <2>4
<1> QED BY <1>3

\* v0 and the results of the step function are in V.
Steps(V, v0, step) == v0 \in V /\ \A n \in Nat, x \in V : step[<<n + 1, x>>] \in V

Iterates(V, v0, step, g) ==
  g \in [Nat -> V] /\ g[0] = v0 /\ \A n \in Nat : g[n + 1] = step[<<n + 1, g[n]>>]

(* A value and a step function define a sequence of values. *)
LEMMA Iteration ==
  ASSUME NEW V, NEW v0, NEW step, Steps(V, v0, step)
  PROVE  \E g : Iterates(V, v0, step, g)
<1>0. v0 \in V /\ \A n \in Nat, x \in V : step[<<n + 1, x>>] \in V
  BY DEF Steps
<1> DEFINE Upto(n, g) == /\ g \in [0..n -> V] /\ g[0] = v0
                         /\ \A k \in 0..n : k # n => g[k + 1] = step[<<k + 1, g[k]>>]
           S == {n \in Nat : \E g : Upto(n, g)}
<1>1. S = Nat
  <2>1. 0 \in S
    <3>1. Upto(0, [k \in 0..0 |-> v0])
      BY <1>0
    <3> QED BY <3>1
  <2>2. ASSUME NEW n \in S PROVE n + 1 \in S
    <3>1. PICK g : Upto(n, g)
      OBVIOUS
    <3> DEFINE new == step[<<n + 1, g[n]>>]
               h   == [k \in 0..(n + 1) |-> IF k = n + 1 THEN new ELSE g[k]]
    <3>2. n \in Nat /\ new \in V
      BY <1>0, <3>1
    <3>3. /\ h[0] = v0
          /\ \A k \in 0..(n + 1) : k # n + 1 => h[k] = g[k] /\ k \in 0..n
          /\ h[n + 1] = new
      BY <3>1, <3>2
    <3>4. h \in [0..(n + 1) -> V]
      BY <3>1, <3>2
    <3> HIDE DEF h
    <3>5. ASSUME NEW k \in 0..(n + 1), k # n + 1 PROVE h[k + 1] = step[<<k + 1, h[k]>>]
      <4>1. CASE k = n
        BY <3>2, <3>3, <3>5, <4>1
      <4>2. CASE k # n
        <5>1. k + 1 \in 0..(n + 1) /\ k + 1 # n + 1 /\ k \in 0..n
          BY <3>2, <3>5, <4>2
        <5>2. g[k + 1] = step[<<k + 1, g[k]>>]
          BY <3>1, <4>2, <5>1
        <5> QED BY <3>3, <3>5, <5>1, <5>2
      <4> QED BY <4>1, <4>2
    <3>6. Upto(n + 1, h)
      BY <3>3, <3>4, <3>5
    <3> HIDE DEF Upto
    <3> QED BY <3>2, <3>6
  <2>3. S \in SUBSET Nat
    OBVIOUS
  <2> HIDE DEF S
  <2> QED BY <2>1, <2>2, <2>3, SetInduction
<1>2. ASSUME NEW n \in Nat, NEW m \in Nat, n <= m, NEW g, NEW h, Upto(n, g), Upto(m, h)
      PROVE  \A k \in 0..n : g[k] = h[k]
  <2> DEFINE A == {k \in Nat : k \in 0..n => g[k] = h[k]}
  <2>1. 0 \in A
    BY <1>2
  <2>2. ASSUME NEW k \in A PROVE k + 1 \in A
    <3>1. CASE k + 1 \in 0..n
      <4>1. k \in 0..n /\ k # n /\ k \in 0..m /\ k # m /\ k \in Nat
        BY <1>2, <3>1
      <4>2. g[k + 1] = step[<<k + 1, g[k]>>] /\ h[k + 1] = step[<<k + 1, h[k]>>]
        BY <1>2, <4>1
      <4>3. g[k] = h[k]
        BY <2>2, <4>1
      <4> QED BY <4>1, <4>2, <4>3
    <3> QED BY <3>1
  <2>3. A \in SUBSET Nat
    OBVIOUS
  <2> HIDE DEF A
  <2>4. A = Nat
    BY <2>1, <2>2, <2>3, SetInduction
  <2> QED BY <2>4 DEF A
<1>3. \A n \in Nat : \E g : Upto(n, g)
  BY <1>1
<1> DEFINE F(n) == CHOOSE g : Upto(n, g)
           all == [n \in Nat |-> F(n)[n]]
<1> HIDE DEF Upto
<1>4. \A n \in Nat : Upto(n, F(n))
  BY <1>3
<1> HIDE DEF F
<1>5. \A n \in Nat : all[n] \in V
  BY <1>4 DEF Upto
<1>6. all[0] = v0
  BY <1>4 DEF Upto
<1>7. ASSUME NEW n \in Nat PROVE all[n + 1] = step[<<n + 1, all[n]>>]
  <2>1. Upto(n, F(n)) /\ Upto(n + 1, F(n + 1)) /\ n + 1 \in Nat /\ n <= n + 1
    BY <1>4
  <2>2. F(n)[n] = F(n + 1)[n]
    BY <1>2, <2>1
  <2>3. F(n + 1)[n + 1] = step[<<n + 1, F(n + 1)[n]>>]
    BY <2>1 DEF Upto
  <2> QED BY <2>1, <2>2, <2>3
<1>8. all \in [Nat -> V]
  BY <1>5
<1> HIDE DEF all
<1>9. Iterates(V, v0, step, all)
  BY <1>6, <1>7, <1>8 DEF Iterates
<1> QED BY <1>9

(* Powers of two. *)
LEMMA PowersOfTwo ==
  /\ Pow2 \in [Nat -> Nat \ {0}] /\ Pow2[0] = 1
  /\ \A n \in Nat : Pow2[n + 1] = 2 * Pow2[n]
<1> DEFINE V == Nat \ {0}
           step == [p \in Nat \X V |-> 2 * p[2]]
           Rec(g) == g = [n \in Nat |-> IF n = 0 THEN 1 ELSE 2 * g[n - 1]]
<1>1. \A n \in Nat, x \in V : step[<<n + 1, x>>] = 2 * x /\ step[<<n + 1, x>>] \in V
  OBVIOUS
<1>1a. 1 \in V
  OBVIOUS
<1>2. PICK g \in [Nat -> V] : g[0] = 1 /\ \A n \in Nat : g[n + 1] = step[<<n + 1, g[n]>>]
  <2>1. Steps(V, 1, step)
    BY <1>1 DEF Steps
  <2> HIDE DEF step, V
  <2>2. \E g : Iterates(V, 1, step, g)
    BY <2>1, Iteration
  <2> QED BY <2>2 DEF Iterates
<1>3. \A n \in Nat : g[n + 1] = 2 * g[n]
  BY ZenonT(60), <1>1, <1>2
<1>4. \A n \in Nat : g[n] = IF n = 0 THEN 1 ELSE 2 * g[n - 1]
  <2> TAKE n \in Nat
  <2>1. CASE n = 0
    BY <1>2, <2>1
  <2>2. CASE n # 0
    <3>1. n - 1 \in Nat /\ (n - 1) + 1 = n
      BY <2>2
    <3>2. g[(n - 1) + 1] = 2 * g[n - 1]
      BY <1>3, <3>1
    <3> QED BY <2>2, <3>1, <3>2
  <2> QED BY <2>1, <2>2
<1>5. Rec(g)
  BY <1>4
<1>6. Pow2 = CHOOSE f : Rec(f)
  BY DEF Pow2
<1> HIDE DEF Rec
<1>7. Rec(Pow2)
  BY <1>5, <1>6
<1>8. /\ Pow2 = [n \in Nat |-> IF n = 0 THEN 1 ELSE 2 * Pow2[n - 1]]
  BY <1>7 DEF Rec
<1>9. Pow2[0] = 1
  BY <1>8
<1>10. \A n \in Nat : Pow2[n + 1] = 2 * Pow2[n]
  <2> TAKE n \in Nat
  <2>1. n + 1 # 0 /\ n + 1 \in Nat /\ (n + 1) - 1 = n
    OBVIOUS
  <2> QED BY <1>8, <2>1
<1> DEFINE A == {n \in Nat : Pow2[n] \in V}
<1>11. A = Nat
  <2>1. 0 \in A /\ A \in SUBSET Nat
    BY <1>9
  <2>2. ASSUME NEW n \in A PROVE n + 1 \in A
    BY <1>10
  <2> HIDE DEF A
  <2> QED BY <2>1, <2>2, SetInduction
<1>12. DOMAIN Pow2 = Nat /\ Pow2 = [n \in Nat |-> Pow2[n]]
  BY <1>8
<1> QED BY <1>9, <1>10, <1>11, <1>12

----------------------------------------------------------------------------
(* Division by a positive number. *)

Positive == Nat \ {0}

(* Quotient and remainder of a division by a positive number. *)
LEMMA Division ==
  ASSUME NEW x \in Int, NEW p \in Positive
  PROVE  x \div p \in Int /\ x % p \in 0..(p - 1) /\ x = p * (x \div p) + (x % p)
BY DEF Positive

(* Different multiples of a number differ by the number at least. *)
LEMMA Multiples ==
  ASSUME NEW p \in Positive, NEW j \in Int, NEW k \in Int, j < k
  PROVE  p * j + p <= p * k
<1> DEFINE d == k - j
<1>1. d \in Nat /\ d >= 1 /\ k = j + d
  OBVIOUS
<1>2. p * d >= p
  BY <1>1 DEF Positive
<1>3. p * (j + d) = p * j + p * d
  BY <1>1 DEF Positive
<1> HIDE DEF d
<1> QED BY <1>1, <1>2, <1>3 DEF Positive

(* There is one way to write a number as a multiple and a remainder; *)
LEMMA UniqueRemainder ==
  ASSUME NEW p \in Positive, NEW j \in Int, NEW k \in Int, NEW r \in 0..(p - 1),
         NEW s \in 0..(p - 1), p * j + r = p * k + s
  PROVE  j = k /\ r = s
<1> DEFINE pj == p * j
           pk == p * k
<1>1. pj \in Int /\ pk \in Int /\ p \in Int
  BY DEF Positive
<1>2. j < k => pj + p <= pk
  BY Multiples
<1>3. k < j => pk + p <= pj
  BY Multiples
<1>4. pj + r = pk + s
  OBVIOUS
<1>5. j = k => pj = pk
  OBVIOUS
<1> HIDE DEF pj, pk
<1> QED BY <1>1, <1>2, <1>3, <1>4, <1>5

(* it is the one that division finds. *)
LEMMA Remainder ==
  ASSUME NEW p \in Positive, NEW k \in Int, NEW r \in 0..(p - 1)
  PROVE  (p * k + r) % p = r /\ (p * k + r) \div p = k
<1> DEFINE x == p * k + r
<1>1. x \in Int
  BY DEF Positive
<1>2. x \div p \in Int /\ x % p \in 0..(p - 1) /\ x = p * (x \div p) + (x % p)
  BY <1>1, Division
<1>3. p * k + r = p * (x \div p) + (x % p)
  BY <1>2
<1> HIDE DEF x
<1>4. k = x \div p /\ r = x % p
  BY <1>2, <1>3, UniqueRemainder
<1> QED BY <1>4 DEF x

(* Adding a multiple of the divisor. *)
LEMMA DropMultiple ==
  ASSUME NEW p \in Positive, NEW x \in Int, NEW k \in Int
  PROVE  /\ (x + p * k) % p = x % p
         /\ (x + p * k) \div p = x \div p + k
<1> DEFINE q == x \div p
           r == x % p
<1>1. q \in Int /\ r \in 0..(p - 1) /\ x = p * q + r
  BY Division
<1> HIDE DEF q, r
<1>2. x + p * k = p * (q + k) + r /\ q + k \in Int
  BY <1>1 DEF Positive
<1>3. (p * (q + k) + r) % p = r /\ (p * (q + k) + r) \div p = q + k
  BY <1>1, <1>2, Remainder
<1> QED BY <1>2, <1>3 DEF q, r

(* A remainder by p * q keeps the remainder by p and the quotient by p. *)
LEMMA NestedRemainder ==
  ASSUME NEW p \in Positive, NEW q \in Positive, NEW x \in Int
  PROVE  /\ (x % (p * q)) % p = x % p
         /\ (x % (p * q)) \div p = (x \div p) % q
         /\ x % (p * q) = p * ((x \div p) % q) + (x % p)
<1> DEFINE d == x \div p
           r == x % p
           e == d \div q
           s == d % q
<1>1. d \in Int /\ r \in 0..(p - 1) /\ x = p * d + r
  BY Division
<1>2. e \in Int /\ s \in 0..(q - 1) /\ d = q * e + s
  BY <1>1, Division
<1> HIDE DEF d, r, e, s
<1>3. p * q \in Positive
  BY DEF Positive
<1>4. x = (p * q) * e + (p * s + r)
  BY <1>1, <1>2 DEF Positive
<1>5. p * s + r \in 0..(p * q - 1)
  <2> DEFINE ps == p * s
             pq == p * q
  <2>1. ps + p <= pq
    BY <1>2, Multiples DEF Positive
  <2>2. ps \in Nat /\ pq \in Nat
    BY <1>2 DEF Positive
  <2> HIDE DEF ps, pq
  <2>3. ps + r \in 0..(pq - 1)
    BY <1>1, <2>1, <2>2 DEF Positive
  <2> QED BY <2>3 DEF ps, pq
<1>6. x % (p * q) = p * s + r
  BY <1>2, <1>3, <1>4, <1>5, Remainder
<1>7. (p * s + r) % p = r /\ (p * s + r) \div p = s
  BY <1>1, <1>2, Remainder
<1> QED BY <1>6, <1>7 DEF d, r, e, s

(* The law of exponents. *)
LEMMA PowerOfSum ==
  ASSUME NEW a \in Nat, NEW b \in Nat
  PROVE  Pow2[a + b] = Pow2[a] * Pow2[b]
<1> DEFINE S == {n \in Nat : Pow2[a + n] = Pow2[a] * Pow2[n]}
<1>1. 0 \in S
  BY PowersOfTwo
<1>2. ASSUME NEW n \in S PROVE n + 1 \in S
  <2>1. n \in Nat /\ a + n \in Nat /\ (a + n) + 1 = a + (n + 1) /\ n + 1 \in Nat
    OBVIOUS
  <2>2. Pow2[a + (n + 1)] = 2 * Pow2[a + n] /\ Pow2[n + 1] = 2 * Pow2[n]
    BY <2>1, PowersOfTwo
  <2> DEFINE x == Pow2[a]
             y == Pow2[n]
  <2>3. x \in Int /\ y \in Int /\ Pow2[a + n] = x * y
    BY <2>1, PowersOfTwo
  <2> HIDE DEF x, y
  <2>4. 2 * (x * y) = x * (2 * y)
    BY <2>3
  <2> QED BY <2>1, <2>2, <2>3, <2>4 DEF x, y
<1>3. S \in SUBSET Nat
  OBVIOUS
<1> HIDE DEF S
<1>4. S = Nat
  BY <1>1, <1>2, <1>3, SetInduction
<1> QED BY <1>4 DEF S

----------------------------------------------------------------------------
(* Masks and signed values. *)

(* The widths of the types, up to the host word. *)
LEMMA TypeWidths ==
  /\ ByteBits \in Positive /\ HostBits \in Positive /\ HostBits = 8 * ByteBits
  /\ \A t \in IntTypes : TypeBits[t] \in Positive /\ TypeBits[t] <= HostBits
BY ByteBitsAssumption DEF TypeBits, IntTypes, HostBits, Positive

(* A power of two is positive, *)
LEMMA Power ==
  ASSUME NEW n \in Nat
  PROVE  Pow2[n] \in Positive
BY PowersOfTwo DEF Positive

(* and divides the larger ones. *)
LEMMA PowerSplits ==
  ASSUME NEW n \in Nat, NEW k \in Nat, n <= k
  PROVE  k - n \in Nat /\ Pow2[k] = Pow2[n] * Pow2[k - n] /\ Pow2[n] <= Pow2[k]
<1> DEFINE d == k - n
<1>1. d \in Nat /\ n + d = k
  OBVIOUS
<1>2. Pow2[n + d] = Pow2[n] * Pow2[d]
  BY <1>1, PowerOfSum
<1> DEFINE p == Pow2[n]
           q == Pow2[d]
<1>3. p \in Positive /\ q \in Positive
  BY <1>1, Power
<1> HIDE DEF p, q, d
<1>4. p * q >= p
  <2>1. q = 1 \/ 1 < q
    BY <1>3 DEF Positive
  <2>2. 1 < q => p * 1 + p <= p * q
    BY <1>3, Multiples DEF Positive
  <2>3. p * 1 = p /\ p \in Nat
    BY <1>3 DEF Positive
  <2>4. q = 1 => p * q = p
    BY <2>3
  <2> DEFINE pq == p * q
  <2>5. pq \in Int
    BY <1>3 DEF Positive
  <2>6. (q = 1 => pq = p) /\ (1 < q => p + p <= pq)
    BY <2>2, <2>3, <2>4
  <2> HIDE DEF pq
  <2>7. pq >= p
    BY <2>1, <2>3, <2>5, <2>6
  <2> QED BY <2>7 DEF pq
<1> QED BY <1>1, <1>2, <1>4 DEF p, q, d

(* A mask keeps a value below the power; *)
LEMMA MaskFits ==
  ASSUME NEW x \in Int, NEW n \in Nat
  PROVE  Mask(x, n) \in Nat /\ Mask(x, n) < Pow2[n]
<1> DEFINE p == Pow2[n]
<1>1. p \in Positive
  BY Power
<1> HIDE DEF p
<1>2. x % p \in 0..(p - 1)
  BY <1>1, Division
<1> QED BY <1>1, <1>2 DEF Mask, p, Positive

(* what is below it already is kept; *)
LEMMA MaskKeeps ==
  ASSUME NEW n \in Nat, NEW x \in Nat, x < Pow2[n]
  PROVE  Mask(x, n) = x
<1> DEFINE p == Pow2[n]
<1>1. p \in Positive /\ x < p
  BY Power
<1> HIDE DEF p
<1>2. x \in 0..(p - 1) /\ p * 0 + x = x
  BY <1>1 DEF Positive
<1>3. (p * 0 + x) % p = x
  BY <1>1, <1>2, Remainder
<1> QED BY <1>2, <1>3 DEF Mask, p

(* a wider mask before does not matter; *)
LEMMA MaskOfMask ==
  ASSUME NEW x \in Int, NEW n \in Nat, NEW k \in Nat, n <= k
  PROVE  Mask(Mask(x, k), n) = Mask(x, n)
<1>1. Pow2[k] = Pow2[n] * Pow2[k - n] /\ Pow2[n] \in Positive /\ Pow2[k - n] \in Positive
  BY PowerSplits, Power
<1> QED BY <1>1, NestedRemainder DEF Mask

(* neither does the host word of the generated C. *)
LEMMA Uint64Masked ==
  ASSUME NEW x \in Int, NEW n \in 1..HostBits
  PROVE  Mask(Uint64(x), n) = Mask(x, n)
BY MaskOfMask, TypeWidths DEF Uint64, Positive

(* The sign bit is worth half of the width. *)
LEMMA HalfPower ==
  ASSUME NEW n \in Positive
  PROVE  n - 1 \in Nat /\ Pow2[n - 1] \in Positive /\ Pow2[n] = 2 * Pow2[n - 1]
<1>1. n - 1 \in Nat /\ (n - 1) + 1 = n
  BY DEF Positive
<1> QED BY <1>1, PowersOfTwo DEF Positive

(* The range of a signed value. *)
LEMMA SignedRange ==
  ASSUME NEW x \in Int, NEW n \in Positive
  PROVE  /\ SignedValue(x, n) \in Int
         /\ -Pow2[n - 1] <= SignedValue(x, n) /\ SignedValue(x, n) < Pow2[n - 1]
<1> DEFINE y == Mask(x, n)
           p == Pow2[n - 1]
           q == Pow2[n]
<1>1. y \in Nat /\ y < q
  BY MaskFits DEF Positive
<1>2. p \in Nat /\ q = 2 * p
  BY HalfPower DEF Positive
<1>3. SignedValue(x, n) = IF y >= p THEN y - q ELSE y
  BY DEF SignedValue
<1> HIDE DEF y, p, q
<1> QED BY <1>1, <1>2, <1>3 DEF p

(* The sign bit is set in the upper half of the bit patterns. *)
LEMMA SignBit ==
  ASSUME NEW n \in Positive, NEW y \in Nat, y < Pow2[n]
  PROVE  Bit(y, n - 1) = 1 <=> y >= Pow2[n - 1]
<1> DEFINE p == Pow2[n - 1]
           d == y \div p
           r == y % p
<1>1. p \in Positive /\ y < 2 * p
  BY HalfPower
<1>2. d \in Int /\ r \in 0..(p - 1) /\ y = p * d + r
  <2> HIDE DEF p
  <2> QED BY <1>1, Division
<1>3. Bit(y, n - 1) = d % 2
  BY DEF Bit
<1> HIDE DEF p, d, r
<1>4. d \in {0, 1}
  <2>1. ~(d < 0)
    <3>1. d < 0 => p * d + p <= p * 0
      BY <1>1, <1>2, Multiples
    <3> DEFINE pd == p * d
    <3>2. pd \in Int /\ y = pd + r /\ (d < 0 => pd + p <= 0)
      BY <1>1, <1>2, <3>1 DEF Positive
    <3> HIDE DEF pd
    <3> QED BY <1>1, <1>2, <3>2 DEF Positive
  <2>2. ~(1 < d)
    <3>1. 1 < d => p * 1 + p <= p * d
      BY <1>1, <1>2, Multiples
    <3> DEFINE pd == p * d
    <3>2. pd \in Int /\ y = pd + r /\ (1 < d => p + p <= pd)
      BY <1>1, <1>2, <3>1 DEF Positive
    <3> HIDE DEF pd
    <3> QED BY <1>1, <1>2, <3>2 DEF Positive
  <2> QED BY <1>2, <2>1, <2>2
<1>5. CASE d = 0
  BY <1>1, <1>2, <1>3, <1>5 DEF p, Positive
<1>6. CASE d = 1
  BY <1>1, <1>2, <1>3, <1>6 DEF p, Positive
<1> QED BY <1>4, <1>5, <1>6

(* or_signed of the generated C is signed_value of the reference path. *)
LEMMA CSignedIsSigned ==
  ASSUME NEW x \in Int, NEW n \in 1..HostBits
  PROVE  CSigned(x, n) = SignedValue(x, n)
<1> DEFINE y == Mask(x, n)
           p == Pow2[n - 1]
           q == Pow2[n]
           h == Pow2[HostBits - 1]
           w == Pow2[HostBits]
<1>1. n \in Positive /\ HostBits \in Positive
  BY TypeWidths DEF Positive
<1>2. p \in Nat /\ q = 2 * p /\ h \in Nat /\ w = 2 * h
  BY <1>1, HalfPower DEF Positive
<1>3. y \in Nat /\ y < q /\ (Bit(y, n - 1) = 1 <=> y >= p)
  BY <1>1, MaskFits, SignBit DEF Positive
<1>4. p <= h
  <2>1. n - 1 \in Nat /\ HostBits - 1 \in Nat /\ n - 1 <= HostBits - 1
    BY <1>1 DEF Positive
  <2> QED BY <2>1, PowerSplits
<1>5. n >= HostBits => n = HostBits /\ p = h /\ q = w
  BY <1>1 DEF Positive
<1>6. CSigned(x, n) = IF n >= HostBits THEN Int64(y)
                      ELSE Int64(IF Bit(y, n - 1) = 1 THEN y + (w - q) ELSE y)
  BY DEF CSigned
<1>7. \A z : Int64(z) = IF z >= h THEN z - w ELSE z
  BY DEF Int64
<1>8. SignedValue(x, n) = IF y >= p THEN y - q ELSE y
  BY DEF SignedValue
<1> HIDE DEF y, p, q, h, w
<1>9. CASE n >= HostBits
  BY <1>5, <1>6, <1>7, <1>8, <1>9
<1>10. CASE ~(n >= HostBits)
  BY <1>2, <1>3, <1>4, <1>6, <1>7, <1>8, <1>10
<1> QED BY <1>9, <1>10

----------------------------------------------------------------------------
(* Bitwise operators. *)

(* A binary digit, and those above the highest one. *)
LEMMA Digit ==
  ASSUME NEW x \in Nat, NEW i \in Nat
  PROVE  Bit(x, i) \in {0, 1} /\ (x < Pow2[i] => Bit(x, i) = 0)
<1> DEFINE p == Pow2[i]
           d == x \div p
           r == x % p
<1>1. p \in Positive
  BY Power
<1>2. d \in Int /\ r \in 0..(p - 1) /\ x = p * d + r
  <2> HIDE DEF p
  <2> QED BY <1>1, Division
<1>3. d % 2 \in {0, 1}
  BY <1>2
<1>4. x < p => d = 0
  <2> HIDE DEF d, r, p
  <2>1. x < p => x \in 0..(p - 1) /\ p * 0 + x = p * d + r
    BY <1>1, <1>2 DEF Positive
  <2> QED BY <1>1, <1>2, <2>1, UniqueRemainder
<1> QED BY <1>3, <1>4 DEF Bit

(* The digit-by-digit operators, as far as one wants. *)
Digits(kind, a, b, g) ==
  /\ g \in [Nat -> Int] /\ g[0] = 0
  /\ \A i \in Nat : g[i + 1] = g[i] + Pow2[i] * BitOf(kind, Bit(a, i), Bit(b, i))

LogicKinds == {"and", "or", "xor"}

(* The operators on digits; there is nothing to compute from two zeros. *)
LEMMA DigitOf ==
  ASSUME NEW kind \in LogicKinds, NEW p \in {0, 1}, NEW q \in {0, 1}
  PROVE  BitOf(kind, p, q) \in {0, 1} /\ BitOf(kind, 0, 0) = 0
BY DEF BitOf, LogicKinds

(* Logic computes them. *)
LEMMA LogicDigits ==
  ASSUME NEW kind \in LogicKinds, NEW a \in Nat, NEW b \in Nat
  PROVE  \E g : Digits(kind, a, b, g) /\ \A n \in Nat : Logic(kind, a, b, n) = g[n]
<1> DEFINE digit(i) == BitOf(kind, Bit(a, i), Bit(b, i))
           step == [p \in Nat \X Int |-> p[2] + Pow2[p[1] - 1] * digit(p[1] - 1)]
           Low(n, f) == f = [i \in 0..n |-> IF i = 0 THEN 0
                                            ELSE f[i - 1] + Pow2[i - 1] * digit(i - 1)]
<1>1. \A i \in Nat : digit(i) \in {0, 1} /\ Pow2[i] \in Positive
  BY Digit, DigitOf, Power
<1> HIDE DEF digit
<1>2. \A n \in Nat, x \in Int : step[<<n + 1, x>>] = x + Pow2[n] * digit(n)
  <2> TAKE n \in Nat, x \in Int
  <2>1. n + 1 \in Nat /\ (n + 1) - 1 = n
    OBVIOUS
  <2> QED BY <2>1
<1>3. PICK g : g \in [Nat -> Int] /\ g[0] = 0 /\ \A n \in Nat : g[n + 1] = g[n] + Pow2[n] * digit(n)
  <2>1. Steps(Int, 0, step)
    <3>1. \A n \in Nat, x \in Int : x + Pow2[n] * digit(n) \in Int
      BY <1>1 DEF Positive
    <3> HIDE DEF step
    <3>2. \A n \in Nat, x \in Int : step[<<n + 1, x>>] \in Int
      BY <1>2, <3>1
    <3>3. 0 \in Int
      OBVIOUS
    <3> QED BY <3>2, <3>3, Zenon DEF Steps
  <2> HIDE DEF step
  <2>2. PICK g : Iterates(Int, 0, step, g)
    BY <2>1, Iteration
  <2>3. \A n \in Nat : g[n] \in Int /\ g[n + 1] = g[n] + Pow2[n] * digit(n)
    BY <1>2, <2>2 DEF Iterates
  <2> QED BY <2>2, <2>3 DEF Iterates
<1>4. \A i \in Nat : i # 0 => i - 1 \in Nat /\ g[i] = g[i - 1] + Pow2[i - 1] * digit(i - 1)
  <2> TAKE i \in Nat
  <2> HAVE i # 0
  <2>1. i - 1 \in Nat /\ (i - 1) + 1 = i
    OBVIOUS
  <2> QED BY <1>3, <2>1
<1>5. ASSUME NEW n \in Nat PROVE Logic(kind, a, b, n) = g[n]
  <2> DEFINE f == [i \in 0..n |-> g[i]]
  <2>1. Low(n, f)
    <3>1. \A i \in 0..n : f[i] = IF i = 0 THEN 0 ELSE f[i - 1] + Pow2[i - 1] * digit(i - 1)
      <4> TAKE i \in 0..n
      <4>1. CASE i = 0
        BY <1>3, <4>1
      <4>2. CASE i # 0
        <5>1. i \in Nat /\ i - 1 \in 0..n
          BY <4>2
        <5> QED BY <1>4, <4>2, <5>1
      <4> QED BY <4>1, <4>2
    <3> QED BY <3>1
  <2>2. Logic(kind, a, b, n) = (CHOOSE low : Low(n, low))[n]
    BY DEF Logic, digit
  <2> DEFINE l == CHOOSE low : Low(n, low)
  <2> HIDE DEF f
  <2>3. Low(n, l)
    <3> HIDE DEF Low
    <3> QED BY <2>1
  <2> HIDE DEF l
  <2>4. \A i \in 0..n : l[i] = IF i = 0 THEN 0 ELSE l[i - 1] + Pow2[i - 1] * digit(i - 1)
    BY <2>3
  <2> DEFINE S == {i \in Nat : i <= n => l[i] = g[i]}
  <2>5. 0 \in S
    BY <1>3, <2>4
  <2>6. ASSUME NEW i \in S PROVE i + 1 \in S
    <3>1. CASE i + 1 <= n
      <4>1. i + 1 \in 0..n /\ i + 1 # 0 /\ (i + 1) - 1 = i /\ i \in Nat /\ i <= n
        BY <3>1
      <4>2. l[i + 1] = l[i] + Pow2[i] * digit(i)
        BY <2>4, <4>1
      <4>3. l[i] = g[i] /\ g[i + 1] = g[i] + Pow2[i] * digit(i)
        BY <1>3, <4>1
      <4> QED BY <4>1, <4>2, <4>3
    <3>2. CASE ~(i + 1 <= n)
      BY <3>2
    <3> QED BY <3>1, <3>2
  <2>7. S \in SUBSET Nat
    OBVIOUS
  <2> HIDE DEF S
  <2>8. S = Nat
    BY <2>5, <2>6, <2>7, SetInduction
  <2>9. l[n] = g[n]
    BY <2>8 DEF S
  <2> QED BY <2>2, <2>9 DEF l
<1>6. Digits(kind, a, b, g)
  BY <1>3 DEF Digits, digit
<1> QED BY <1>5, <1>6

(* Above the highest bit of both operands there is nothing to compute. *)
LEMMA LogicIsNarrow ==
  ASSUME NEW kind \in LogicKinds, NEW n \in Nat, NEW k \in Nat, n <= k,
         NEW a \in Nat, a < Pow2[n], NEW b \in Nat, b < Pow2[n]
  PROVE  Logic(kind, a, b, k) = Logic(kind, a, b, n) /\ Logic(kind, a, b, n) \in Int
<1>1. PICK g : Digits(kind, a, b, g) /\ \A j \in Nat : Logic(kind, a, b, j) = g[j]
  BY LogicDigits
<1> DEFINE S == {d \in Nat : g[n + d] = g[n]}
<1>2. 0 \in S
  BY <1>1 DEF Digits
<1>3. ASSUME NEW d \in S PROVE d + 1 \in S
  <2>1. d \in Nat /\ n + d \in Nat /\ n <= n + d /\ n + (d + 1) = (n + d) + 1
    OBVIOUS
  <2>2. Pow2[n] <= Pow2[n + d] /\ Pow2[n] \in Nat /\ Pow2[n + d] \in Nat
    BY <2>1, PowerSplits, Power DEF Positive
  <2>3. a < Pow2[n + d] /\ b < Pow2[n + d]
    BY <2>2
  <2>4. Bit(a, n + d) = 0 /\ Bit(b, n + d) = 0
    BY <2>1, <2>3, Digit
  <2>5. g[(n + d) + 1] = g[n + d] + Pow2[n + d] * BitOf(kind, 0, 0)
    BY <1>1, <2>1, <2>4 DEF Digits
  <2>6. BitOf(kind, 0, 0) = 0
    BY DigitOf
  <2>7. g[n + d] \in Int
    BY <1>1, <2>1 DEF Digits
  <2>8. g[n + (d + 1)] = g[n + d]
    BY <2>1, <2>2, <2>5, <2>6, <2>7
  <2> QED BY <2>1, <2>8
<1>4. S \in SUBSET Nat
  OBVIOUS
<1> HIDE DEF S
<1>5. S = Nat
  BY <1>2, <1>3, <1>4, SetInduction
<1>6. k - n \in Nat /\ n + (k - n) = k
  OBVIOUS
<1>7. g[n + (k - n)] = g[n]
  BY <1>5, <1>6 DEF S
<1> QED BY <1>1, <1>6, <1>7 DEF Digits

----------------------------------------------------------------------------
(* The instructions compute the same on both paths. *)

(* A value of a type of n bits. *)
Pattern(n) == {x \in Nat : x < Pow2[n]}

(* A bit pattern is kept by the mask, and its signed value is zero only
   for zero. *)
LEMMA PatternKept ==
  ASSUME NEW n \in Positive, NEW a \in Pattern(n)
  PROVE  /\ a \in Nat /\ a < Pow2[n] /\ Mask(a, n) = a
         /\ SignedValue(a, n) = IF a >= Pow2[n - 1] THEN a - Pow2[n] ELSE a
         /\ SignedValue(a, n) = 0 => a = 0
<1>1. a \in Nat /\ a < Pow2[n] /\ n \in Nat
  BY DEF Pattern, Positive
<1>2. Mask(a, n) = a
  BY <1>1, MaskKeeps
<1>3. Pow2[n] \in Nat /\ Pow2[n - 1] \in Nat
  BY Power, HalfPower DEF Positive
<1> QED BY <1>1, <1>2, <1>3 DEF SignedValue

(* The generated C compares, *)
LEMMA SameCompare ==
  ASSUME NEW n \in 1..HostBits, NEW a \in Int, NEW b \in Int, NEW p \in Predicates
  PROVE  CCompare(p, a, b, n) = Compare(p, a, b, n)
<1>1. CSigned(a, n) = SignedValue(a, n) /\ CSigned(b, n) = SignedValue(b, n)
  BY CSignedIsSigned
<1>2. CASE p \in {"eq", "ne", "ult", "ule", "ugt", "uge"}
  BY <1>2 DEF CCompare
<1>3. CASE p \in {"slt", "sle", "sgt", "sge"}
  <2>1. p \notin {"eq", "ne", "ult", "ule", "ugt", "uge"}
    BY <1>3
  <2> DEFINE sa == SignedValue(a, n)
             sb == SignedValue(b, n)
  <2>2. CCompare(p, a, b, n) =
          CASE p = "slt" -> IF sa <  sb THEN 1 ELSE 0
            [] p = "sle" -> IF sa <= sb THEN 1 ELSE 0
            [] p = "sgt" -> IF sa >  sb THEN 1 ELSE 0
            [] p = "sge" -> IF sa >= sb THEN 1 ELSE 0
    BY <1>1, <2>1 DEF CCompare
  <2>3. /\ p = "slt" => (Holds(p, a, b, n) <=> sa < sb)
        /\ p = "sle" => (Holds(p, a, b, n) <=> sa <= sb)
        /\ p = "sgt" => (Holds(p, a, b, n) <=> sa > sb)
        /\ p = "sge" => (Holds(p, a, b, n) <=> sa >= sb)
    BY DEF Holds
  <2> HIDE DEF sa, sb
  <2> QED BY <1>3, <2>2, <2>3 DEF Compare
<1> QED BY <1>2, <1>3 DEF Predicates

(* casts, *)
LEMMA SameCast ==
  ASSUME NEW from \in 1..HostBits, NEW to \in 1..HostBits, NEW x \in Int, NEW kind
  PROVE  CCast(kind, x, from, to) = Cast(kind, x, from, to)
<1>1. CSigned(x, from) = SignedValue(x, from)
  BY CSignedIsSigned
<1>2. SignedValue(x, from) \in Int
  BY SignedRange, TypeWidths DEF Positive
<1>3. Mask(Uint64(SignedValue(x, from)), to) = Mask(SignedValue(x, from), to)
  BY <1>2, Uint64Masked
<1> QED BY <1>1, <1>3 DEF CCast, Cast

(* divides signed values, *)
LEMMA SameDivrem ==
  ASSUME NEW n \in 1..HostBits, NEW a \in Pattern(n), NEW b \in Pattern(n), NEW kind,
         b # 0, ~(a = Pow2[n - 1] /\ b = Pow2[n] - 1)
  PROVE  CSignedDivrem(kind, a, b, n) = PySignedDivrem(kind, a, b, n)
<1> DEFINE sa == SignedValue(a, n)
           sb == SignedValue(b, n)
           p  == Pow2[n - 1]
           h  == Pow2[HostBits - 1]
           size == Abs(sa) \div Abs(sb)
           quotient == IF (sa < 0) # (sb < 0) THEN -size ELSE size
           result == IF kind = "sdiv" THEN quotient ELSE sa - quotient * sb
<1>1. CSigned(a, n) = sa /\ CSigned(b, n) = sb
  <2>1. a \in Int /\ b \in Int
    BY DEF Pattern
  <2> QED BY <2>1, CSignedIsSigned
<1>2. n \in Positive /\ HostBits \in Positive /\ n - 1 \in Nat /\ HostBits - 1 \in Nat
  BY TypeWidths DEF Positive
<1>3. p \in Nat /\ h \in Nat /\ p <= h /\ Pow2[n] = 2 * p /\ (n # HostBits => p < h)
  <2>1. p <= h
    BY <1>2, PowerSplits DEF Positive
  <2>2. p \in Nat /\ h \in Nat /\ Pow2[n] = 2 * p
    BY <1>2, HalfPower DEF Positive
  <2>3. n # HostBits => Pow2[n] <= h
    BY <1>2, PowerSplits DEF Positive
  <2>4. p > 0
    BY <1>2, HalfPower DEF Positive
  <2> HIDE DEF p, h
  <2> QED BY <2>1, <2>2, <2>3, <2>4
<1>4. /\ sa \in Int /\ -p <= sa /\ sb \in Int /\ sb # 0
      /\ sa = IF a >= p THEN a - 2 * p ELSE a
      /\ sb = IF b >= p THEN b - 2 * p ELSE b
      /\ a \in Nat /\ b \in Nat
  <2>1. /\ a \in Nat /\ sa = IF a >= p THEN a - Pow2[n] ELSE a
        /\ b \in Nat /\ sb = IF b >= p THEN b - Pow2[n] ELSE b
        /\ sb = 0 => b = 0
    BY <1>2, PatternKept
  <2>2. a \in Int /\ b \in Int
    BY <2>1
  <2>3. sa \in Int /\ -p <= sa /\ sb \in Int
    BY <1>2, <2>2, SignedRange
  <2>4. Pow2[n] = 2 * p
    BY <1>3
  <2> HIDE DEF sa, sb, p
  <2> QED BY <2>1, <2>3, <2>4
<1>5. ~(sa = -h /\ sb = -1)
  <2> HIDE DEF sa, sb, h
  <2>1. SUFFICES ASSUME sa = -h, sb = -1 PROVE FALSE
    OBVIOUS
  <2>2. p = h
    <3> HIDE DEF p
    <3> QED BY <1>3, <1>4, <2>1
  <2>3. a = p /\ b = Pow2[n] - 1
    <3>1. p > 0
      BY <1>2, HalfPower DEF Positive
    <3> DEFINE w == Pow2[n]
    <3>2. w = 2 * p
      BY <1>3
    <3> HIDE DEF p, w
    <3> QED BY <1>3, <1>4, <2>1, <2>2, <3>1, <3>2
  <2> QED BY <2>3
<1>6. CTruncDiv(sa, sb) = quotient
  BY <1>5 DEF CTruncDiv
<1>7. result \in Int
  <2>1. Abs(sa) \in Int /\ Abs(sb) \in Positive
    BY <1>4 DEF Abs, Positive
  <2>2. size \in Int
    BY <2>1, Division
  <2>3. quotient \in Int /\ quotient * sb \in Int
    <3> HIDE DEF size, sa, sb
    <3> QED BY <1>4, <2>2
  <2> HIDE DEF quotient, sa, sb
  <2> QED BY <1>4, <2>3
<1>8. CSignedDivrem(kind, a, b, n) = Mask(Uint64(result), n)
  BY <1>1, <1>6 DEF CSignedDivrem
<1>9. PySignedDivrem(kind, a, b, n) = Mask(result, n)
  BY DEF PySignedDivrem
<1> HIDE DEF result
<1> QED BY <1>7, <1>8, <1>9, Uint64Masked

(* divides, *)
LEMMA SameDivremResult ==
  ASSUME NEW n \in 1..HostBits, NEW a \in Pattern(n), NEW b \in Pattern(n),
         NEW kind \in DivremKinds
  PROVE  CDivrem(kind, a, b, n) = DivremResult(kind, a, b, n)
<1>1. CASE b # 0 /\ ~(a = Pow2[n - 1] /\ b = Pow2[n] - 1)
  BY <1>1, SameDivrem DEF CDivrem, DivremResult
<1>2. CASE b = 0
  BY <1>2 DEF CDivrem, DivremResult, DivremCases
<1>3. CASE b # 0 /\ a = Pow2[n - 1] /\ b = Pow2[n] - 1
  <2>1. \A r : DivremCases(kind, a, b, n, r) =
          CASE kind = "udiv" -> a \div b
            [] kind = "urem" -> a % b
            [] kind \in {"sdiv", "srem"} -> IF kind = "sdiv" THEN Pow2[n - 1] ELSE 0
    BY <1>3 DEF DivremCases, DivremKinds
  <2> QED BY <2>1 DEF CDivrem, DivremResult
<1> QED BY <1>1, <1>2, <1>3

(* and computes the binops of IR V1 as the reference path does; *)
LEMMA SameBinop ==
  ASSUME NEW n \in 1..HostBits, NEW a \in Pattern(n), NEW b \in Pattern(n),
         NEW kind \in BinopKinds
  PROVE  CBinop(kind, a, b, n) = Binop(kind, a, b, n)
<1>1. n \in Positive /\ HostBits \in Positive /\ n <= HostBits /\ n \in Nat /\ HostBits \in Nat
  BY TypeWidths DEF Positive
<1>2. a \in Nat /\ b \in Nat /\ a < Pow2[n] /\ b < Pow2[n] /\ a \in Int
  BY DEF Pattern
<1>3. \A x \in Int : Mask(Uint64(x), n) = Mask(x, n)
  BY Uint64Masked
<1>4. CASE kind \in {"add", "sub", "mul"}
  <2>1. a + b \in Int /\ a - b \in Int /\ a * b \in Int
    BY <1>2
  <2> QED BY <1>3, <1>4, <2>1 DEF CBinop, Binop
<1>5. CASE kind = "shl"
  <2>1. a * Pow2[b] \in Int
    BY <1>2, Power DEF Positive
  <2> QED BY <1>3, <1>5, <2>1 DEF CBinop, Binop
<1>6. CASE kind = "lshr"
  BY <1>6 DEF CBinop, Binop
<1>7. CASE kind = "ashr"
  <2>1. CSigned(a, n) = SignedValue(a, n) /\ SignedValue(a, n) \in Int
    BY <1>1, <1>2, CSignedIsSigned, SignedRange
  <2>2. SignedValue(a, n) \div Pow2[b] \in Int
    <3> DEFINE s == SignedValue(a, n)
               p == Pow2[b]
    <3>1. s \in Int /\ p \in Positive
      BY <1>2, <2>1, Power
    <3> HIDE DEF s, p
    <3>2. s \div p \in Int
      BY <3>1, Division
    <3> QED BY <3>2 DEF s, p
  <2> QED BY <1>3, <1>7, <2>1, <2>2 DEF CBinop, Binop
<1>8. CASE kind \in LogicKinds
  <2>1. Logic(kind, a, b, HostBits) = Logic(kind, a, b, n)
    BY <1>1, <1>2, <1>8, LogicIsNarrow
  <2> QED BY <1>8, <2>1 DEF CBinop, Binop, LogicKinds
<1> QED BY <1>4, <1>5, <1>6, <1>7, <1>8 DEF BinopKinds, ShiftKinds, LogicKinds

(* hence all of them: the C expression that emit_insn writes has the       *)
(* value that _binop and evaluate_v11 compute, for every width up to the   *)
(* host's, every pair of patterns and every operation.                     *)
THEOREM SameBinopV11 ==
  ASSUME NEW n \in 1..HostBits, NEW a \in Pattern(n), NEW b \in Pattern(n),
         NEW kind \in BinopKinds \cup DivremKinds
  PROVE  CBinopV11(kind, a, b, n) = BinopV11(kind, a, b, n)
<1>1. CASE kind \in DivremKinds
  BY <1>1, SameDivremResult DEF CBinopV11, BinopV11
<1>2. CASE kind \notin DivremKinds
  BY <1>2, SameBinop DEF CBinopV11, BinopV11
<1> QED BY <1>1, <1>2

(* Every instruction computes an integer. *)
LEMMA BinopIsInteger ==
  ASSUME NEW n \in 1..HostBits, NEW a \in Pattern(n), NEW b \in Pattern(n),
         NEW kind \in BinopKinds \cup DivremKinds
  PROVE  BinopV11(kind, a, b, n) \in Int
<1>1. n \in Positive /\ n \in Nat /\ a \in Nat /\ b \in Nat /\ a \in Int
  BY TypeWidths DEF Positive, Pattern
<1>2. CASE kind \in DivremKinds
  <2>1. Pow2[n - 1] \in Int /\ Pow2[n] \in Int
    BY <1>1, Power, HalfPower DEF Positive
  <2>2. b # 0 => a \div b \in Int /\ a % b \in Int
    <3>1. b # 0 => b \in Positive
      BY <1>1 DEF Positive
    <3>2. ASSUME b # 0 PROVE a \div b \in Int /\ a % b \in 0..(b - 1)
      BY <1>1, <3>1, <3>2, Division
    <3> QED BY <3>2
  <2>3. PySignedDivrem(kind, a, b, n) \in Int \/ b = 0
    <3> DEFINE sa == SignedValue(a, n)
               sb == SignedValue(b, n)
               size == Abs(sa) \div Abs(sb)
               quotient == IF (sa < 0) # (sb < 0) THEN -size ELSE size
               result == IF kind = "sdiv" THEN quotient ELSE sa - quotient * sb
    <3>1. SUFFICES ASSUME b # 0 PROVE PySignedDivrem(kind, a, b, n) \in Int
      OBVIOUS
    <3>2. sa \in Int /\ sb \in Int /\ sb # 0
      BY <1>1, <3>1, SignedRange, PatternKept
    <3> HIDE DEF sa, sb
    <3>3. Abs(sa) \in Int /\ Abs(sb) \in Positive
      BY <3>2 DEF Abs, Positive
    <3>4. size \in Int
      BY <3>3, Division
    <3> HIDE DEF size
    <3>5. quotient \in Int /\ quotient * sb \in Int
      BY <3>2, <3>4
    <3> HIDE DEF quotient
    <3>6. result \in Int
      BY <3>2, <3>5
    <3> HIDE DEF result
    <3>7. Mask(result, n) \in Int
      BY <1>1, <3>6, MaskFits
    <3> QED BY <3>7 DEF PySignedDivrem, result, quotient, size, sa, sb
  <2> DEFINE signed == PySignedDivrem(kind, a, b, n)
             half == Pow2[n - 1]
             full == Pow2[n]
  <2>4. DivremResult(kind, a, b, n) = DivremCases(kind, a, b, n, signed)
    BY DEF DivremResult
  <2>5. \A r : r \in Int \/ b = 0 => DivremCases(kind, a, b, n, r) \in Int
    <3> TAKE r
    <3> HAVE r \in Int \/ b = 0
    <3>1. CASE b = 0
      BY <1>1, <2>1, <3>1 DEF DivremCases
    <3>2. CASE b # 0
      <4>1. half \in Int /\ a \div b \in Int /\ a % b \in Int /\ r \in Int
        BY <2>1, <2>2, <3>2
      <4> DEFINE quo == a \div b
                 rem == a % b
      <4>2. DivremCases(kind, a, b, n, r) \in {half, quo, rem, r, 0}
        BY <1>2, <3>2 DEF DivremCases, DivremKinds
      <4> HIDE DEF half
      <4> QED BY <4>1, <4>2
    <3> QED BY <3>1, <3>2
  <2>6. DivremCases(kind, a, b, n, signed) \in Int
    <3> HIDE DEF signed
    <3> QED BY <2>3, <2>5 DEF signed
  <2> QED BY <1>2, <2>4, <2>6 DEF BinopV11
<1>3. CASE kind \notin DivremKinds
  <2> DEFINE P(r) == r \in Int
  <2>1. kind \in BinopKinds
    BY <1>3
  <2>2. a + b \in Int /\ a - b \in Int /\ a * b \in Int
    BY <1>1
  <2>3. a * Pow2[b] \in Int /\ a \div Pow2[b] \in Int
    <3> DEFINE p == Pow2[b]
    <3>1. p \in Positive
      BY <1>1, Power
    <3> HIDE DEF p
    <3>2. a * p \in Int /\ a \div p \in Int
      BY <1>1, <3>1, Division DEF Positive
    <3> QED BY <3>2 DEF p
  <2>4. SignedValue(a, n) \div Pow2[b] \in Int
    <3> DEFINE p == Pow2[b]
               s == SignedValue(a, n)
    <3>1. p \in Positive /\ s \in Int
      BY <1>1, Power, SignedRange
    <3> HIDE DEF p, s
    <3>2. s \div p \in Int
      BY <3>1, Division
    <3> QED BY <3>2 DEF p, s
  <2>5. kind \in LogicKinds => Logic(kind, a, b, n) \in Int
    BY <1>1, LogicIsNarrow DEF Pattern
  <2> DEFINE x == CASE kind = "add"  -> a + b
                    [] kind = "sub"  -> a - b
                    [] kind = "mul"  -> a * b
                    [] kind = "shl"  -> a * Pow2[b]
                    [] kind = "lshr" -> a \div Pow2[b]
                    [] kind = "ashr" -> SignedValue(a, n) \div Pow2[b]
                    [] OTHER         -> Logic(kind, a, b, n)
  <2>6. x \in Int
    <3>1. kind = "add" \/ kind = "sub" \/ kind = "mul" \/ kind = "shl" \/ kind = "lshr"
            \/ kind = "ashr" \/ kind \in LogicKinds
      BY <2>1 DEF BinopKinds, ShiftKinds, LogicKinds
    <3>2. kind \in LogicKinds => x = Logic(kind, a, b, n)
      BY DEF LogicKinds
    <3>3. CASE kind \in LogicKinds
      <4> HIDE DEF x
      <4> QED BY <2>5, <3>2, <3>3
    <3>4. CASE kind \in {"add", "sub", "mul"}
      BY <2>2, <3>4
    <3>5. CASE kind \in {"shl", "lshr"}
      BY <2>3, <3>5
    <3>6. CASE kind = "ashr"
      BY <2>4, <3>6
    <3> QED BY <3>1, <3>3, <3>4, <3>5, <3>6
  <2>7. Binop(kind, a, b, n) = Mask(x, n)
    BY DEF Binop
  <2> HIDE DEF x
  <2> QED BY <1>1, <1>3, <2>6, <2>7, MaskFits DEF BinopV11
<1> QED BY <1>2, <1>3

----------------------------------------------------------------------------
(* The guest memory. *)

\* A recursion that counts up to n, over integers.
CountsUp(n, v0, step, f) ==
  /\ f[0] = v0
  /\ \A k \in 0..n : f[k] \in Int
  /\ \A k \in 0..n : k # n => f[k + 1] = step[<<k + 1, f[k]>>]

Solves(n, v0, step, f) ==
  f = [k \in 0..n |-> IF k = 0 THEN v0 ELSE step[<<k, f[k - 1]>>]]

(* It has a solution: what the definitions CHOOSE is one. *)
LEMMA Solution ==
  ASSUME NEW n \in Nat, NEW v0, NEW step, Steps(Int, v0, step)
  PROVE  \E f : Solves(n, v0, step, f) /\ CountsUp(n, v0, step, f)
<1>1. PICK g : Iterates(Int, v0, step, g)
  BY Iteration
<1> DEFINE f == [k \in 0..n |-> g[k]]
<1>2. /\ g[0] = v0 /\ \A k \in Nat : g[k] \in Int
      /\ \A k \in Nat : g[k + 1] = step[<<k + 1, g[k]>>]
  BY <1>1 DEF Iterates
<1>3. \A k \in 0..n : f[k] = g[k] /\ k \in Nat
  OBVIOUS
<1>4. \A k \in 0..n : f[k] = IF k = 0 THEN v0 ELSE step[<<k, f[k - 1]>>]
  <2> TAKE k \in 0..n
  <2>1. CASE k = 0
    BY <1>2, <1>3, <2>1
  <2>2. CASE k # 0
    <3>1. k - 1 \in 0..n /\ k - 1 \in Nat /\ (k - 1) + 1 = k
      BY <2>2
    <3>2. g[(k - 1) + 1] = step[<<(k - 1) + 1, g[k - 1]>>]
      BY <1>2, <3>1
    <3> HIDE DEF f
    <3> QED BY <1>3, <2>2, <3>1, <3>2
  <2> QED BY <2>1, <2>2
<1>5. Solves(n, v0, step, f)
  BY <1>4 DEF Solves
<1>6. CountsUp(n, v0, step, f)
  <2>1. f[0] = v0 /\ \A k \in 0..n : f[k] \in Int
    BY <1>2, <1>3
  <2>2. ASSUME NEW k \in 0..n, k # n PROVE f[k + 1] = step[<<k + 1, f[k]>>]
    <3>1. k + 1 \in 0..n /\ k \in Nat
      BY <2>2
    <3> HIDE DEF f
    <3> QED BY <1>2, <1>3, <3>1
  <2> HIDE DEF f
  <2> QED BY <2>1, <2>2 DEF CountsUp
<1> HIDE DEF f
<1> QED BY <1>5, <1>6

(* The bytes of an access, the least significant one first. *)
AccessBytes(m, memory, address, n) == [k \in 0..(n - 1) |-> memory[address + Offset(m, n, k)]]

AreIntegers(bytes, n) == \A k \in 0..(n - 1) : bytes[k] \in Int

(* The reference path sums the bytes by their significance; *)
LEMMA RawDigits ==
  ASSUME NEW m, NEW memory, NEW address, NEW n \in Nat,
         AreIntegers(AccessBytes(m, memory, address, n), n)
  PROVE  \E low : /\ RawValue(m, memory, address, n) = low[n]
                  /\ low[0] = 0 /\ \A k \in 0..n : low[k] \in Int
                  /\ \A k \in 0..n : k # n =>
                       low[k + 1] = low[k] + AccessBytes(m, memory, address, n)[k] * Pow2[ByteBits * k]
<1> DEFINE Rec(f) == f = [k \in 0..n |->
             IF k = 0 THEN 0
             ELSE f[k - 1] + memory[address + Offset(m, n, k - 1)] * Pow2[ByteBits * (k - 1)]]
           byte(k) == memory[address + Offset(m, n, k)]
           step == [p \in Nat \X Int |->
                      IF p[1] \in 1..n THEN p[2] + byte(p[1] - 1) * Pow2[ByteBits * (p[1] - 1)]
                      ELSE 0]
<1>1. \A k \in 0..(n - 1) : byte(k) \in Int /\ byte(k) = AccessBytes(m, memory, address, n)[k]
  BY DEF AreIntegers, AccessBytes
<1> HIDE DEF byte
<1>2. \A k \in 0..(n - 1) : Pow2[ByteBits * k] \in Int
  <2> TAKE k \in 0..(n - 1)
  <2>1. ByteBits * k \in Nat
    BY TypeWidths DEF Positive
  <2> QED BY <2>1, Power DEF Positive
<1>3. \A k \in Nat, x \in Int :
        /\ step[<<k + 1, x>>] \in Int
        /\ k < n => step[<<k + 1, x>>] = x + byte(k) * Pow2[ByteBits * k]
  <2> TAKE k \in Nat, x \in Int
  <2>1. k + 1 \in Nat /\ (k + 1) - 1 = k /\ (k + 1 \in 1..n <=> k < n)
    OBVIOUS
  <2>2. step[<<k + 1, x>>] = IF k < n THEN x + byte(k) * Pow2[ByteBits * k] ELSE 0
    BY <2>1
  <2>3. k < n => k \in 0..(n - 1)
    OBVIOUS
  <2>4. k < n => x + byte(k) * Pow2[ByteBits * k] \in Int
    BY <1>1, <1>2, <2>3
  <2> HIDE DEF step
  <2> QED BY <2>2, <2>4
<1>4. Steps(Int, 0, step)
  <2> HIDE DEF step
  <2>1. \A k \in Nat, x \in Int : step[<<k + 1, x>>] \in Int
    BY <1>3
  <2>2. 0 \in Int
    OBVIOUS
  <2> QED BY <2>1, <2>2, Zenon DEF Steps
<1> HIDE DEF step
<1>5. PICK f : Solves(n, 0, step, f) /\ CountsUp(n, 0, step, f)
  BY <1>4, Solution
<1>6. Rec(f)
  <2>1. \A k \in 0..n : f[k] =
          IF k = 0 THEN 0
          ELSE f[k - 1] + byte(k - 1) * Pow2[ByteBits * (k - 1)]
    <3> TAKE k \in 0..n
    <3>1. CASE k = 0
      BY <1>5, <3>1 DEF CountsUp
    <3>2. CASE k # 0
      <4>1. k - 1 \in 0..n /\ k - 1 # n /\ k - 1 \in Nat /\ k - 1 < n /\ (k - 1) + 1 = k
        BY <3>2
      <4>2. f[(k - 1) + 1] = step[<<(k - 1) + 1, f[k - 1]>>] /\ f[k - 1] \in Int
        BY <1>5, <4>1 DEF CountsUp
      <4>3. step[<<(k - 1) + 1, f[k - 1]>>] = f[k - 1] + byte(k - 1) * Pow2[ByteBits * (k - 1)]
        BY <1>3, <4>1, <4>2
      <4> QED BY <3>2, <4>1, <4>2, <4>3
    <3> QED BY <3>1, <3>2
  <2>2. f = [k \in 0..n |-> f[k]]
    BY <1>5 DEF Solves
  <2> QED BY <2>1, <2>2 DEF byte
<1> DEFINE low == CHOOSE g : Rec(g)
<1>7. RawValue(m, memory, address, n) = low[n]
  BY DEF RawValue
<1>8. Rec(low)
  <2> HIDE DEF Rec
  <2> QED BY <1>6
<1> HIDE DEF low
<1>9. \A k \in 0..n : low[k] = IF k = 0 THEN 0
                               ELSE low[k - 1] + byte(k - 1) * Pow2[ByteBits * (k - 1)]
  BY <1>8 DEF byte
<1>10. low[0] = 0
  BY <1>9
<1>11. \A k \in 0..n : k # n => low[k + 1] = low[k] + byte(k) * Pow2[ByteBits * k]
  <2> TAKE k \in 0..n
  <2> HAVE k # n
  <2>1. k + 1 \in 0..n /\ k + 1 # 0 /\ (k + 1) - 1 = k
    OBVIOUS
  <2> QED BY <1>9, <2>1
<1> DEFINE S == {k \in Nat : k <= n => low[k] \in Int}
<1>12. S = Nat
  <2>1. 0 \in S
    BY <1>10
  <2>2. ASSUME NEW k \in S PROVE k + 1 \in S
    <3>1. CASE k + 1 <= n
      <4>1. k \in 0..n /\ k # n /\ k \in 0..(n - 1) /\ low[k] \in Int
        BY <3>1
      <4>2. low[k + 1] = low[k] + byte(k) * Pow2[ByteBits * k]
        BY <1>11, <4>1
      <4>3. byte(k) \in Int /\ Pow2[ByteBits * k] \in Int
        BY <1>1, <1>2, <4>1
      <4> QED BY <4>1, <4>2, <4>3
    <3>2. CASE ~(k + 1 <= n)
      BY <3>2
    <3> QED BY <3>1, <3>2
  <2>3. S \in SUBSET Nat
    OBVIOUS
  <2> HIDE DEF S
  <2> QED BY <2>1, <2>2, <2>3, SetInduction
<1>13. \A k \in 0..n : low[k] \in Int
  BY <1>12
<1>14. \A k \in 0..n : k # n =>
         low[k + 1] = low[k] + AccessBytes(m, memory, address, n)[k] * Pow2[ByteBits * k]
  <2> TAKE k \in 0..n
  <2> HAVE k # n
  <2>1. k \in 0..(n - 1)
    OBVIOUS
  <2> QED BY <1>1, <1>11, <2>1
<1> QED BY <1>7, <1>10, <1>13, <1>14

(* the generated C takes them from the most significant one on. *)
LEMMA CRawDigits ==
  ASSUME NEW m, m.bigEndian \in BOOLEAN, NEW memory, NEW address \in Int, NEW n \in Nat,
         AreIntegers(AccessBytes(m, memory, address, n), n)
  PROVE  \E value : /\ CRawValue(m, memory, address, n) = value[n]
                    /\ value[0] = 0 /\ \A k \in 0..n : value[k] \in Int
                    /\ \A k \in 0..n : k # n =>
                         value[k + 1] = value[k] * Pow2[ByteBits]
                                          + AccessBytes(m, memory, address, n)[n - 1 - k]
<1> DEFINE byte(k) == memory[address + (IF m.bigEndian THEN k - 1 ELSE n - k)]
           Rec(f)  == f = [k \in 0..n |->
                             IF k = 0 THEN 0 ELSE f[k - 1] * Pow2[ByteBits] + byte(k)]
           step == [p \in Nat \X Int |->
                      IF p[1] \in 1..n THEN p[2] * Pow2[ByteBits] + byte(p[1]) ELSE 0]
<1>1. \A k \in 0..n : k # n =>
        byte(k + 1) \in Int /\ byte(k + 1) = AccessBytes(m, memory, address, n)[n - 1 - k]
  <2> TAKE k \in 0..n
  <2> HAVE k # n
  <2> DEFINE j == n - 1 - k
  <2>1. j \in 0..(n - 1)
    OBVIOUS
  <2>2. Offset(m, n, j) = IF m.bigEndian THEN (k + 1) - 1 ELSE n - (k + 1)
    BY DEF Offset
  <2>3. AccessBytes(m, memory, address, n)[j] = memory[address + Offset(m, n, j)]
    BY <2>1 DEF AccessBytes
  <2>4. AccessBytes(m, memory, address, n)[j] \in Int
    BY <2>1 DEF AreIntegers
  <2> HIDE DEF j
  <2> QED BY <2>2, <2>3, <2>4 DEF j
<1> HIDE DEF byte
<1>2. Pow2[ByteBits] \in Int
  BY TypeWidths, Power DEF Positive
<1>3. \A k \in Nat, x \in Int :
        /\ step[<<k + 1, x>>] \in Int
        /\ k < n => step[<<k + 1, x>>] = x * Pow2[ByteBits] + byte(k + 1)
  <2> TAKE k \in Nat, x \in Int
  <2>1. k + 1 \in Nat /\ (k + 1 \in 1..n <=> k < n)
    OBVIOUS
  <2>2. step[<<k + 1, x>>] = IF k < n THEN x * Pow2[ByteBits] + byte(k + 1) ELSE 0
    BY <2>1
  <2>3. k < n => k \in 0..n /\ k # n
    OBVIOUS
  <2>4. k < n => x * Pow2[ByteBits] + byte(k + 1) \in Int
    BY <1>1, <1>2, <2>3
  <2> HIDE DEF step
  <2> QED BY <2>2, <2>4
<1>4. Steps(Int, 0, step)
  <2> HIDE DEF step
  <2>1. \A k \in Nat, x \in Int : step[<<k + 1, x>>] \in Int
    BY <1>3
  <2>2. 0 \in Int
    OBVIOUS
  <2> QED BY <2>1, <2>2, Zenon DEF Steps
<1> HIDE DEF step
<1>5. PICK f : Solves(n, 0, step, f) /\ CountsUp(n, 0, step, f)
  BY <1>4, Solution
<1>6. Rec(f)
  <2>1. \A k \in 0..n : f[k] = IF k = 0 THEN 0 ELSE f[k - 1] * Pow2[ByteBits] + byte(k)
    <3> TAKE k \in 0..n
    <3>1. CASE k = 0
      BY <1>5, <3>1 DEF CountsUp
    <3>2. CASE k # 0
      <4>1. k - 1 \in 0..n /\ k - 1 # n /\ k - 1 \in Nat /\ k - 1 < n /\ (k - 1) + 1 = k
        BY <3>2
      <4>2. f[(k - 1) + 1] = step[<<(k - 1) + 1, f[k - 1]>>] /\ f[k - 1] \in Int
        BY <1>5, <4>1 DEF CountsUp
      <4>3. step[<<(k - 1) + 1, f[k - 1]>>] = f[k - 1] * Pow2[ByteBits] + byte((k - 1) + 1)
        BY <1>3, <4>1, <4>2
      <4> QED BY <3>2, <4>1, <4>2, <4>3
    <3> QED BY <3>1, <3>2
  <2>2. f = [k \in 0..n |-> f[k]]
    BY <1>5 DEF Solves
  <2> QED BY <2>1, <2>2
<1> DEFINE value == CHOOSE g : Rec(g)
<1>7. CRawValue(m, memory, address, n) = value[n]
  BY DEF CRawValue, byte
<1>8. Rec(value)
  <2> HIDE DEF Rec
  <2> QED BY <1>6
<1> HIDE DEF value
<1>9. \A k \in 0..n : value[k] = IF k = 0 THEN 0 ELSE value[k - 1] * Pow2[ByteBits] + byte(k)
  BY <1>8
<1>10. value[0] = 0
  BY <1>9
<1>11. \A k \in 0..n : k # n => value[k + 1] = value[k] * Pow2[ByteBits] + byte(k + 1)
  <2> TAKE k \in 0..n
  <2> HAVE k # n
  <2>1. k + 1 \in 0..n /\ k + 1 # 0 /\ (k + 1) - 1 = k
    OBVIOUS
  <2> QED BY <1>9, <2>1
<1> DEFINE S == {k \in Nat : k <= n => value[k] \in Int}
<1>12. S = Nat
  <2>1. 0 \in S
    BY <1>10
  <2>2. ASSUME NEW k \in S PROVE k + 1 \in S
    <3>1. CASE k + 1 <= n
      <4>1. k \in 0..n /\ k # n /\ value[k] \in Int
        BY <3>1
      <4>2. value[k + 1] = value[k] * Pow2[ByteBits] + byte(k + 1) /\ byte(k + 1) \in Int
        BY <1>1, <1>11, <4>1
      <4> QED BY <1>2, <4>1, <4>2
    <3>2. CASE ~(k + 1 <= n)
      BY <3>2
    <3> QED BY <3>1, <3>2
  <2>3. S \in SUBSET Nat
    OBVIOUS
  <2> HIDE DEF S
  <2> QED BY <2>1, <2>2, <2>3, SetInduction
<1>13. \A k \in 0..n : value[k] \in Int
  BY <1>12
<1>14. \A k \in 0..n : k # n =>
         value[k + 1] = value[k] * Pow2[ByteBits] + AccessBytes(m, memory, address, n)[n - 1 - k]
  BY <1>1, <1>11
<1> QED BY <1>7, <1>10, <1>13, <1>14

(* Digit by digit from either end, the bytes make the same bytes. *)
LEMMA SameRawValue ==
  ASSUME NEW m, m.bigEndian \in BOOLEAN, NEW memory, NEW address \in Int, NEW n \in Nat,
         AreIntegers(AccessBytes(m, memory, address, n), n)
  PROVE  /\ CRawValue(m, memory, address, n) = RawValue(m, memory, address, n)
         /\ RawValue(m, memory, address, n) \in Int
<1> DEFINE bytes == AccessBytes(m, memory, address, n)
           B    == Pow2[ByteBits]
           P(k) == Pow2[ByteBits * k]
<1>1. PICK low : /\ RawValue(m, memory, address, n) = low[n]
                 /\ low[0] = 0 /\ \A k \in 0..n : low[k] \in Int
                 /\ \A k \in 0..n : k # n => low[k + 1] = low[k] + bytes[k] * P(k)
  BY RawDigits
<1>2. PICK value : /\ CRawValue(m, memory, address, n) = value[n]
                   /\ value[0] = 0 /\ \A k \in 0..n : value[k] \in Int
                   /\ \A k \in 0..n : k # n =>
                        value[k + 1] = value[k] * B + bytes[n - 1 - k]
  BY CRawDigits
<1>3. \A k \in 0..(n - 1) : bytes[k] \in Int
  BY DEF AreIntegers
<1>4. B \in Int /\ \A k \in Nat : P(k) \in Int /\ P(k + 1) = B * P(k)
  <2>1. ByteBits \in Nat /\ B \in Int
    BY TypeWidths, Power DEF Positive
  <2>2. ASSUME NEW k \in Nat PROVE P(k) \in Int /\ P(k + 1) = B * P(k)
    <3>1. ByteBits * k \in Nat /\ ByteBits * (k + 1) = ByteBits + ByteBits * k
      BY <2>1
    <3>2. Pow2[ByteBits + ByteBits * k] = B * P(k)
      BY <2>1, <3>1, PowerOfSum
    <3>3. P(k) \in Int
      BY <3>1, Power DEF Positive
    <3> QED BY <3>1, <3>2, <3>3
  <2> QED BY <2>1, <2>2
<1>5. P(0) = 1
  <2>1. ByteBits * 0 = 0
    BY TypeWidths DEF Positive
  <2> QED BY <2>1, PowersOfTwo
<1> HIDE DEF bytes, B, P
<1> DEFINE S == {k \in Nat : k <= n => value[k] * P(n - k) + low[n - k] = low[n]}
<1>6. 0 \in S
  <2>1. n - 0 = n /\ n \in 0..n
    OBVIOUS
  <2>2. 0 * P(n) + low[n] = low[n]
    BY <1>1, <1>4, <2>1
  <2> QED BY <1>2, <2>1, <2>2
<1>7. ASSUME NEW k \in S PROVE k + 1 \in S
  <2>1. CASE k + 1 <= n
    <3> DEFINE j == n - (k + 1)
    <3>1. /\ j \in 0..n /\ j # n /\ j \in 0..(n - 1) /\ j \in Nat /\ j + 1 = n - k
          /\ n - 1 - k = j /\ k \in 0..n /\ k # n /\ k <= n /\ k \in Nat
      BY <2>1
    <3>2. value[k] * P(n - k) + low[n - k] = low[n]
      BY <3>1
    <3> HIDE DEF j
    <3>3. value[k + 1] = value[k] * B + bytes[j]
      BY <1>2, <3>1
    <3>4. low[j + 1] = low[j] + bytes[j] * P(j) /\ P(j + 1) = B * P(j)
      BY <1>1, <1>4, <3>1
    <3>5. value[k] \in Int /\ low[j] \in Int /\ bytes[j] \in Int /\ P(j) \in Int /\ B \in Int
      BY <1>1, <1>2, <1>3, <1>4, <3>1
    <3> DEFINE v == value[k]
               x == bytes[j]
               p == P(j)
               l == low[j]
    <3>6. v * (B * p) + (l + x * p) = low[n]
      BY <3>1, <3>2, <3>4
    <3>7. v \in Int /\ x \in Int /\ p \in Int /\ l \in Int
      BY <3>5
    <3> HIDE DEF v, x, p, l
    <3>8. (v * B + x) * p + l = v * (B * p) + (l + x * p)
      BY <3>5, <3>7
    <3>9. (v * B + x) * p + l = low[n]
      BY <3>6, <3>8
    <3>10. value[k + 1] * P(j) + low[j] = low[n]
      BY <3>3, <3>9 DEF v, x, p, l
    <3> QED BY <3>1, <3>10 DEF j
  <2>2. CASE ~(k + 1 <= n)
    BY <2>2
  <2> QED BY <2>1, <2>2
<1>8. S \in SUBSET Nat
  OBVIOUS
<1> HIDE DEF S
<1>9. S = Nat
  BY <1>6, <1>7, <1>8, SetInduction
<1>10. value[n] * P(n - n) + low[n - n] = low[n] /\ n - n = 0 /\ n \in 0..n
  BY <1>9 DEF S
<1>11. value[n] \in Int /\ low[n] \in Int
  BY <1>1, <1>2, <1>10
<1>12. value[n] * 1 + 0 = low[n]
  BY <1>1, <1>5, <1>10
<1>13. value[n] = low[n]
  BY <1>11, <1>12
<1> QED BY <1>1, <1>2, <1>11, <1>13

AccessWidths == {TypeBits[t] : t \in IntTypes \ {"i1"}}

(* The size of an access in bytes. *)
LEMMA AccessSize ==
  ASSUME NEW i, i.width \in AccessWidths
  PROVE  Size(i) \in Positive /\ i.width = ByteBits * Size(i) /\ i.width \in 1..HostBits
<1>1. ByteBits \in Positive
  BY TypeWidths
<1>2. i.width \in {ByteBits, 2 * ByteBits, 4 * ByteBits, 8 * ByteBits}
  BY DEF AccessWidths, TypeBits, IntTypes
<1>3. PICK k \in {1, 2, 4, 8} : i.width = ByteBits * k
  BY <1>1, <1>2 DEF Positive
<1>4. 0 \in 0..(ByteBits - 1) /\ ByteBits * k + 0 = ByteBits * k
  BY <1>1 DEF Positive
<1>5. (ByteBits * k + 0) \div ByteBits = k
  BY <1>1, <1>4, Remainder
<1>6. Size(i) = k
  BY <1>3, <1>4, <1>5 DEF Size
<1>7. i.width \in 1..HostBits
  BY <1>1, <1>2, TypeWidths DEF Positive
<1> QED BY <1>3, <1>6, <1>7 DEF Positive

(* The two paths fault on the same accesses; *)
LEMMA SameAccessFault ==
  ASSUME NEW m, NEW i, i.align \in Nat \ {0}, i.faulting \in BOOLEAN, NEW address \in Int
  PROVE  CAccessFault(m, i, address) = AccessFault(m, i, address)
<1>1. i.align = 1 => address % i.align = 0
  BY Z3
<1>2. i.align > 1 \/ i.align = 1
  OBVIOUS
<1> QED BY <1>1, <1>2 DEF CAccessFault, AccessFault, Misaligned

(* The bytes of an access that does not fault are bytes of the memory. *)
LEMMA WordInMemory ==
  ASSUME NEW m, m.memorySize \in Nat, NEW i, NEW address \in Nat, Size(i) \in Nat,
         AccessFault(m, i, address) = NoName, NEW k \in 0..(Size(i) - 1)
  PROVE  address + Offset(m, Size(i), k) \in Addresses(m)
<1> DEFINE n == Size(i)
<1>1. ~OutOfBounds(m.memorySize, address, n)
  BY DEF AccessFault, NoName
<1>2. address <= m.memorySize /\ n <= m.memorySize - address
  BY <1>1 DEF OutOfBounds
<1>3. Offset(m, n, k) \in 0..(n - 1)
  BY DEF Offset
<1> HIDE DEF n
<1> QED BY <1>2, <1>3 DEF Addresses, n

(* those that do not fault load the same value, which fits its type: the   *)
(* loop of or_load and int.from_bytes read the same word from the same     *)
(* bytes, whatever the byte order, the width, the sign and the type,       *)
THEOREM SameLoad ==
  ASSUME NEW m, m.bigEndian \in BOOLEAN, m.memorySize \in Nat,
         NEW memory, \A a \in Addresses(m) : memory[a] \in Int,
         NEW i, i.width \in AccessWidths, i.type \in IntTypes,
         NEW address \in Nat, AccessFault(m, i, address) = NoName
  PROVE  /\ CLoadValue(m, memory, i, address) = LoadValue(m, memory, i, address)
         /\ LoadValue(m, memory, i, address) \in Nat
         /\ LoadValue(m, memory, i, address) < Pow2[TypeBits[i.type]]
<1> DEFINE n    == Size(i)
           bits == TypeBits[i.type]
           raw  == RawValue(m, memory, address, n)
           wide == i.signed /\ i.width < bits
           x    == IF wide THEN SignedValue(raw, i.width) ELSE raw
<1>1. /\ n \in Positive /\ i.width \in 1..HostBits /\ bits \in 1..HostBits
      /\ i.width \in Positive /\ bits \in Nat
  BY AccessSize, TypeWidths DEF Positive
<1>2. AreIntegers(AccessBytes(m, memory, address, n), n)
  <2>1. ASSUME NEW k \in 0..(n - 1) PROVE AccessBytes(m, memory, address, n)[k] \in Int
    <3>1. address + Offset(m, n, k) \in Addresses(m)
      BY <1>1, WordInMemory DEF Positive
    <3> QED BY <3>1 DEF AccessBytes
  <2> QED BY <2>1 DEF AreIntegers
<1>3. CRawValue(m, memory, address, n) = raw /\ raw \in Int
  <2>1. n \in Nat /\ address \in Int
    BY <1>1 DEF Positive
  <2> HIDE DEF n, raw
  <2> QED BY <1>2, <2>1, SameRawValue DEF raw
<1>4. CSigned(raw, i.width) = SignedValue(raw, i.width) /\ SignedValue(raw, i.width) \in Int
  <2> HIDE DEF raw
  <2> QED BY <1>1, <1>3, CSignedIsSigned, SignedRange DEF Positive
<1>5. x \in Int
  <2> HIDE DEF raw, wide
  <2> QED BY <1>3, <1>4
<1>6. CLoadValue(m, memory, i, address) =
        Mask(IF wide THEN Uint64(SignedValue(raw, i.width)) ELSE raw, bits)
  BY <1>3, <1>4 DEF CLoadValue
<1>7. LoadValue(m, memory, i, address) = Mask(x, bits)
  BY DEF LoadValue
<1>8. Mask(Uint64(SignedValue(raw, i.width)), bits) = Mask(SignedValue(raw, i.width), bits)
  <2> HIDE DEF raw, bits
  <2> QED BY <1>1, <1>4, Uint64Masked
<1>9. Mask(x, bits) \in Nat /\ Mask(x, bits) < Pow2[bits]
  <2> HIDE DEF x, bits
  <2> QED BY <1>1, <1>5, MaskFits
<1> HIDE DEF wide, raw, bits
<1> QED BY <1>6, <1>7, <1>8, <1>9 DEF bits

(* A byte of a masked value is that byte of the value. *)
LEMMA ByteOfWord ==
  ASSUME NEW v \in Int, NEW n \in Nat, NEW k \in 0..(n - 1)
  PROVE  (Mask(v, ByteBits * n) \div Pow2[ByteBits * k]) % Pow2[ByteBits]
           = Mask(v \div Pow2[ByteBits * k], ByteBits)
<1> DEFINE p == Pow2[ByteBits * k]
           q == Pow2[ByteBits * (n - k)]
           b == Pow2[ByteBits]
           r == Pow2[ByteBits * (n - k - 1)]
<1>1. /\ ByteBits \in Nat /\ ByteBits * k \in Nat /\ ByteBits * (n - k) \in Nat
      /\ ByteBits * (n - k - 1) \in Nat
      /\ ByteBits * n = ByteBits * k + ByteBits * (n - k)
      /\ ByteBits * (n - k) = ByteBits + ByteBits * (n - k - 1)
  <2>1. ByteBits \in Nat /\ n - k \in Nat /\ n - k - 1 \in Nat /\ k \in Nat
    BY TypeWidths DEF Positive
  <2> DEFINE j == n - k
  <2>2. j \in Nat /\ n = k + j /\ j - 1 \in Nat
    BY <2>1
  <2> HIDE DEF j
  <2>3. /\ ByteBits * k \in Nat /\ ByteBits * j \in Nat /\ ByteBits * (j - 1) \in Nat
        /\ ByteBits * (k + j) = ByteBits * k + ByteBits * j
        /\ ByteBits * j = ByteBits + ByteBits * (j - 1)
    BY <2>1, <2>2
  <2> QED BY <2>1, <2>2, <2>3 DEF j
<1>2. Pow2[ByteBits * n] = p * q /\ q = b * r
  BY <1>1, PowerOfSum
<1>3. p \in Positive /\ q \in Positive /\ b \in Positive /\ r \in Positive
  BY <1>1, Power
<1> HIDE DEF p, q, b, r
<1>4. (v % (p * q)) \div p = (v \div p) % q
  BY <1>3, NestedRemainder
<1>5. v \div p \in Int
  BY <1>3, Division
<1>6. ((v \div p) % (b * r)) % b = (v \div p) % b
  <2> DEFINE d == v \div p
  <2>1. d \in Int
    BY <1>5
  <2> HIDE DEF d
  <2>2. (d % (b * r)) % b = d % b
    BY <1>3, <2>1, NestedRemainder
  <2> QED BY <2>2 DEF d
<1> QED BY <1>2, <1>4, <1>6 DEF Mask, p, b

(* and store the same bytes: or_store writes what Memory.store writes,     *)
(* where it writes it, of any value.                                       *)
THEOREM SameStored ==
  ASSUME NEW m, m.bigEndian \in BOOLEAN,
         NEW memory, DOMAIN memory \subseteq Int,
         NEW i, i.width \in AccessWidths, NEW address \in Nat, NEW value \in Int
  PROVE  CStored(m, memory, i, address, value) =
           Stored(m, memory, i, address, Mask(value, i.width))
<1> DEFINE n    == Size(i)
           s(k) == IF m.bigEndian THEN n - 1 - k ELSE k
<1>1. n \in Positive /\ i.width = ByteBits * n
  BY AccessSize
<1> HIDE DEF n
<1>2. \A a \in DOMAIN memory : a - address \in 0..(n - 1) <=> a \in address..(address + n - 1)
  BY <1>1 DEF Positive
<1>3. ASSUME NEW a \in DOMAIN memory, a \in address..(address + n - 1)
      PROVE  Mask(value \div Pow2[ByteBits * s(a - address)], ByteBits) =
               (Mask(value, i.width) \div Pow2[ByteBits * Offset(m, n, a - address)])
                  % Pow2[ByteBits]
  <2> DEFINE k == Offset(m, n, a - address)
  <2>1. k = s(a - address) /\ k \in 0..(n - 1) /\ n \in Nat
    BY <1>1, <1>3 DEF Offset, Positive
  <2> HIDE DEF k
  <2>2. (Mask(value, ByteBits * n) \div Pow2[ByteBits * k]) % Pow2[ByteBits]
          = Mask(value \div Pow2[ByteBits * k], ByteBits)
    BY <2>1, ByteOfWord
  <2> QED BY <1>1, <2>1, <2>2 DEF k
<1>4. CStored(m, memory, i, address, value) =
        [a \in DOMAIN memory |->
           IF a - address \in 0..(n - 1)
           THEN Mask(value \div Pow2[ByteBits * s(a - address)], ByteBits)
           ELSE memory[a]]
  BY DEF CStored, n
<1>5. Stored(m, memory, i, address, Mask(value, i.width)) =
        [a \in DOMAIN memory |->
           IF a \in address..(address + n - 1)
           THEN (Mask(value, i.width) \div Pow2[ByteBits * Offset(m, n, a - address)])
                  % Pow2[ByteBits]
           ELSE memory[a]]
  BY DEF Stored, n
<1> HIDE DEF s
<1> QED BY <1>2, <1>3, <1>4, <1>5

(* What is stored are bytes. *)
LEMMA StoredBytes ==
  ASSUME NEW m, NEW memory, NEW i, NEW address, NEW value,
         \A a \in DOMAIN memory : memory[a] \in Byte, DOMAIN memory \subseteq Int,
         m.bigEndian \in BOOLEAN, i.width \in AccessWidths, address \in Nat, value \in Int
  PROVE  /\ DOMAIN Stored(m, memory, i, address, value) = DOMAIN memory
         /\ \A a \in DOMAIN memory : Stored(m, memory, i, address, value)[a] \in Byte
<1> DEFINE n == Size(i)
<1>1. n \in Positive
  BY AccessSize
<1> HIDE DEF n
<1>2. ASSUME NEW a \in DOMAIN memory, a \in address..(address + n - 1)
      PROVE  (value \div Pow2[ByteBits * Offset(m, n, a - address)]) % Pow2[ByteBits] \in Byte
  <2> DEFINE k == Offset(m, n, a - address)
             p == Pow2[ByteBits * k]
             b == Pow2[ByteBits]
             d == value \div p
  <2>1. k \in Nat
    BY <1>1, <1>2 DEF Offset, Positive
  <2> HIDE DEF k
  <2>2. ByteBits * k \in Nat /\ ByteBits \in Nat
    BY <2>1, TypeWidths DEF Positive
  <2>3. p \in Positive /\ b \in Positive
    BY <2>2, Power
  <2> HIDE DEF p, b
  <2>4. d \in Int
    BY <2>3, Division
  <2> HIDE DEF d
  <2>5. d % b \in 0..(b - 1)
    BY <2>3, <2>4, Division
  <2> QED BY <2>5 DEF Byte, d, p, b, k
<1>3. Stored(m, memory, i, address, value) =
        [a \in DOMAIN memory |->
           IF a \in address..(address + n - 1)
           THEN (value \div Pow2[ByteBits * Offset(m, n, a - address)]) % Pow2[ByteBits]
           ELSE memory[a]]
  BY DEF Stored, n
<1> QED BY <1>2, <1>3

----------------------------------------------------------------------------
(* What is defined at a position of a module, and its types. *)

(* Nothing is computed before the first instruction of a block. *)
LEMMA NothingBefore ==
  ASSUME NEW block, IsList(block.insns)
  PROVE  ResultsBefore(block, 1) = {}
<1>1. \A n \in DOMAIN block.insns : ~(n < 1)
  BY ListLen
<1> QED BY <1>1 DEF ResultsBefore

(* An instruction adds its result, if it has one, to what is computed. *)
LEMMA OneMore ==
  ASSUME NEW block, IsList(block.insns), NEW k \in DOMAIN block.insns
  PROVE  ResultsBefore(block, k + 1) =
           ResultsBefore(block, k) \cup
             (IF block.insns[k].result = NoName THEN {}
              ELSE {<<block.insns[k].result, block.insns[k].type>>})
<1> DEFINE Earlier(j) == {n \in DOMAIN block.insns : n < j /\ block.insns[n].result # NoName}
           Of(j)   == {block.insns[n] : n \in Earlier(j)}
<1>1. \A n \in DOMAIN block.insns : n < k + 1 <=> n < k \/ n = k
  BY ListLen
<1>2. Earlier(k + 1) = Earlier(k) \cup (IF block.insns[k].result = NoName THEN {} ELSE {k})
  BY <1>1
<1>3. Of(k + 1) = Of(k) \cup (IF block.insns[k].result = NoName THEN {} ELSE {block.insns[k]})
  BY <1>2
<1> HIDE DEF Earlier, Of
<1>4. \A j : ResultsBefore(block, j) = {<<i.result, i.type>> : i \in Of(j)}
  BY DEF ResultsBefore, Earlier, Of
<1> QED BY <1>3, <1>4

(* What is computed before a position was computed by an earlier instruction. *)
LEMMA ComputedEarlier ==
  ASSUME NEW block, NEW k, NEW x \in ResultsBefore(block, k)
  PROVE  \E j \in DOMAIN block.insns :
           /\ j < k /\ block.insns[j].result # NoName
           /\ x = <<block.insns[j].result, block.insns[j].type>>
BY DEF ResultsBefore

(* A name has one type in a function: parameters and results are unique. *)
LEMMA OneType ==
  ASSUME NEW m, NEW f, FunctionOK(m, f), NEW b \in DOMAIN f.blocks, NEW k,
         NEW n, NEW t, NEW u,
         <<n, t>> \in Defined(f, b, k), <<n, u>> \in Defined(f, b, k)
  PROVE  t = u
<1> DEFINE block == f.blocks[b]
<1>1. UniqueIds(f.params) /\ UniqueResults(f)
  BY DEF FunctionOK
<1>2. ASSUME NEW v, <<n, v>> \in Params(f)
      PROVE  \E i \in DOMAIN f.params : f.params[i].id = n /\ v = f.params[i].type
  BY <1>2 DEF Params, Elements
<1>3. ASSUME NEW v, <<n, v>> \in ResultsBefore(block, k)
      PROVE  \E j \in DOMAIN block.insns :
               /\ block.insns[j].result = n /\ n # NoName
               /\ v = block.insns[j].type
  BY <1>3, ComputedEarlier
<1>4. ASSUME NEW v, <<n, v>> \in Params(f), NEW w, <<n, w>> \in ResultsBefore(block, k)
      PROVE  FALSE
  <2>1. n \in Ids(f.params)
    BY <1>2, <1>4 DEF Ids
  <2>2. PICK j \in DOMAIN block.insns : block.insns[j].result = n /\ n # NoName
    BY <1>3, <1>4
  <2> QED BY <1>1, <2>1, <2>2 DEF UniqueResults
<1>5. CASE <<n, t>> \in Params(f) /\ <<n, u>> \in Params(f)
  BY <1>1, <1>2, <1>5 DEF UniqueIds
<1>6. CASE <<n, t>> \in ResultsBefore(block, k) /\ <<n, u>> \in ResultsBefore(block, k)
  <2>1. PICK i \in DOMAIN block.insns :
          block.insns[i].result = n /\ n # NoName /\ t = block.insns[i].type
    BY <1>3, <1>6
  <2>2. PICK j \in DOMAIN block.insns :
          block.insns[j].result = n /\ u = block.insns[j].type
    BY <1>3, <1>6
  <2>3. i = j
    BY <1>1, <2>1, <2>2 DEF UniqueResults
  <2> QED BY <2>1, <2>2, <2>3
<1>7. /\ <<n, t>> \in Params(f) \/ <<n, t>> \in ResultsBefore(block, k)
      /\ <<n, u>> \in Params(f) \/ <<n, u>> \in ResultsBefore(block, k)
  BY DEF Defined
<1> QED BY <1>4, <1>5, <1>6, <1>7

(* The code at a position obeys the type rules: every instruction and      *)
(* terminator of an admitted module was accepted by the validator with the *)
(* definitions it executes with.                                           *)
LEMMA CodeAccepted ==
  ASSUME NEW m, WellShaped(m), Admissible(m), NEW fn \in DOMAIN m.functions,
         NEW b \in DOMAIN m.functions[fn].blocks,
         NEW pc \in 1..(Len(m.functions[fn].blocks[b].insns) + 1)
  PROVE  LET f == m.functions[fn]
             block == f.blocks[b]
             code == CodeAt(block, pc)
         IN  /\ FunctionOK(m, f) /\ FunctionShaped(f)
             /\ IsList(f.blocks) /\ IsList(block.insns)
             /\ \/ /\ pc \in DOMAIN block.insns /\ code = block.insns[pc]
                   /\ code.op \in InsnOps /\ code.op \notin TermOps
                   /\ InsnShaped(code) /\ InsnOK(m, Defined(f, b, pc), code)
                \/ /\ pc = Len(block.insns) + 1 /\ code = block.term
                   /\ code.op \in TermOps /\ code.op \notin InsnOps
                   /\ TermShaped(code) /\ TermOK(m, f, Defined(f, b, pc), code)
<1> DEFINE f == m.functions[fn]
           block == f.blocks[b]
           code == CodeAt(block, pc)
<1>1. InsnOps \cap TermOps = {}
  BY DEF InsnOps, TermOps, CallOps, Arity
<1>2. FunctionOK(m, f) /\ FunctionShaped(f)
  BY DEF WellShaped, Elements, Admissible, ValidIR
<1>3. BlockOK(m, f, b)
  BY <1>2 DEF FunctionOK
<1>4. block \in Elements(f.blocks)
  BY DEF Elements
<1> HIDE DEF f
<1>5. /\ IsList(f.blocks) /\ IsList(block.insns) /\ TermShaped(block.term)
      /\ \A i \in DOMAIN block.insns : InsnShaped(block.insns[i])
  BY <1>2, <1>4 DEF FunctionShaped, Elements
<1>6. /\ \A k \in DOMAIN block.insns : InsnOK(m, Defined(f, b, k), block.insns[k])
      /\ TermOK(m, f, Defined(f, b, Len(block.insns) + 1), block.term)
  BY <1>3 DEF BlockOK
<1> HIDE DEF block
<1>7. Len(block.insns) \in Nat /\ DOMAIN block.insns = 1..Len(block.insns)
  BY <1>5, ListLen
<1>8. pc \in 1..(Len(block.insns) + 1)
  BY DEF block, f
<1>9. CASE pc <= Len(block.insns)
  <2>1. pc \in DOMAIN block.insns /\ code = block.insns[pc]
    BY <1>7, <1>8, <1>9 DEF CodeAt
  <2>2. InsnShaped(code) /\ InsnOK(m, Defined(f, b, pc), code)
    BY <1>5, <1>6, <2>1
  <2>3. code.op \in InsnOps /\ code.op \notin TermOps
    BY <1>1, <2>2 DEF InsnShaped
  <2> QED BY <1>2, <1>5, <2>1, <2>2, <2>3 DEF block, f
<1>10. CASE ~(pc <= Len(block.insns))
  <2>1. pc = Len(block.insns) + 1 /\ code = block.term
    BY <1>7, <1>8, <1>10 DEF CodeAt
  <2>2. TermShaped(code) /\ TermOK(m, f, Defined(f, b, pc), code)
    BY <1>5, <1>6, <2>1
  <2>3. code.op \in TermOps /\ code.op \notin InsnOps
    BY <1>1, <2>2 DEF TermShaped
  <2> QED BY <1>2, <1>5, <2>1, <2>2, <2>3 DEF block, f
<1> QED BY <1>9, <1>10

(* What is stored in a type through its mask fits the type. *)
LEMMA MaskedFits ==
  ASSUME NEW t \in IntTypes, NEW v \in Int
  PROVE  Fits(Mask(v, TypeBits[t]), t)
<1>1. TypeBits[t] \in Nat
  BY TypeWidths DEF Positive
<1> QED BY <1>1, MaskFits DEF Fits

(* The segments of an image are bytes of its memory. *)
LEMMA InitialMemoryFits ==
  ASSUME NEW m, WellShaped(m)
  PROVE  /\ DOMAIN InitialMemory(m) = Addresses(m)
         /\ \A a \in Addresses(m) : InitialMemory(m)[a] \in Byte
<1>2. 0 \in Byte /\ \A x : Fits(x, "i8") => x \in Byte
  <2>1. TypeBits["i8"] = ByteBits /\ ByteBits \in Nat
    BY ByteBitsAssumption DEF TypeBits, IntTypes
  <2>2. Pow2[ByteBits] \in Positive
    BY <2>1, Power
  <2> QED BY <2>1, <2>2 DEF Byte, Fits, Positive
<1>3. ASSUME NEW a \in Addresses(m)
      PROVE  InitialMemory(m)[a] \in Byte
  <2> DEFINE covering == {s \in Elements(m.segments) : s.address <= a /\ a < SegmentEnd(s)}
             s == CHOOSE s \in covering : TRUE
  <2>1. InitialMemory(m)[a] = IF covering = {} THEN 0 ELSE s.data[a - s.address + 1]
    BY DEF InitialMemory
  <2>2. ASSUME covering # {} PROVE s.data[a - s.address + 1] \in Byte
    <3>1. s \in covering
      BY <2>2
    <3>2. SegmentShaped(s) /\ s.address <= a /\ a < s.address + Len(s.data)
      BY <3>1 DEF WellShaped, SegmentEnd
    <3> HIDE DEF s, covering
    <3>3. IsList(s.data) /\ s.address \in Nat /\ a \in Int
      BY <3>2 DEF SegmentShaped, Addresses, WellShaped
    <3>4. Len(s.data) \in Nat /\ DOMAIN s.data = 1..Len(s.data)
      BY <3>3, ListLen
    <3> DEFINE len == Len(s.data)
               k == a - s.address + 1
    <3>5. k \in 1..len
      <4>1. len \in Nat /\ a < s.address + len
        BY <3>2, <3>4
      <4> HIDE DEF len
      <4> QED BY <3>2, <3>3, <4>1
    <3>6. s.data[k] \in Elements(s.data)
      BY <3>4, <3>5 DEF Elements
    <3> QED BY <1>2, <3>2, <3>6 DEF SegmentShaped
  <2> HIDE DEF covering, s
  <2> QED BY <1>2, <2>1, <2>2
<1>4. DOMAIN InitialMemory(m) = Addresses(m)
  BY DEF InitialMemory
<1> QED BY <1>3, <1>4

(* A word that has been stored is loaded again. *)
LEMMA LoadOfStored ==
  ASSUME NEW m, m.bigEndian \in BOOLEAN, m.memorySize \in Nat,
         NEW memory, DOMAIN memory = Addresses(m),
         NEW i, i.width \in AccessWidths, NEW address \in Nat,
         AccessFault(m, i, address) = NoName, NEW w \in Pattern(i.width)
  PROVE  RawValue(m, Stored(m, memory, i, address, w), address, Size(i)) = w
<1> DEFINE n   == Size(i)
           new == Stored(m, memory, i, address, w)
           P(k) == Pow2[ByteBits * k]
           b    == Pow2[ByteBits]
           bytes == AccessBytes(m, new, address, n)
<1>1. n \in Positive /\ n \in Nat /\ i.width = ByteBits * n /\ i.width \in Nat
  BY AccessSize DEF Positive
<1>2. w \in Nat /\ w < Pow2[i.width]
  BY DEF Pattern
<1>3. \A k \in 0..(n - 1) :
        /\ address + Offset(m, n, k) \in Addresses(m)
        /\ address + Offset(m, n, k) \in address..(address + n - 1)
        /\ Offset(m, n, (address + Offset(m, n, k)) - address) = k
  <2> TAKE k \in 0..(n - 1)
  <2>1. address + Offset(m, n, k) \in Addresses(m)
    BY <1>1, WordInMemory
  <2> HIDE DEF n
  <2> QED BY <1>1, <2>1 DEF Offset
<1>4. new = [a \in DOMAIN memory |->
               IF a \in address..(address + n - 1)
               THEN (w \div Pow2[ByteBits * Offset(m, n, a - address)]) % b
               ELSE memory[a]]
  BY DEF Stored
<1> HIDE DEF new, n
<1>5. \A k \in 0..(n - 1) : bytes[k] = (w \div P(k)) % b
  <2> TAKE k \in 0..(n - 1)
  <2> DEFINE a == address + Offset(m, n, k)
  <2>1. a \in DOMAIN memory /\ a \in address..(address + n - 1) /\ Offset(m, n, a - address) = k
    BY <1>3
  <2>2. bytes[k] = new[a]
    BY DEF AccessBytes
  <2> HIDE DEF a
  <2> QED BY <1>4, <2>1, <2>2
<1>6. b \in Positive /\ ByteBits \in Nat
  BY TypeWidths, Power DEF Positive
<1>7. \A k \in Nat : ByteBits * k \in Nat /\ P(k) \in Positive /\ P(k + 1) = P(k) * b
  <2> TAKE k \in Nat
  <2>1. ByteBits * k \in Nat /\ ByteBits * (k + 1) = ByteBits * k + ByteBits
    BY <1>6
  <2> QED BY <1>6, <2>1, Power, PowerOfSum
<1> HIDE DEF b, bytes
<1>8. AreIntegers(bytes, n)
  <2>1. ASSUME NEW k \in 0..(n - 1) PROVE bytes[k] \in Int
    <3> DEFINE p == P(k)
               d == w \div p
    <3>1. p \in Positive
      BY <1>1, <1>7
    <3> HIDE DEF p
    <3>2. d \in Int
      BY <1>2, <3>1, Division
    <3> HIDE DEF d
    <3>3. d % b \in Int
      BY <1>6, <3>2, Division
    <3> QED BY <1>5, <3>3 DEF d, p
  <2> QED BY <2>1 DEF AreIntegers
<1>9. PICK low : /\ RawValue(m, new, address, n) = low[n]
                 /\ low[0] = 0 /\ \A k \in 0..n : low[k] \in Int
                 /\ \A k \in 0..n : k # n => low[k + 1] = low[k] + bytes[k] * P(k)
  BY <1>1, <1>8, RawDigits DEF bytes
<1> DEFINE S == {k \in Nat : k <= n => low[k] = w % P(k)}
<1>10. 0 \in S
  <2>1. ByteBits * 0 = 0 /\ Pow2[0] = 1
    BY <1>6, PowersOfTwo
  <2>2. w % 1 = 0
    BY <1>2
  <2> QED BY <1>9, <2>1, <2>2
<1>11. ASSUME NEW k \in S PROVE k + 1 \in S
  <2>1. k \in Nat /\ k + 1 \in Nat
    OBVIOUS
  <2>2. CASE k + 1 <= n
    <3> DEFINE p == P(k)
               d == (w \div p) % b
    <3>1. k \in 0..(n - 1) /\ k \in 0..n /\ k # n
      BY <1>1, <2>1, <2>2
    <3>2. low[k + 1] = (w % p) + bytes[k] * p
      BY <1>9, <3>1
    <3>3. bytes[k] = d
      BY <1>5, <3>1
    <3>4. p \in Positive /\ P(k + 1) = p * b
      BY <1>7, <2>1
    <3> HIDE DEF p
    <3>5. w % (p * b) = p * ((w \div p) % b) + (w % p)
      BY <1>2, <1>6, <3>4, NestedRemainder
    <3>6. d \in Int /\ w % p \in Int /\ p \in Int
      <4>1. w \div p \in Int /\ w % p \in Int /\ p \in Int
        BY <1>2, <3>4, Division DEF Positive
      <4> DEFINE x == w \div p
      <4>2. x \in Int
        BY <4>1
      <4> HIDE DEF x
      <4>3. x % b \in Int
        BY <1>6, <4>2, Division
      <4> QED BY <4>1, <4>3 DEF x
    <3>7. w % (p * b) = p * d + (w % p)
      BY <3>5
    <3> HIDE DEF d
    <3> DEFINE r == w % p
    <3>8. r \in Int /\ low[k + 1] = r + d * p /\ w % (p * b) = p * d + r
      BY <3>2, <3>3, <3>6, <3>7
    <3> HIDE DEF r
    <3>9. low[k + 1] = w % (p * b)
      BY <3>6, <3>8
    <3> QED BY <2>1, <3>4, <3>9
  <2>3. CASE ~(k + 1 <= n)
    BY <2>1, <2>3
  <2> QED BY <2>2, <2>3
<1>12. S \in SUBSET Nat
  OBVIOUS
<1> HIDE DEF S
<1>13. S = Nat
  BY <1>10, <1>11, <1>12, SetInduction
<1>14. low[n] = w % P(n)
  BY <1>1, <1>13 DEF S
<1>15. w % P(n) = w
  BY <1>1, <1>2, MaskKeeps DEF Mask
<1> QED BY <1>9, <1>14, <1>15 DEF new, n

----------------------------------------------------------------------------
(* Division with truncation. *)

(* Division that truncates towards zero, as both paths build it. *)
Truncated(x, y) ==
  LET size == Abs(x) \div Abs(y) IN IF (x < 0) # (y < 0) THEN -size ELSE size

LEMMA Truncation ==
  ASSUME NEW x \in Int, NEW y \in Int, y # 0, NEW p \in Positive,
         -p <= x, x < p, ~(x = -p /\ y = -1)
  PROVE  LET q == Truncated(x, y)
             r == x - q * y
         IN  /\ q \in Int /\ -p <= q /\ q < p
             /\ r \in Int /\ Abs(r) < Abs(y) /\ (r # 0 => (r < 0 <=> x < 0))
<1> DEFINE ax == Abs(x)
           ay == Abs(y)
           size == ax \div ay
           rem == ax % ay
           q == Truncated(x, y)
<1>1. ax \in Nat /\ ay \in Positive
  BY DEF Abs, Positive
<1>2. ax = (IF x < 0 THEN -x ELSE x) /\ ay = (IF y < 0 THEN -y ELSE y) /\ p \in Int
  BY DEF Abs, Positive
<1>3. q = IF (x < 0) # (y < 0) THEN -size ELSE size
  BY DEF Truncated
<1> HIDE DEF ax, ay, q
<1>4. size \in Int /\ rem \in 0..(ay - 1) /\ ax = ay * size + rem
  BY <1>1, Division
<1> HIDE DEF size, rem
<1>5. size >= 0
  <2>1. size < 0 => ay * size + ay <= ay * 0
    BY <1>1, <1>4, Multiples
  <2> DEFINE t == ay * size
  <2>2. t \in Int /\ ay \in Int /\ rem < ay /\ rem \in Int /\ ax >= 0 /\ ax = t + rem
    BY <1>1, <1>4 DEF Positive
  <2>3. size < 0 => t + ay <= 0
    BY <2>1, <2>2
  <2> HIDE DEF t
  <2> QED BY <1>4, <2>2, <2>3
<1>6. q * y = (IF x < 0 THEN -(ay * size) ELSE ay * size) /\ q \in Int
  BY <1>2, <1>3, <1>4
<1> DEFINE t == ay * size
           r == x - q * y
<1>7. t \in Int /\ ax = t + rem /\ size <= t /\ rem \in Nat
  <2>1. t \in Int /\ ax = t + rem /\ rem \in Nat
    BY <1>1, <1>4 DEF Positive
  <2>2. size <= ay * size
    BY <1>1, <1>4, <1>5 DEF Positive
  <2> QED BY <2>1, <2>2
<1>8. ay # 1 => 2 * size <= t
  BY <1>1, <1>4, <1>5 DEF Positive
<1>9. r = IF x < 0 THEN -rem ELSE rem
  <2> HIDE DEF t
  <2>1. q * y = IF x < 0 THEN -t ELSE t
    BY <1>6 DEF t
  <2> QED BY <1>2, <1>7, <2>1
<1> HIDE DEF t, r
<1>10. r \in Int /\ Abs(r) < Abs(y) /\ (r # 0 => (r < 0 <=> x < 0))
  BY <1>1, <1>4, <1>7, <1>9 DEF Abs, ay, Positive
<1>11. -p <= q /\ q < p
  <2>1. ax <= p /\ (x >= 0 => ax < p) /\ p >= 1
    BY <1>2 DEF Positive
  <2>2. size <= ax /\ (ay # 1 => 2 * size <= ax)
    BY <1>4, <1>7, <1>8
  <2>3. q = -size \/ q = size
    BY <1>3
  <2>4. q = size => size < p
    <3>1. CASE x >= 0
      BY <1>2, <1>4, <2>1, <2>2, <3>1
    <3>2. CASE x < 0 /\ ay # 1
      BY <1>2, <1>4, <2>1, <2>2, <3>2
    <3>3. CASE x < 0 /\ ay = 1
      <4>1. y = 1 \/ y = -1
        BY <1>2, <3>3
      <4>2. CASE y = 1
        BY <1>2, <1>3, <1>4, <1>5, <2>1, <3>3, <4>2
      <4>3. CASE y = -1
        BY <1>2, <1>4, <2>1, <2>2, <3>3, <4>3
      <4> QED BY <4>1, <4>2, <4>3
    <3> QED BY <3>1, <3>2, <3>3
  <2> QED BY <1>2, <1>4, <1>5, <2>1, <2>2, <2>3, <2>4
<1> QED BY <1>6, <1>10, <1>11 DEF q, r

(* A value in the signed range is the signed value of its pattern. *)
LEMMA SignedOfMask ==
  ASSUME NEW n \in Positive, NEW x \in Int, -Pow2[n - 1] <= x, x < Pow2[n - 1]
  PROVE  SignedValue(Mask(x, n), n) = x
<1> DEFINE p == Pow2[n - 1]
           q == Pow2[n]
           y == Mask(x, n)
<1>1. p \in Positive /\ q \in Positive /\ q = 2 * p /\ n \in Nat /\ q > 0
  <2>1. n \in Nat
    BY DEF Positive
  <2> QED BY <2>1, HalfPower, Power DEF Positive
<1>2. y \in Nat /\ y < q /\ Mask(y, n) = y
  <2>1. y \in Nat /\ y < q
    BY <1>1, MaskFits
  <2> HIDE DEF y
  <2> QED BY <1>1, <2>1, MaskKeeps
<1>3. SignedValue(y, n) = IF y >= p THEN y - q ELSE y
  BY <1>2 DEF SignedValue
<1>4. y = IF x < 0 THEN x + q ELSE x
  <2>1. y = x % q
    BY DEF Mask
  <2>2. -p <= x /\ x < p
    OBVIOUS
  <2> HIDE DEF y, p, q
  <2>3. CASE x >= 0
    <3>1. x \in 0..(q - 1)
      BY <1>1, <2>2, <2>3 DEF Positive
    <3>2. PICK k \in Int : k = 0
      OBVIOUS
    <3>3. (q * k + x) % q = x
      BY <1>1, <3>1, Remainder
    <3>4. q * k + x = x
      BY <1>1, <3>2 DEF Positive
    <3> QED BY <2>1, <2>3, <3>3, <3>4
  <2>4. CASE x < 0
    <3> DEFINE z == x + q
    <3>1. z \in 0..(q - 1)
      BY <1>1, <2>2, <2>4 DEF Positive
    <3>2. PICK k \in Int : k = -1
      OBVIOUS
    <3>3. x = q * k + z
      BY <1>1, <3>2 DEF Positive
    <3> HIDE DEF z
    <3>4. (q * k + z) % q = z
      BY <1>1, <3>1, Remainder
    <3> QED BY <2>1, <2>4, <3>3, <3>4 DEF z
  <2> QED BY <2>3, <2>4
<1> HIDE DEF y
<1>5. IF y >= p THEN y - q = x ELSE y = x
  <2>1. -p <= x /\ x < p
    OBVIOUS
  <2> HIDE DEF p, q
  <2> QED BY <1>1, <1>2, <1>4, <2>1 DEF Positive
<1> QED BY <1>3, <1>5 DEF y

(* The law of the total divisions at a width of n bits. *)
DivisionLaw(n, a, b) ==
  LET R(kind) == DivremResult(kind, a, b, n)
      sr == SignedValue(R("srem"), n)
  IN  /\ R("udiv") * b + R("urem") = a
      /\ R("urem") < b
      /\ Mask(SignedValue(R("sdiv"), n) * SignedValue(b, n) + sr - a, n) = 0
      /\ Abs(sr) < Abs(SignedValue(b, n))
      /\ sr # 0 => (sr < 0 <=> SignedValue(a, n) < 0)

(* The total divisions of divrem_v1 satisfy it for every width, dividend   *)
(* and divisor but zero, the one overflowing quotient included.            *)
THEOREM DivisionsAreTotal ==
  ASSUME NEW n \in Positive, NEW a \in Pattern(n), NEW b \in Pattern(n), b # 0
  PROVE  DivisionLaw(n, a, b)
<1> DEFINE p  == Pow2[n - 1]
           w  == Pow2[n]
           sa == SignedValue(a, n)
           sb == SignedValue(b, n)
           R(kind) == DivremResult(kind, a, b, n)
           edge == a = p /\ b = w - 1
<1>1. /\ a \in Nat /\ a < w /\ b \in Nat /\ b < w /\ b \in Positive
      /\ sa = (IF a >= p THEN a - w ELSE a) /\ sb = (IF b >= p THEN b - w ELSE b)
      /\ (sb = 0 => b = 0)
  BY PatternKept DEF Positive
<1>2. p \in Positive /\ w = 2 * p /\ w \in Positive /\ n \in Nat
  BY HalfPower, Power DEF Positive
<1>3. sa \in Int /\ sb \in Int /\ sb # 0 /\ -p <= sa /\ sa < p /\ -p <= sb /\ sb < p
  <2>1. a \in Int /\ b \in Int
    BY <1>1
  <2> QED BY <1>1, <2>1, SignedRange
<1>4. edge <=> sa = -p /\ sb = -1
  <2> HIDE DEF sa, sb, p, w
  <2> QED BY <1>1, <1>2, <1>3 DEF Positive
<1>5. R("udiv") = a \div b /\ R("urem") = a % b
  BY <1>1 DEF DivremResult, DivremCases
<1>6. R("udiv") * b + R("urem") = a /\ R("urem") < b
  <2> DEFINE d == a \div b
             r == a % b
  <2>1. d \in Int /\ r \in 0..(b - 1) /\ a = b * d + r
    <3>1. a \in Int /\ b \in Positive
      BY <1>1
    <3> HIDE DEF sa, sb, p, w
    <3> QED BY <3>1, Division
  <2>2. R("udiv") = d /\ R("urem") = r
    BY <1>5
  <2> HIDE DEF d, r, R
  <2> QED BY <1>1, <2>1, <2>2
<1>7. CASE edge
  <2>1. R("sdiv") = p /\ R("srem") = 0
    BY <1>1, <1>7 DEF DivremResult, DivremCases
  <2>2. SignedValue(p, n) = p - w
    <3>1. p \in Pattern(n)
      <4> HIDE DEF p, w
      <4>1. p \in Nat /\ p < w
        BY <1>2 DEF Positive
      <4> QED BY <4>1 DEF Pattern, w
    <3>2. SignedValue(p, n) = IF p >= Pow2[n - 1] THEN p - Pow2[n] ELSE p
      BY <3>1, PatternKept
    <3> DEFINE x == Pow2[n - 1]
    <3>3. p = x /\ x \in Int
      BY <1>2 DEF Positive
    <3> HIDE DEF p, x
    <3> QED BY <3>2, <3>3 DEF x
  <2>3. SignedValue(0, n) = 0
    <3>1. 0 \in Pattern(n)
      BY <1>2 DEF Pattern, Positive
    <3>2. SignedValue(0, n) = IF 0 >= Pow2[n - 1] THEN 0 - Pow2[n] ELSE 0
      BY <3>1, PatternKept
    <3>3. ~(0 >= Pow2[n - 1])
      BY <1>2 DEF Positive
    <3> QED BY <3>2, <3>3
  <2>4. sb = -1
    BY <1>4, <1>7
  <2>5. (p - w) * sb + 0 - a = 0
    <3>1. a = p
      BY <1>7
    <3> HIDE DEF sb, p, w
    <3> QED BY <1>2, <2>4, <3>1 DEF Positive
  <2>6. Mask(0, n) = 0
    BY <1>2, MaskKeeps DEF Positive
  <2>7. Abs(0) = 0 /\ Abs(sb) > 0
    <3> HIDE DEF sa, sb, p, w, R, edge
    <3> QED BY <1>3 DEF Abs
  <2> HIDE DEF R, sa, sb, p, w, edge
  <2>8. /\ Mask(SignedValue(R("sdiv"), n) * sb + SignedValue(R("srem"), n) - a, n) = 0
        /\ Abs(SignedValue(R("srem"), n)) < Abs(sb)
        /\ SignedValue(R("srem"), n) # 0 =>
             (SignedValue(R("srem"), n) < 0 <=> sa < 0)
    BY <2>1, <2>2, <2>3, <2>5, <2>6, <2>7
  <2> QED BY <1>6, <2>8 DEF DivisionLaw, R, sa, sb
<1>8. CASE ~edge
  <2> DEFINE q == Truncated(sa, sb)
             r == sa - q * sb
  <2>1. /\ q \in Int /\ -p <= q /\ q < p
        /\ r \in Int /\ Abs(r) < Abs(sb) /\ (r # 0 => (r < 0 <=> sa < 0))
    <3> HIDE DEF sa, sb, p
    <3> QED BY <1>2, <1>3, <1>4, <1>8, Truncation
  <2>2. R("sdiv") = Mask(q, n) /\ R("srem") = Mask(r, n)
    <3>1. ~(a = Pow2[n - 1] /\ b = Pow2[n] - 1)
      BY <1>8
    <3>2. \A kind \in {"sdiv", "srem"} : R(kind) = PySignedDivrem(kind, a, b, n)
      BY <1>1, <3>1 DEF DivremResult, DivremCases
    <3>3. PySignedDivrem("sdiv", a, b, n) = Mask(q, n)
      BY DEF PySignedDivrem, Truncated
    <3>4. PySignedDivrem("srem", a, b, n) = Mask(r, n)
      BY DEF PySignedDivrem, Truncated
    <3> QED BY <3>2, <3>3, <3>4
  <2>3. -p <= r /\ r < p
    <3> HIDE DEF q, r, sa, sb, p
    <3> QED BY <1>2, <1>3, <2>1 DEF Abs, Positive
  <2>4. SignedValue(Mask(q, n), n) = q
    <3> HIDE DEF q
    <3> QED BY <2>1, SignedOfMask
  <2>5. SignedValue(Mask(r, n), n) = r
    <3> HIDE DEF r
    <3> QED BY <2>1, <2>3, SignedOfMask
  <2>6. Mask(q * sb + r - a, n) = 0
    <3>1. q * sb + r - a = sa - a
      <4> DEFINE t == q * sb
      <4>1. t \in Int /\ r = sa - t
        BY <1>3, <2>1
      <4> HIDE DEF t, r, q, sa
      <4>2. t + r - a = sa - a
        BY <1>1, <1>3, <4>1
      <4> QED BY <4>2 DEF t
    <3> HIDE DEF q, r
    <3>2. sa - a = 0 \/ sa - a = -w
      <4> HIDE DEF sa, w, p
      <4> QED BY <1>1, <1>2 DEF Positive
    <3>3. Mask(0, n) = 0
      BY <1>2, MaskKeeps DEF Positive
    <3>4. Mask(-w, n) = 0
      <4>1. PICK k \in Int, z \in 0..(w - 1) : k = -1 /\ z = 0
        BY <1>2 DEF Positive
      <4>2. (w * k + z) % w = z
        <5> HIDE DEF w
        <5> QED BY <1>2, Remainder
      <4>3. w * k + z = -w
        <5> HIDE DEF w
        <5> QED BY <1>2, <4>1 DEF Positive
      <4>4. (-w) % w = 0
        <5> HIDE DEF w
        <5> QED BY <4>1, <4>2, <4>3
      <4> QED BY <4>4 DEF Mask
    <3> HIDE DEF sa, w
    <3> QED BY <3>1, <3>2, <3>3, <3>4
  <2> HIDE DEF R, q, r
  <2>7. /\ Mask(SignedValue(R("sdiv"), n) * sb + SignedValue(R("srem"), n) - a, n) = 0
        /\ Abs(SignedValue(R("srem"), n)) < Abs(sb)
        /\ SignedValue(R("srem"), n) # 0 =>
             (SignedValue(R("srem"), n) < 0 <=> sa < 0)
    BY <2>1, <2>2, <2>4, <2>5, <2>6
  <2> HIDE DEF sa, sb
  <2> QED BY <1>6, <2>7 DEF DivisionLaw, R, sa, sb
<1> QED BY <1>7, <1>8
=============================================================================
