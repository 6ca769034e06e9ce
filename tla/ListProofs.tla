----------------------------- MODULE ListProofs -----------------------------
(***************************************************************************)
(* Induction, and the lemmas about sums, concatenations, selections and    *)
(* sorted sequences that the proofs of this project rest on.  The library  *)
(* states induction for predicates, which no installed prover can          *)
(* instantiate; here it is stated for sets, and follows from the           *)
(* well-foundedness of < on the naturals.                                  *)
(***************************************************************************)
EXTENDS Lists, TLAPS, SequenceTheorems, FiniteSetTheorems, WellFoundedInduction

(***************************************************************************)
(* Induction, over sets rather than predicates.                            *)
(***************************************************************************)
LEMMA LeastNumber ==
    ASSUME NEW T \in SUBSET Nat, T # {}
    PROVE  \E m \in T : \A k \in T : m <= k
  <1> DEFINE R == OpToRel(<, Nat)
  <1>1. IsWellFoundedOn(R, Nat)
    BY NatLessThanWellFounded
  <1>2. \A x, y \in Nat : <<y, x>> \in R <=> y < x
    BY DEF OpToRel
  <1> HIDE DEF R
  <1>3. PICK m \in T : \A k \in T : ~(<<k, m>> \in R)
    BY <1>1, WFMin
  <1>4. m \in Nat /\ \A k \in T : k \in Nat
    OBVIOUS
  <1>5. \A k \in T : ~(k < m)
    BY <1>2, <1>3, <1>4
  <1> QED
    BY <1>4, <1>5

LEMMA NumberInduction ==
    ASSUME NEW T, 0 \in T, \A n \in Nat : n \in T => n + 1 \in T
    PROVE  Nat \subseteq T
  <1> DEFINE F == Nat \ T
  <1> SUFFICES ASSUME F # {} PROVE FALSE
    OBVIOUS
  <1>1. F \in SUBSET Nat
    OBVIOUS
  <1>2. PICK m \in F : \A k \in F : m <= k
    BY <1>1, LeastNumber
  <1>3. m # 0 /\ m \in Nat /\ m \notin T
    BY <1>2
  <1>4. m - 1 \in Nat /\ m - 1 \notin F
    BY <1>2, <1>3
  <1>5. (m - 1) + 1 = m
    BY <1>3
  <1> QED
    BY <1>3, <1>4, <1>5

LEMMA SeqInduction ==
    ASSUME NEW S, NEW T, <<>> \in T,
           \A s \in Seq(S), x \in S : s \in T => Append(s, x) \in T
    PROVE  Seq(S) \subseteq T
  <1> DEFINE N == {n \in Nat : \A s \in Seq(S) : Len(s) = n => s \in T}
  <1>1. 0 \in N
    <2>1. \A s \in Seq(S) : Len(s) = 0 => s = <<>>
      OBVIOUS
    <2> QED
      BY <2>1
  <1>2. ASSUME NEW n \in Nat, n \in N
        PROVE  n + 1 \in N
    <2> SUFFICES ASSUME NEW s \in Seq(S), Len(s) = n + 1
                 PROVE  s \in T
      OBVIOUS
    <2> DEFINE front == SubSeq(s, 1, n)
    <2>1. front \in Seq(S) /\ Len(front) = n /\ s[n + 1] \in S
      OBVIOUS
    <2>2. s = Append(front, s[n + 1])
      OBVIOUS
    <2>3. front \in T
      BY <1>2, <2>1
    <2> HIDE DEF front
    <2> QED
      BY <2>1, <2>2, <2>3
  <1>3. Nat \subseteq N
    <2> HIDE DEF N
    <2> QED
      BY <1>1, <1>2, NumberInduction
  <1>4. \A s \in Seq(S) : Len(s) \in Nat
    OBVIOUS
  <1> QED
    BY <1>3, <1>4

(* A sequence is a concatenation when it is so at every position.          *)
LEMMA ConcatEqual ==
    ASSUME NEW S, NEW p \in Seq(S), NEW q \in Seq(S), NEW r \in Seq(S),
           Len(r) = Len(p) + Len(q),
           \A k \in 1..Len(p) : r[k] = p[k],
           \A k \in 1..Len(q) : r[Len(p) + k] = q[k]
    PROVE  r = p \o q
  <1> DEFINE c == p \o q
  <1>1. /\ c \in Seq(S) /\ Len(c) = Len(p) + Len(q)
        /\ \A k \in 1..Len(p) : c[k] = p[k]
        /\ \A k \in 1..Len(q) : c[Len(p) + k] = q[k]
        /\ Len(p) \in Nat /\ Len(q) \in Nat
    OBVIOUS
  <1> HIDE DEF c
  <1>2. ASSUME NEW k \in 1..Len(r) PROVE r[k] = c[k]
    <2>1. CASE k <= Len(p)
      <3>1. k \in 1..Len(p)
        BY <1>1, <2>1
      <3> QED
        BY <1>1, <3>1
    <2>2. CASE ~(k <= Len(p))
      <3>1. k - Len(p) \in 1..Len(q) /\ Len(p) + (k - Len(p)) = k
        BY <1>1, <2>2
      <3>2. r[Len(p) + (k - Len(p))] = c[Len(p) + (k - Len(p))]
        BY <1>1, <3>1
      <3> QED
        BY <3>1, <3>2
    <2> QED
      BY <2>1, <2>2
  <1>3. r = c
    BY <1>1, <1>2, SeqEqual
  <1> QED
    BY <1>3 DEF c

(***************************************************************************)
(* Sums.                                                                   *)
(***************************************************************************)
IsTotal(s, g, n) == s = [k \in 1..n |-> g[k] + (IF k = 1 THEN 0 ELSE s[k - 1])]

LEMMA TotalExists ==
    ASSUME NEW g
    PROVE  \A n \in Nat : \E s : IsTotal(s, g, n)
  <1> DEFINE T == {n \in Nat : \E s : IsTotal(s, g, n)}
  <1>1. 0 \in T
    <2>1. IsTotal([k \in 1..0 |-> 0], g, 0)
      BY DEF IsTotal
    <2> QED
      BY <2>1
  <1>2. ASSUME NEW n \in Nat, n \in T
        PROVE  n + 1 \in T
    <2>1. PICK s : IsTotal(s, g, n)
      BY <1>2
    <2> DEFINE x == g[n + 1] + (IF n = 0 THEN 0 ELSE s[n])
               r == [k \in 1..(n + 1) |-> IF k = n + 1 THEN x ELSE s[k]]
    <2>2. ASSUME NEW k \in 1..(n + 1)
          PROVE  r[k] = g[k] + (IF k = 1 THEN 0 ELSE r[k - 1])
      <3>1. CASE k = n + 1
        BY <3>1
      <3>2. CASE k # n + 1
        <4>1. k \in 1..n /\ (k # 1 => k - 1 \in 1..n)
          BY <3>2
        <4>2. s[k] = g[k] + (IF k = 1 THEN 0 ELSE s[k - 1])
          BY <2>1, <4>1 DEF IsTotal
        <4>3. r[k] = s[k] /\ (k # 1 => r[k - 1] = s[k - 1])
          BY <3>2, <4>1
        <4> HIDE DEF r
        <4> QED
          BY <4>2, <4>3
      <3> QED
        BY <3>1, <3>2
    <2>3. IsTotal(r, g, n + 1)
      BY <2>2 DEF IsTotal
    <2> QED
      BY <2>3
  <1>3. Nat \subseteq T
    <2> HIDE DEF T
    <2> QED
      BY <1>1, <1>2, NumberInduction
  <1> QED
    BY <1>3

LEMMA TotalUnique ==
    ASSUME NEW g, NEW h, NEW n \in Nat, NEW m \in 0..n, NEW s, NEW r,
           IsTotal(s, g, n), IsTotal(r, h, m), \A k \in 1..m : g[k] = h[k]
    PROVE  \A k \in 1..m : s[k] = r[k]
  <1> DEFINE T == {k \in 1..m : s[k] # r[k]}
  <1> SUFFICES ASSUME T # {} PROVE FALSE
    OBVIOUS
  <1>1. T \in SUBSET Nat
    OBVIOUS
  <1>2. PICK k \in T : \A j \in T : k <= j
    BY <1>1, LeastNumber
  <1>3. k \in 1..m /\ k \in 1..n
    BY <1>2
  <1>4. /\ s[k] = g[k] + (IF k = 1 THEN 0 ELSE s[k - 1])
        /\ r[k] = h[k] + (IF k = 1 THEN 0 ELSE r[k - 1])
    BY <1>3 DEF IsTotal
  <1>5. k # 1 => k - 1 \in 1..m /\ k - 1 \notin T
    BY <1>2, <1>3
  <1> QED
    BY <1>2, <1>3, <1>4, <1>5

Sums(g) == CHOOSE s : s = [k \in DOMAIN g |-> g[k] + (IF k = 1 THEN 0 ELSE s[k - 1])]

LEMMA TotalIs ==
    ASSUME NEW S, NEW g \in Seq(S)
    PROVE  /\ IsTotal(Sums(g), g, Len(g))
           /\ Total(g) = IF Len(g) = 0 THEN 0 ELSE Sums(g)[Len(g)]
  <1>1. DOMAIN g = 1..Len(g) /\ Len(g) \in Nat /\ (g = <<>> <=> Len(g) = 0)
    OBVIOUS
  <1>2. \E s : s = [k \in DOMAIN g |-> g[k] + (IF k = 1 THEN 0 ELSE s[k - 1])]
    <2>1. PICK s : IsTotal(s, g, Len(g))
      BY <1>1, TotalExists
    <2>2. s = [k \in DOMAIN g |-> g[k] + (IF k = 1 THEN 0 ELSE s[k - 1])]
      BY <1>1, <2>1 DEF IsTotal
    <2> QED
      BY <2>2
  <1>3. Sums(g) = [k \in DOMAIN g |-> g[k] + (IF k = 1 THEN 0 ELSE Sums(g)[k - 1])]
    BY <1>2, Zenon DEF Sums
  <1>4. Total(g) = IF g = <<>> THEN 0 ELSE Sums(g)[Len(g)]
    BY Zenon DEF Total, Sums
  <1> QED
    BY <1>1, <1>3, <1>4 DEF IsTotal

LEMMA TotalAppends ==
    ASSUME NEW S, NEW g \in Seq(S), NEW x \in S
    PROVE  Total(Append(g, x)) = x + (IF g = <<>> THEN 0 ELSE Total(g))
  <1> DEFINE n == Len(g)
             a == Append(g, x)
  <1>1. /\ n \in Nat /\ a \in Seq(S) /\ Len(a) = n + 1 /\ a[n + 1] = x
        /\ \A k \in 1..n : a[k] = g[k]
        /\ (g = <<>> <=> n = 0)
    BY AppendProperties
  <1> HIDE DEF a, n
  <1>2. IsTotal(Sums(g), g, n) /\ IsTotal(Sums(a), a, n + 1)
    BY <1>1, TotalIs DEF n
  <1>3. Total(a) = Sums(a)[n + 1] /\ Total(g) = IF n = 0 THEN 0 ELSE Sums(g)[n]
    <2>1. Total(a) = IF Len(a) = 0 THEN 0 ELSE Sums(a)[Len(a)]
      BY <1>1, TotalIs
    <2>2. Len(a) # 0
      BY <1>1
    <2> QED
      BY <1>1, <2>1, <2>2, TotalIs DEF n
  <1>4. n # 0 => Sums(a)[n] = Sums(g)[n]
    BY <1>1, <1>2, TotalUnique
  <1>5. Sums(a)[n + 1] = a[n + 1] + (IF n + 1 = 1 THEN 0 ELSE Sums(a)[(n + 1) - 1])
    BY <1>1, <1>2 DEF IsTotal
  <1>6. CASE n = 0
    BY <1>1, <1>3, <1>5, <1>6 DEF a
  <1>7. CASE n # 0
    <2>1. (n + 1) - 1 = n /\ n + 1 # 1
      BY <1>1, <1>7
    <2> QED
      BY <1>1, <1>3, <1>4, <1>5, <1>7, <2>1 DEF a
  <1> QED
    BY <1>6, <1>7

LEMMA TotalEmpty == Total(<<>>) = 0
  BY DEF Total

LEMMA TotalInt ==
    ASSUME NEW g \in Seq(Int)
    PROVE  Total(g) \in Int
  <1> DEFINE T == {s \in Seq(Int) : Total(s) \in Int}
  <1>1. <<>> \in T
    BY TotalEmpty
  <1>2. ASSUME NEW s \in Seq(Int), NEW x \in Int, s \in T
        PROVE  Append(s, x) \in T
    <2>1. Total(Append(s, x)) = x + (IF s = <<>> THEN 0 ELSE Total(s))
      BY TotalAppends
    <2>2. Total(s) \in Int /\ Append(s, x) \in Seq(Int)
      BY <1>2
    <2> QED
      BY <2>1, <2>2
  <1> HIDE DEF T
  <1>3. Seq(Int) \subseteq T
    BY <1>1, <1>2, SeqInduction
  <1> QED
    BY <1>3 DEF T

LEMMA TotalAppend ==
    ASSUME NEW g \in Seq(Int), NEW x \in Int
    PROVE  Total(Append(g, x)) = Total(g) + x
  BY TotalAppends, TotalInt, TotalEmpty

LEMMA TotalConcat ==
    ASSUME NEW g \in Seq(Int), NEW h \in Seq(Int)
    PROVE  Total(g \o h) = Total(g) + Total(h)
  <1> DEFINE T == {s \in Seq(Int) : Total(g \o s) = Total(g) + Total(s)}
  <1>1. <<>> \in T
    <2>1. g \o <<>> = g
      OBVIOUS
    <2> QED
      BY <2>1, TotalEmpty, TotalInt
  <1>2. ASSUME NEW s \in Seq(Int), NEW x \in Int, s \in T
        PROVE  Append(s, x) \in T
    <2>1. g \o Append(s, x) = Append(g \o s, x) /\ g \o s \in Seq(Int)
          /\ Append(s, x) \in Seq(Int)
      OBVIOUS
    <2>2. Total(Append(g \o s, x)) = Total(g \o s) + x
      BY <2>1, TotalAppend
    <2>3. Total(g \o s) = Total(g) + Total(s)
      BY <1>2
    <2>4. Total(g \o Append(s, x)) = Total(g) + Total(Append(s, x))
      BY <2>1, <2>2, <2>3, TotalAppend, TotalInt
    <2> QED
      BY <2>1, <2>4
  <1> HIDE DEF T
  <1>3. Seq(Int) \subseteq T
    BY <1>1, <1>2, SeqInduction
  <1> QED
    BY <1>3 DEF T

LEMMA TotalNat ==
    ASSUME NEW g \in Seq(Nat)
    PROVE  Total(g) \in Nat
  <1> DEFINE T == {s \in Seq(Nat) : Total(s) \in Nat}
  <1>1. <<>> \in T
    BY TotalEmpty
  <1>2. ASSUME NEW s \in Seq(Nat), NEW x \in Nat, s \in T
        PROVE  Append(s, x) \in T
    <2>1. Total(Append(s, x)) = x + (IF s = <<>> THEN 0 ELSE Total(s))
      BY TotalAppends
    <2>2. Total(s) \in Nat /\ Append(s, x) \in Seq(Nat)
      BY <1>2
    <2> QED
      BY <2>1, <2>2
  <1> HIDE DEF T
  <1>3. Seq(Nat) \subseteq T
    BY <1>1, <1>2, SeqInduction
  <1> QED
    BY <1>3 DEF T

(* Sums of prefixes.                                                       *)
LEMMA PrefixIs ==
    ASSUME NEW S, NEW g \in Seq(S), NEW n \in 0..Len(g)
    PROVE  /\ SubSeq(g, 1, n) \in Seq(S) /\ Len(SubSeq(g, 1, n)) = n
           /\ \A k \in 1..n : SubSeq(g, 1, n)[k] = g[k]
           /\ SubSeq(g, 1, 0) = <<>> /\ SubSeq(g, 1, Len(g)) = g
           /\ n > 0 => SubSeq(g, 1, n) = Append(SubSeq(g, 1, n - 1), g[n])
  <1>1. /\ SubSeq(g, 1, n) \in Seq(S) /\ Len(SubSeq(g, 1, n)) = n
        /\ \A k \in 1..n : SubSeq(g, 1, n)[k] = g[k]
    OBVIOUS
  <1>2. SubSeq(g, 1, 0) = <<>> /\ SubSeq(g, 1, Len(g)) = g
    OBVIOUS
  <1>3. n > 0 => SubSeq(g, 1, n) = Append(SubSeq(g, 1, n - 1), g[n])
    OBVIOUS
  <1> QED
    BY <1>1, <1>2, <1>3

LEMMA PrefixOfConcat ==
    ASSUME NEW S, NEW g \in Seq(S), NEW h \in Seq(S), NEW n \in 0..Len(g)
    PROVE  SubSeq(g \o h, 1, n) = SubSeq(g, 1, n)
  OBVIOUS

LEMMA PrefixPast ==
    ASSUME NEW S, NEW g \in Seq(S), NEW h \in Seq(S), NEW n \in 0..Len(h)
    PROVE  SubSeq(g \o h, 1, Len(g) + n) = g \o SubSeq(h, 1, n)
  <1> DEFINE c == g \o h
  <1>1. /\ c \in Seq(S) /\ Len(c) = Len(g) + Len(h)
        /\ \A k \in 1..Len(g) : c[k] = g[k]
        /\ \A k \in 1..Len(h) : c[Len(g) + k] = h[k]
        /\ Len(g) \in Nat /\ Len(h) \in Nat
    OBVIOUS
  <1> HIDE DEF c
  <1>2. SubSeq(c, 1, Len(g) + n) = g \o SubSeq(h, 1, n)
    <2> DEFINE r == SubSeq(c, 1, Len(g) + n)
               q == SubSeq(h, 1, n)
    <2>1. /\ q \in Seq(S) /\ Len(q) = n /\ \A k \in 1..n : q[k] = h[k]
      OBVIOUS
    <2>2. /\ r \in Seq(S) /\ Len(r) = Len(g) + n
          /\ \A k \in 1..(Len(g) + n) : r[k] = c[k]
      BY <1>1
    <2> HIDE DEF r, q
    <2>3. \A k \in 1..Len(g) : r[k] = g[k]
      BY <1>1, <2>2
    <2>4. ASSUME NEW k \in 1..Len(q) PROVE r[Len(g) + k] = q[k]
      <3>1. Len(g) + k \in 1..(Len(g) + n) /\ k \in 1..Len(h)
        BY <1>1, <2>1
      <3> QED
        BY <1>1, <2>1, <2>2, <3>1
    <2>5. r = g \o q
      BY <2>1, <2>2, <2>3, <2>4, ConcatEqual
    <2> QED
      BY <2>5 DEF r, q
  <1> QED
    BY <1>2 DEF c

LEMMA TotalPrefix ==
    ASSUME NEW g \in Seq(Int), NEW n \in 1..Len(g)
    PROVE  /\ Total(SubSeq(g, 1, n)) = Total(SubSeq(g, 1, n - 1)) + g[n]
           /\ Total(SubSeq(g, 1, n - 1)) \in Int
  <1>1. n - 1 \in 0..Len(g) /\ n \in 0..Len(g) /\ n > 0 /\ g[n] \in Int
    OBVIOUS
  <1>2. SubSeq(g, 1, n) = Append(SubSeq(g, 1, n - 1), g[n]) /\ SubSeq(g, 1, n - 1) \in Seq(Int)
    BY <1>1, PrefixIs
  <1> QED
    BY <1>1, <1>2, TotalAppend, TotalInt

LEMMA TotalPrefixNat ==
    ASSUME NEW g \in Seq(Nat), NEW n \in 0..Len(g)
    PROVE  Total(SubSeq(g, 1, n)) \in Nat
  BY PrefixIs, TotalNat

(* Longer prefixes have larger sums, and room for what lies between.       *)
LEMMA TotalGrows ==
    ASSUME NEW g \in Seq(Nat), NEW n \in 1..Len(g), NEW j \in 0..(n - 1)
    PROVE  Total(SubSeq(g, 1, j)) + g[n] <= Total(SubSeq(g, 1, n))
  <1> DEFINE T == {i \in Nat : i <= Len(g) =>
                       \A k \in 0..i : Total(SubSeq(g, 1, k)) <= Total(SubSeq(g, 1, i))}
  <1>0. \A k \in 0..Len(g) : Total(SubSeq(g, 1, k)) \in Nat
    BY TotalPrefixNat
  <1>1. 0 \in T
    <2>1. \A k \in 0..0 : k = 0
      OBVIOUS
    <2>2. 0 \in 0..Len(g)
      OBVIOUS
    <2> QED
      BY <1>0, <2>1, <2>2
  <1>2. ASSUME NEW i \in Nat, i \in T PROVE i + 1 \in T
    <2> SUFFICES ASSUME i + 1 <= Len(g), NEW k \in 0..(i + 1)
                 PROVE  Total(SubSeq(g, 1, k)) <= Total(SubSeq(g, 1, i + 1))
      OBVIOUS
    <2>1. i + 1 \in 1..Len(g) /\ (i + 1) - 1 = i /\ i \in 0..Len(g) /\ i <= Len(g)
          /\ i + 1 \in 0..Len(g)
      OBVIOUS
    <2>2. g[i + 1] \in Nat /\ g \in Seq(Int)
      BY <2>1
    <2>3. Total(SubSeq(g, 1, i + 1)) = Total(SubSeq(g, 1, (i + 1) - 1)) + g[i + 1]
      BY <2>1, <2>2, TotalPrefix
    <2>4. CASE k = i + 1
      BY <1>0, <2>1, <2>4
    <2>5. CASE k # i + 1
      <3>1. k \in 0..i /\ k \in 0..Len(g)
        BY <2>1, <2>5
      <3>2. Total(SubSeq(g, 1, k)) <= Total(SubSeq(g, 1, i))
        BY <1>2, <2>1, <3>1
      <3> QED
        BY <1>0, <2>1, <2>2, <2>3, <3>1, <3>2
    <2> QED
      BY <2>4, <2>5
  <1>3. Nat \subseteq T
    <2> HIDE DEF T
    <2> QED
      BY <1>1, <1>2, NumberInduction
  <1>4. n - 1 \in T /\ n - 1 <= Len(g) /\ n - 1 \in 0..Len(g) /\ j \in 0..Len(g)
    BY <1>3
  <1>5. Total(SubSeq(g, 1, j)) <= Total(SubSeq(g, 1, n - 1))
    BY <1>4
  <1>6. Total(SubSeq(g, 1, n)) = Total(SubSeq(g, 1, n - 1)) + g[n] /\ g[n] \in Nat
    BY TotalPrefix
  <1>7. /\ Total(SubSeq(g, 1, j)) \in Nat /\ Total(SubSeq(g, 1, n - 1)) \in Nat
        /\ g[n] \in Nat
    BY <1>0, <1>4, <1>6
  <1> HIDE DEF T
  <1> QED
    BY <1>5, <1>6, <1>7

(* What is no greater anywhere is no greater in sum. *)
LEMMA TotalMonotone ==
    ASSUME NEW g \in Seq(Nat), NEW h \in Seq(Nat), Len(g) = Len(h),
           \A k \in 1..Len(g) : g[k] <= h[k]
    PROVE  Total(g) <= Total(h)
  <1> DEFINE N == Len(g)
             G(n) == Total(SubSeq(g, 1, n))
             H(n) == Total(SubSeq(h, 1, n))
             T == {n \in Nat : n <= N => G(n) <= H(n)}
  <1>1. N \in Nat /\ N = Len(h)
    OBVIOUS
  <1>2. 0 \in T
    <2>1. SubSeq(g, 1, 0) = <<>> /\ SubSeq(h, 1, 0) = <<>>
      BY <1>1, PrefixIs
    <2>2. G(0) = 0 /\ H(0) = 0
      BY <2>1, TotalEmpty
    <2> HIDE DEF G, H
    <2> QED
      BY <2>2
  <1>3. ASSUME NEW n \in Nat, n \in T PROVE n + 1 \in T
    <2> SUFFICES ASSUME n + 1 <= N PROVE G(n + 1) <= H(n + 1)
      OBVIOUS
    <2>1. n + 1 \in 1..Len(g) /\ n + 1 \in 1..Len(h) /\ (n + 1) - 1 = n /\ n <= N
          /\ n \in 0..Len(g) /\ n \in 0..Len(h)
      BY <1>1
    <2>2. G(n + 1) = G(n) + g[n + 1] /\ H(n + 1) = H(n) + h[n + 1]
      <3> DEFINE m == n + 1
      <3>1. m \in 1..Len(g) /\ m \in 1..Len(h) /\ n = m - 1
        BY <2>1
      <3>2. g \in Seq(Int) /\ h \in Seq(Int)
        OBVIOUS
      <3> HIDE DEF m
      <3>3. Total(SubSeq(g, 1, m)) = Total(SubSeq(g, 1, m - 1)) + g[m]
        BY <3>1, <3>2, TotalPrefix
      <3>4. Total(SubSeq(h, 1, m)) = Total(SubSeq(h, 1, m - 1)) + h[m]
        BY <3>1, <3>2, TotalPrefix
      <3> QED
        BY <3>1, <3>3, <3>4 DEF m
    <2>4. G(n) \in Nat /\ H(n) \in Nat
      BY <2>1, TotalPrefixNat
    <2>5. G(n) <= H(n)
      BY <1>3, <2>1
    <2>6. g[n + 1] <= h[n + 1] /\ g[n + 1] \in Nat /\ h[n + 1] \in Nat
      BY <2>1
    <2> HIDE DEF G, H
    <2> QED
      BY <2>2, <2>4, <2>5, <2>6, SMTT(30), ZenonT(60)
  <1> HIDE DEF T
  <1>4. Nat \subseteq T
    BY <1>2, <1>3, NumberInduction
  <1>5. G(N) <= H(N)
    BY <1>1, <1>4 DEF T
  <1>6. SubSeq(g, 1, Len(g)) = g /\ SubSeq(h, 1, Len(h)) = h
    BY <1>1, PrefixIs
  <1> QED
    BY <1>1, <1>5, <1>6

(***************************************************************************)
(* Concatenations.                                                         *)
(***************************************************************************)
IsFlat(f, ss, n) ==
    f = [k \in 1..n |-> IF k = 1 THEN ss[k] ELSE f[k - 1] \o ss[k]]

LEMMA FlatExists ==
    ASSUME NEW ss
    PROVE  \A n \in Nat : \E f : IsFlat(f, ss, n)
  <1> DEFINE T == {n \in Nat : \E f : IsFlat(f, ss, n)}
  <1>1. 0 \in T
    <2>1. IsFlat([k \in 1..0 |-> 0], ss, 0)
      BY DEF IsFlat
    <2> QED
      BY <2>1
  <1>2. ASSUME NEW n \in Nat, n \in T
        PROVE  n + 1 \in T
    <2>1. PICK f : IsFlat(f, ss, n)
      BY <1>2
    <2> DEFINE x == IF n = 0 THEN ss[1] ELSE f[n] \o ss[n + 1]
               r == [k \in 1..(n + 1) |-> IF k = n + 1 THEN x ELSE f[k]]
    <2>2. ASSUME NEW k \in 1..(n + 1)
          PROVE  r[k] = IF k = 1 THEN ss[k] ELSE r[k - 1] \o ss[k]
      <3>1. CASE k = n + 1
        <4>1. r[k] = x /\ (k # 1 => k - 1 = n /\ n \in 1..(n + 1) /\ n # n + 1 /\ n # 0)
              /\ (k = 1 => n = 0)
          BY <3>1
        <4> QED
          BY <3>1, <4>1
      <3>2. CASE k # n + 1
        <4>1. k \in 1..n /\ (k # 1 => k - 1 \in 1..n)
          BY <3>2
        <4>2. f[k] = IF k = 1 THEN ss[k] ELSE f[k - 1] \o ss[k]
          BY <2>1, <4>1 DEF IsFlat
        <4>3. r[k] = f[k] /\ (k # 1 => r[k - 1] = f[k - 1])
          BY <3>2, <4>1
        <4> HIDE DEF r
        <4> QED
          BY <4>2, <4>3
      <3> QED
        BY <3>1, <3>2
    <2>3. IsFlat(r, ss, n + 1)
      BY <2>2 DEF IsFlat
    <2> QED
      BY <2>3
  <1>3. Nat \subseteq T
    <2> HIDE DEF T
    <2> QED
      BY <1>1, <1>2, NumberInduction
  <1> QED
    BY <1>3

LEMMA FlatUnique ==
    ASSUME NEW ss, NEW tt, NEW n \in Nat, NEW m \in 0..n, NEW f, NEW g,
           IsFlat(f, ss, n), IsFlat(g, tt, m), \A k \in 1..m : ss[k] = tt[k]
    PROVE  \A k \in 1..m : f[k] = g[k]
  <1> DEFINE T == {k \in 1..m : f[k] # g[k]}
  <1> SUFFICES ASSUME T # {} PROVE FALSE
    OBVIOUS
  <1>1. T \in SUBSET Nat
    OBVIOUS
  <1>2. PICK k \in T : \A j \in T : k <= j
    BY <1>1, LeastNumber
  <1>3. k \in 1..m /\ k \in 1..n
    BY <1>2
  <1>4. /\ f[k] = IF k = 1 THEN ss[k] ELSE f[k - 1] \o ss[k]
        /\ g[k] = IF k = 1 THEN tt[k] ELSE g[k - 1] \o tt[k]
    BY <1>3 DEF IsFlat
  <1>5. k # 1 => k - 1 \in 1..m /\ k - 1 \notin T
    BY <1>2, <1>3
  <1> QED
    BY <1>2, <1>3, <1>4, <1>5

Flats(ss) ==
    CHOOSE f : f = [k \in 1..Len(ss) |-> IF k = 1 THEN ss[k] ELSE f[k - 1] \o ss[k]]

LEMMA FlattenIs ==
    ASSUME NEW S, NEW ss \in Seq(S)
    PROVE  /\ IsFlat(Flats(ss), ss, Len(ss))
           /\ FlattenSeq(ss) = IF Len(ss) = 0 THEN ss ELSE Flats(ss)[Len(ss)]
  <1>1. Len(ss) \in Nat
    OBVIOUS
  <1>2. \E f : f = [k \in 1..Len(ss) |-> IF k = 1 THEN ss[k] ELSE f[k - 1] \o ss[k]]
    <2>1. PICK f : IsFlat(f, ss, Len(ss))
      BY <1>1, FlatExists
    <2> QED
      BY <2>1 DEF IsFlat
  <1>3. Flats(ss) = [k \in 1..Len(ss) |-> IF k = 1 THEN ss[k]
                                          ELSE Flats(ss)[k - 1] \o ss[k]]
    BY <1>2, Zenon DEF Flats
  <1>4. FlattenSeq(ss) = IF Len(ss) = 0 THEN ss ELSE Flats(ss)[Len(ss)]
    BY Zenon DEF FlattenSeq, Flats
  <1> QED
    BY <1>3, <1>4 DEF IsFlat

LEMMA FlattenEmpty == FlattenSeq(<<>>) = <<>>
  BY DEF FlattenSeq

LEMMA FlattenAppends ==
    ASSUME NEW S, NEW ss \in Seq(S), NEW s \in S
    PROVE  FlattenSeq(Append(ss, s)) = IF ss = <<>> THEN s ELSE FlattenSeq(ss) \o s
  <1> DEFINE n == Len(ss)
             a == Append(ss, s)
  <1>1. /\ n \in Nat /\ a \in Seq(S) /\ Len(a) = n + 1 /\ a[n + 1] = s
        /\ \A k \in 1..n : a[k] = ss[k]
        /\ (ss = <<>> <=> n = 0)
    BY AppendProperties
  <1> HIDE DEF a, n
  <1>2. IsFlat(Flats(ss), ss, n) /\ IsFlat(Flats(a), a, n + 1)
    BY <1>1, FlattenIs DEF n
  <1>3. FlattenSeq(a) = Flats(a)[n + 1] /\ (n # 0 => FlattenSeq(ss) = Flats(ss)[n])
    <2>1. FlattenSeq(a) = IF Len(a) = 0 THEN a ELSE Flats(a)[Len(a)]
      BY <1>1, FlattenIs
    <2>2. Len(a) # 0
      BY <1>1
    <2> QED
      BY <1>1, <2>1, <2>2, FlattenIs DEF n
  <1>4. n # 0 => Flats(a)[n] = Flats(ss)[n]
    BY <1>1, <1>2, FlatUnique
  <1>5. Flats(a)[n + 1] = IF n + 1 = 1 THEN a[n + 1] ELSE Flats(a)[(n + 1) - 1] \o a[n + 1]
    <2>1. n + 1 \in 1..(n + 1)
      BY <1>1
    <2> QED
      BY <1>2, <2>1, Zenon DEF IsFlat
  <1>6. CASE n = 0
    BY <1>1, <1>3, <1>5, <1>6 DEF a
  <1>7. CASE n # 0
    <2>1. (n + 1) - 1 = n /\ n + 1 # 1
      BY <1>1, <1>7
    <2> QED
      BY <1>1, <1>3, <1>4, <1>5, <1>7, <2>1 DEF a
  <1> QED
    BY <1>6, <1>7

LEMMA FlattenTyped ==
    ASSUME NEW S, NEW ss \in Seq(Seq(S))
    PROVE  FlattenSeq(ss) \in Seq(S)
  <1> DEFINE T == {x \in Seq(Seq(S)) : FlattenSeq(x) \in Seq(S)}
  <1>1. <<>> \in T
    <2>1. <<>> \in Seq(Seq(S)) /\ <<>> \in Seq(S)
      OBVIOUS
    <2> QED
      BY <2>1, FlattenEmpty, Zenon
  <1>2. ASSUME NEW x \in Seq(Seq(S)), NEW s \in Seq(S), x \in T
        PROVE  Append(x, s) \in T
    <2>1. FlattenSeq(Append(x, s)) = IF x = <<>> THEN s ELSE FlattenSeq(x) \o s
      BY FlattenAppends
    <2>2. FlattenSeq(x) \in Seq(S) /\ Append(x, s) \in Seq(Seq(S))
      BY <1>2
    <2>3. \A f \in Seq(S) : f \o s \in Seq(S)
      OBVIOUS
    <2>4. FlattenSeq(Append(x, s)) \in Seq(S)
      BY <2>1, <2>2, <2>3, Zenon
    <2> QED
      BY <2>2, <2>4
  <1> HIDE DEF T
  <1>3. Seq(Seq(S)) \subseteq T
    BY <1>1, <1>2, SeqInduction
  <1> QED
    BY <1>3 DEF T

LEMMA FlattenAppend ==
    ASSUME NEW S, NEW ss \in Seq(Seq(S)), NEW s \in Seq(S)
    PROVE  FlattenSeq(Append(ss, s)) = FlattenSeq(ss) \o s
  <1>1. <<>> \o s = s
    OBVIOUS
  <1> QED
    BY <1>1, FlattenAppends, FlattenEmpty

LEMMA FlattenConcat ==
    ASSUME NEW S, NEW aa \in Seq(Seq(S)), NEW bb \in Seq(Seq(S))
    PROVE  FlattenSeq(aa \o bb) = FlattenSeq(aa) \o FlattenSeq(bb)
  <1> DEFINE T == {x \in Seq(Seq(S)) : FlattenSeq(aa \o x) = FlattenSeq(aa) \o FlattenSeq(x)}
  <1>1. <<>> \in T
    <2>1. aa \o <<>> = aa /\ FlattenSeq(aa) \in Seq(S)
      BY FlattenTyped
    <2>2. FlattenSeq(aa) \o <<>> = FlattenSeq(aa)
      BY <2>1
    <2> QED
      BY <2>1, <2>2, FlattenEmpty
  <1>2. ASSUME NEW x \in Seq(Seq(S)), NEW s \in Seq(S), x \in T
        PROVE  Append(x, s) \in T
    <2>1. aa \o Append(x, s) = Append(aa \o x, s) /\ aa \o x \in Seq(Seq(S))
          /\ Append(x, s) \in Seq(Seq(S))
      OBVIOUS
    <2>2. FlattenSeq(aa \o Append(x, s)) = FlattenSeq(aa \o x) \o s
      BY <2>1, FlattenAppend
    <2>3. FlattenSeq(aa \o x) = FlattenSeq(aa) \o FlattenSeq(x)
      BY <1>2
    <2>4. /\ FlattenSeq(aa) \in Seq(S) /\ FlattenSeq(x) \in Seq(S)
          /\ FlattenSeq(Append(x, s)) = FlattenSeq(x) \o s
      BY FlattenTyped, FlattenAppend
    <2> DEFINE f == FlattenSeq(aa)
               g == FlattenSeq(x)
    <2>5. (f \o g) \o s = f \o (g \o s)
      <3> HIDE DEF f, g
      <3>1. f \in Seq(S) /\ g \in Seq(S)
        BY <2>4 DEF f, g
      <3> QED
        BY <3>1, SMTT(30), ZenonT(60)
    <2> QED
      BY <2>1, <2>2, <2>3, <2>4, <2>5
  <1> HIDE DEF T
  <1>3. Seq(Seq(S)) \subseteq T
    BY <1>1, <1>2, SeqInduction
  <1> QED
    BY <1>3 DEF T

LEMMA FlattenJoin ==
    ASSUME NEW S, NEW aa \in Seq(Seq(S)), NEW bb \in Seq(Seq(S)), NEW cc,
           cc = [k \in 1..(Len(aa) + Len(bb)) |-> cc[k]],
           \A k \in 1..Len(aa) : cc[k] = aa[k],
           \A k \in 1..Len(bb) : cc[Len(aa) + k] = bb[k]
    PROVE  FlattenSeq(cc) = FlattenSeq(aa) \o FlattenSeq(bb)
  <1> DEFINE U == Seq(S)
  <1>1. aa \in Seq(U) /\ bb \in Seq(U) /\ Len(aa) \in Nat /\ Len(bb) \in Nat
    OBVIOUS
  <1> HIDE DEF U
  <1>2. ASSUME NEW k \in 1..(Len(aa) + Len(bb)) PROVE cc[k] \in U
    <2>1. CASE k <= Len(aa)
      <3>1. k \in 1..Len(aa)
        BY <1>1, <2>1
      <3>2. cc[k] = aa[k]
        BY <3>1
      <3>3. aa[k] \in U
        BY <1>1, <3>1
      <3> QED
        BY <3>2, <3>3
    <2>2. CASE ~(k <= Len(aa))
      <3>1. k - Len(aa) \in 1..Len(bb) /\ Len(aa) + (k - Len(aa)) = k
        BY <1>1, <2>2
      <3>2. cc[Len(aa) + (k - Len(aa))] = bb[k - Len(aa)]
        BY <3>1
      <3> QED
        BY <1>1, <3>1, <3>2
    <2> QED
      BY <2>1, <2>2
  <1>3. cc \in Seq(U) /\ Len(cc) = Len(aa) + Len(bb)
    BY <1>1, <1>2
  <1>4. cc = aa \o bb
    BY <1>1, <1>3, ConcatEqual
  <1> QED
    BY <1>4, FlattenConcat

LEMMA FlattenOne ==
    ASSUME NEW S, NEW s \in Seq(S)
    PROVE  FlattenSeq(<<s>>) = s
  <1>1. <<>> \in Seq(Seq(S)) /\ Append(<<>>, s) = <<s>>
    OBVIOUS
  <1> QED
    BY <1>1, FlattenAppends, Zenon

(***************************************************************************)
(* Selections.                                                             *)
(***************************************************************************)
Parts(s, K) == [k \in DOMAIN s |-> IF k \in K THEN <<s[k]>> ELSE <<>>]

LEMMA PartsTyped ==
    ASSUME NEW S, NEW s \in Seq(S), NEW K
    PROVE  Parts(s, K) \in Seq(Seq(S)) /\ Len(Parts(s, K)) = Len(s)
  <1>1. \A k \in 1..Len(s) : <<s[k]>> \in Seq(S) /\ <<>> \in Seq(S)
    OBVIOUS
  <1>2. DOMAIN s = 1..Len(s) /\ Len(s) \in Nat
    OBVIOUS
  <1> QED
    BY <1>1, <1>2 DEF Parts

LEMMA SelectedIsFlat ==
    ASSUME NEW s, NEW K
    PROVE  Selected(s, K) = FlattenSeq(Parts(s, K))
  BY DEF Selected, Parts

LEMMA SelectedTyped ==
    ASSUME NEW S, NEW s \in Seq(S), NEW K
    PROVE  Selected(s, K) \in Seq(S)
  BY PartsTyped, FlattenTyped, SelectedIsFlat

(* Only the positions of s in K count.                                     *)
LEMMA SelectedSame ==
    ASSUME NEW s, NEW r, NEW K, NEW L, DOMAIN s = DOMAIN r,
           \A k \in DOMAIN s : (k \in K <=> k \in L) /\ (k \in K => s[k] = r[k])
    PROVE  Selected(s, K) = Selected(r, L)
  <1>1. Parts(s, K) = Parts(r, L)
    BY DEF Parts
  <1> QED
    BY <1>1, SelectedIsFlat

LEMMA SelectedEmpty == \A K : Selected(<<>>, K) = <<>>
  <1> SUFFICES ASSUME NEW K PROVE Selected(<<>>, K) = <<>>
    OBVIOUS
  <1>1. Parts(<<>>, K) = <<>>
    BY DEF Parts
  <1> QED
    BY <1>1, SelectedIsFlat, FlattenEmpty

LEMMA SelectedAppend ==
    ASSUME NEW S, NEW s \in Seq(S), NEW x \in S, NEW K
    PROVE  Selected(Append(s, x), K)
             = IF Len(s) + 1 \in K THEN Append(Selected(s, K), x) ELSE Selected(s, K)
  <1> DEFINE y == IF Len(s) + 1 \in K THEN <<x>> ELSE <<>>
             a == Append(s, x)
             p == Parts(s, K)
             pa == Parts(a, K)
  <1>1. /\ a \in Seq(S) /\ Len(a) = Len(s) + 1 /\ a[Len(s) + 1] = x
        /\ \A k \in 1..Len(s) : a[k] = s[k]
        /\ Len(s) \in Nat
    BY AppendProperties
  <1>2. y \in Seq(S)
    <2>1. <<>> \in Seq(S) /\ <<x>> \in Seq(S)
      OBVIOUS
    <2> QED
      BY <2>1
  <1>3. p \in Seq(Seq(S)) /\ pa \in Seq(Seq(S)) /\ Len(p) = Len(s) /\ Len(pa) = Len(s) + 1
    BY <1>1, PartsTyped
  <1>4. /\ \A k \in 1..Len(s) : p[k] = IF k \in K THEN <<s[k]>> ELSE <<>>
        /\ \A k \in 1..(Len(s) + 1) : pa[k] = IF k \in K THEN <<a[k]>> ELSE <<>>
    BY <1>1 DEF Parts
  <1> HIDE DEF a, p, pa, y
  <1>5. pa[Len(s) + 1] = y
    <2>1. Len(s) + 1 \in 1..(Len(s) + 1)
      BY <1>1
    <2> QED
      BY <1>1, <1>4, <2>1 DEF y
  <1>6. \A k \in 1..Len(s) : pa[k] = p[k]
    <2>1. \A k \in 1..Len(s) : k \in 1..(Len(s) + 1)
      BY <1>1
    <2> QED
      BY <1>1, <1>4, <2>1
  <1>7. pa = Append(p, y)
    <2>1. /\ Append(p, y) \in Seq(Seq(S)) /\ Len(Append(p, y)) = Len(s) + 1
          /\ \A k \in 1..Len(s) : Append(p, y)[k] = p[k]
          /\ Append(p, y)[Len(s) + 1] = y
      BY <1>2, <1>3, AppendProperties
    <2>2. \A k \in 1..Len(pa) : k \in 1..Len(s) \/ k = Len(s) + 1
      BY <1>1, <1>3
    <2>3. \A k \in 1..Len(pa) : pa[k] = Append(p, y)[k]
      BY <1>5, <1>6, <2>1, <2>2
    <2> QED
      BY <1>3, <2>1, <2>3, SeqEqual
  <1>8. FlattenSeq(pa) = FlattenSeq(p) \o y
    BY <1>2, <1>3, <1>7, FlattenAppend
  <1>9. Selected(a, K) = Selected(s, K) \o y
    BY <1>8, SelectedIsFlat DEF p, pa
  <1>10. Selected(s, K) \in Seq(S)
    BY SelectedTyped
  <1>11. Selected(s, K) \o <<x>> = Append(Selected(s, K), x) /\ Selected(s, K) \o <<>> = Selected(s, K)
    BY <1>10, AppendIsConcat, ConcatEmptySeq
  <1> QED
    BY <1>9, <1>11 DEF y, a

(* The positions in K, in order, and nothing else.                         *)
Enumerates(r, s, K, h) ==
    /\ h \in [1..Len(r) -> DOMAIN s \cap K]
    /\ \A n \in 1..Len(r) : r[n] = s[h[n]]
    /\ \A j, n \in 1..Len(r) : j < n => h[j] < h[n]
    /\ \A k \in DOMAIN s \cap K : \E n \in 1..Len(r) : h[n] = k

LEMMA SelectedLists ==
    ASSUME NEW S, NEW s \in Seq(S), NEW K
    PROVE  \E h : Enumerates(Selected(s, K), s, K, h)
  <1> DEFINE T == {x \in Seq(S) : \E h : Enumerates(Selected(x, K), x, K, h)}
  <1>1. <<>> \in T
    <2>1. Enumerates(<<>>, <<>>, K, <<>>)
      BY DEF Enumerates
    <2>2. <<>> \in Seq(S)
      OBVIOUS
    <2> QED
      BY <2>1, <2>2, SelectedEmpty, Zenon
  <1>2. ASSUME NEW x \in Seq(S), NEW y \in S, x \in T
        PROVE  Append(x, y) \in T
    <2> DEFINE a == Append(x, y)
               m == Len(x) + 1
               r == Selected(x, K)
    <2>1. /\ a \in Seq(S) /\ DOMAIN a = 1..m /\ a[m] = y /\ DOMAIN x = 1..Len(x)
          /\ \A k \in 1..Len(x) : a[k] = x[k]
          /\ Len(x) \in Nat /\ m \in Nat
      BY AppendProperties
    <2>2. PICK h : Enumerates(r, x, K, h)
      BY <1>2
    <2>3. r \in Seq(S) /\ Len(r) \in Nat
      BY SelectedTyped
    <2>4. Selected(a, K) = IF m \in K THEN Append(r, y) ELSE r
      BY SelectedAppend
    <2> HIDE DEF a, r
    <2>5. CASE m \notin K
      <3>1. Enumerates(r, a, K, h)
        <4>1. DOMAIN a \cap K = DOMAIN x \cap K
          BY <2>1, <2>5
        <4>2. \A n \in 1..Len(r) : h[n] \in 1..Len(x)
          BY <2>1, <2>2 DEF Enumerates
        <4>3. \A n \in 1..Len(r) : r[n] = a[h[n]]
          BY <2>1, <2>2, <4>2 DEF Enumerates
        <4> QED
          BY <2>2, <4>1, <4>3 DEF Enumerates
      <3> QED
        BY <2>1, <2>4, <2>5, <3>1 DEF a
    <2>6. CASE m \in K
      <3> DEFINE q == Append(r, y)
                 g == [n \in 1..(Len(r) + 1) |-> IF n = Len(r) + 1 THEN m ELSE h[n]]
      <3>1. /\ q \in Seq(S) /\ Len(q) = Len(r) + 1 /\ q[Len(r) + 1] = y
            /\ \A n \in 1..Len(r) : q[n] = r[n]
        BY <2>3, AppendProperties
      <3>2. \A n \in 1..(Len(r) + 1) : n \in 1..Len(r) \/ n = Len(r) + 1
        BY <2>3
      <3>3. \A n \in 1..Len(r) : h[n] \in 1..Len(x) /\ h[n] \in K /\ r[n] = x[h[n]]
        BY <2>1, <2>2 DEF Enumerates
      <3>4. /\ g \in [1..(Len(r) + 1) -> Nat] /\ g[Len(r) + 1] = m
            /\ \A n \in 1..Len(r) : g[n] = h[n] /\ n \in 1..(Len(r) + 1)
            /\ Len(r) + 1 \in 1..(Len(r) + 1)
        BY <2>1, <2>3, <3>2, <3>3
      <3> HIDE DEF g, q
      <3>5. \A n \in 1..(Len(r) + 1) : g[n] \in 1..m /\ g[n] \in K /\ q[n] = a[g[n]]
        BY <2>1, <2>6, <3>1, <3>2, <3>3, <3>4
      <3>6. ASSUME NEW j \in 1..(Len(r) + 1), NEW n \in 1..(Len(r) + 1), j < n
            PROVE  g[j] < g[n]
        <4>1. j \in 1..Len(r)
          BY <2>3, <3>6
        <4>2. CASE n \in 1..Len(r)
          <5>1. h[j] < h[n]
            BY <2>2, <3>6, <4>1, <4>2 DEF Enumerates
          <5> QED
            BY <3>4, <4>1, <4>2, <5>1
        <4>3. CASE n = Len(r) + 1
          <5>1. g[j] \in 1..Len(x) /\ g[n] = m
            BY <3>3, <3>4, <4>1, <4>3
          <5> QED
            BY <2>1, <5>1
        <4> QED
          BY <3>2, <4>2, <4>3
      <3>7. ASSUME NEW k \in (1..m) \cap K
            PROVE  \E n \in 1..(Len(r) + 1) : g[n] = k
        <4>1. CASE k = m
          BY <3>4, <4>1
        <4>2. CASE k # m
          <5>1. k \in DOMAIN x \cap K
            BY <2>1, <4>2
          <5>2. PICK n \in 1..Len(r) : h[n] = k
            BY <2>2, <5>1 DEF Enumerates
          <5> QED
            BY <3>4, <5>2
        <4> QED
          BY <4>1, <4>2
      <3>8. g \in [1..Len(q) -> DOMAIN a \cap K]
        <4>1. \A n \in 1..(Len(r) + 1) : g[n] \in (1..m) \cap K
          BY <3>5
        <4> QED
          BY <2>1, <3>1, <3>4, <4>1
      <3>9. Enumerates(q, a, K, g)
        BY <2>1, <3>1, <3>5, <3>6, <3>7, <3>8 DEF Enumerates
      <3> QED
        BY <2>1, <2>4, <2>6, <3>9 DEF a, q
    <2> QED
      BY <2>5, <2>6
  <1> HIDE DEF T
  <1>3. Seq(S) \subseteq T
    BY <1>1, <1>2, SeqInduction
  <1> QED
    BY <1>3 DEF T

LEMMA SelectedConcat ==
    ASSUME NEW S, NEW a \in Seq(S), NEW b \in Seq(S), NEW K, NEW L,
           \A k \in 1..Len(b) : k \in L <=> Len(a) + k \in K
    PROVE  Selected(a \o b, K) = Selected(a, K) \o Selected(b, L)
  <1> DEFINE c == a \o b
             p == Parts(a, K)
             q == Parts(b, L)
             r == Parts(c, K)
  <1>1. /\ c \in Seq(S) /\ Len(c) = Len(a) + Len(b)
        /\ \A k \in 1..Len(a) : c[k] = a[k]
        /\ \A k \in 1..Len(b) : c[Len(a) + k] = b[k]
        /\ Len(a) \in Nat /\ Len(b) \in Nat
    OBVIOUS
  <1>2. /\ p \in Seq(Seq(S)) /\ q \in Seq(Seq(S)) /\ r \in Seq(Seq(S))
        /\ Len(p) = Len(a) /\ Len(q) = Len(b) /\ Len(r) = Len(a) + Len(b)
    <2> HIDE DEF c
    <2> QED
      BY <1>1, PartsTyped
  <1>3. /\ \A k \in 1..Len(a) : p[k] = IF k \in K THEN <<a[k]>> ELSE <<>>
        /\ \A k \in 1..Len(b) : q[k] = IF k \in L THEN <<b[k]>> ELSE <<>>
        /\ \A k \in 1..(Len(a) + Len(b)) : r[k] = IF k \in K THEN <<c[k]>> ELSE <<>>
    <2> HIDE DEF c
    <2> QED
      BY <1>1 DEF Parts
  <1> HIDE DEF c, p, q, r
  <1>4. \A k \in 1..Len(a) : r[k] = p[k]
    <2>1. \A k \in 1..Len(a) : k \in 1..(Len(a) + Len(b))
      BY <1>1
    <2> QED
      BY <1>1, <1>3, <2>1
  <1>5. \A k \in 1..Len(b) : r[Len(a) + k] = q[k]
    <2>1. \A k \in 1..Len(b) : Len(a) + k \in 1..(Len(a) + Len(b))
      BY <1>1
    <2> QED
      BY <1>1, <1>3, <2>1, ZenonT(60), SMTT(30)
  <1>6. r = p \o q
    <2> DEFINE U == Seq(S)
    <2>1. /\ p \in Seq(U) /\ q \in Seq(U) /\ r \in Seq(U) /\ Len(r) = Len(p) + Len(q)
          /\ \A k \in 1..Len(p) : r[k] = p[k]
          /\ \A k \in 1..Len(q) : r[Len(p) + k] = q[k]
      BY <1>2, <1>4, <1>5
    <2> HIDE DEF U
    <2> QED
      BY <2>1, ConcatEqual
  <1>7. FlattenSeq(r) = FlattenSeq(p) \o FlattenSeq(q)
    BY <1>2, <1>6, FlattenConcat
  <1> QED
    BY <1>7, SelectedIsFlat DEF c, p, q, r

LEMMA SelectedNone ==
    ASSUME NEW S, NEW s \in Seq(S), NEW K, \A k \in 1..Len(s) : k \notin K
    PROVE  Selected(s, K) = <<>>
  <1>1. PICK h : Enumerates(Selected(s, K), s, K, h)
    BY SelectedLists
  <1>2. Selected(s, K) \in Seq(S)
    BY SelectedTyped
  <1> DEFINE r == Selected(s, K)
  <1> HIDE DEF r
  <1>3. \A n \in 1..Len(r) : h[n] \in 1..Len(s) /\ h[n] \in K
    BY <1>1 DEF Enumerates, r
  <1>4. \A n \in 1..Len(r) : FALSE
    BY <1>3
  <1>5. r \in Seq(S) /\ (r = <<>> <=> ~(1 \in 1..Len(r)))
    BY <1>2 DEF r
  <1> QED
    BY <1>4, <1>5 DEF r

LEMMA SelectedOne ==
    ASSUME NEW S, NEW s \in Seq(S), NEW K, NEW i \in 1..Len(s),
           \A k \in 1..Len(s) : k \in K <=> k = i
    PROVE  Selected(s, K) = <<s[i]>>
  <1> DEFINE r == Selected(s, K)
  <1>1. PICK h : Enumerates(r, s, K, h)
    BY SelectedLists
  <1>2. r \in Seq(S) /\ DOMAIN s = 1..Len(s) /\ s[i] \in S
    BY SelectedTyped
  <1> HIDE DEF r
  <1>3. /\ \A n \in 1..Len(r) : h[n] = i /\ r[n] = s[i]
        /\ \A j, n \in 1..Len(r) : j < n => h[j] < h[n]
        /\ \E n \in 1..Len(r) : h[n] = i
    BY <1>1, <1>2 DEF Enumerates
  <1>4. Len(r) \in Nat /\ i \in Int
    BY <1>2
  <1>5. ~(Len(r) > 1)
    <2> SUFFICES ASSUME Len(r) > 1 PROVE FALSE
      OBVIOUS
    <2>1. 1 \in 1..Len(r) /\ 2 \in 1..Len(r) /\ 1 < 2
      BY <1>4
    <2>2. h[1] < h[2] /\ h[1] = i /\ h[2] = i
      BY <1>3, <2>1
    <2> QED
      BY <1>4, <2>2
  <1>6. Len(r) = 1 /\ 1 \in 1..Len(r)
    <2>1. PICK n \in 1..Len(r) : h[n] = i
      BY <1>3
    <2> DEFINE m == Len(r)
    <2>2. m \in Nat /\ m >= 1 /\ ~(m > 1)
      BY <1>4, <1>5, <2>1
    <2> HIDE DEF m
    <2>3. m = 1 /\ 1 \in 1..m
      BY <2>2
    <2> QED
      BY <2>3 DEF m
  <1>7. r[1] = s[i]
    BY <1>3, <1>6
  <1>8. r = <<s[i]>>
    <2>1. <<s[i]>> \in Seq(S) /\ Len(<<s[i]>>) = 1 /\ <<s[i]>>[1] = s[i]
      BY <1>2
    <2>2. \A k \in 1..Len(r) : k = 1
      BY <1>6
    <2> QED
      BY <1>2, <1>6, <1>7, <2>1, <2>2, SeqEqual
  <1> QED
    BY <1>8 DEF r

LEMMA SelectedAll ==
    ASSUME NEW S, NEW s \in Seq(S), NEW K, \A k \in 1..Len(s) : k \in K
    PROVE  Selected(s, K) = s
  <1> DEFINE T == {x \in Seq(S) : (1..Len(x)) \subseteq K => Selected(x, K) = x}
  <1>1. <<>> \in T
    BY SelectedEmpty
  <1>2. ASSUME NEW x \in Seq(S), NEW y \in S, x \in T
        PROVE  Append(x, y) \in T
    <2>1. Append(x, y) \in Seq(S) /\ Len(Append(x, y)) = Len(x) + 1 /\ Len(x) \in Nat
      BY AppendProperties
    <2>2. Selected(Append(x, y), K)
            = IF Len(x) + 1 \in K THEN Append(Selected(x, K), y) ELSE Selected(x, K)
      BY SelectedAppend
    <2>3. (1..Len(x)) \subseteq K => Selected(x, K) = x
      BY <1>2
    <2>4. ASSUME (1..(Len(x) + 1)) \subseteq K
          PROVE  (1..Len(x)) \subseteq K /\ Len(x) + 1 \in K
      <3>1. \A k \in 1..Len(x) : k \in 1..(Len(x) + 1)
        BY <2>1
      <3>2. Len(x) + 1 \in 1..(Len(x) + 1)
        BY <2>1
      <3> QED
        BY <2>4, <3>1, <3>2
    <2> QED
      BY <2>1, <2>2, <2>3, <2>4
  <1> HIDE DEF T
  <1>3. Seq(S) \subseteq T
    BY <1>1, <1>2, SeqInduction
  <1> QED
    BY <1>3 DEF T

(***************************************************************************)
(* Sorting what is sorted.                                                 *)
(***************************************************************************)
LEMMA SortedStays ==
    ASSUME NEW S, NEW s \in Seq(S), NEW key \in [1..Len(s) -> Int],
           \A j, k \in 1..Len(s) : j < k => key[j] <= key[k]
    PROVE  SortedBy(s, key) = s
  <1> DEFINE before(k) == {j \in DOMAIN s : \/ key[j] < key[k]
                                            \/ key[j] = key[k] /\ j < k}
  <1>1. DOMAIN s = 1..Len(s) /\ Len(s) \in Nat
    OBVIOUS
  <1>2. ASSUME NEW k \in 1..Len(s)
        PROVE  Cardinality(before(k)) = k - 1
    <2>1. before(k) = 1..(k - 1)
      <3>1. \A j \in 1..Len(s) : j < k \/ j = k \/ k < j
        OBVIOUS
      <3>2. \A j \in 1..Len(s) : key[j] \in Int
        OBVIOUS
      <3>3. ASSUME NEW j \in 1..Len(s), k < j
            PROVE  ~(key[j] < key[k]) /\ ~(key[j] = key[k] /\ j < k)
        BY <3>2, <3>3
      <3>4. ASSUME NEW j \in 1..Len(s), j < k
            PROVE  key[j] < key[k] \/ (key[j] = key[k] /\ j < k)
        BY <3>2, <3>4
      <3>5. \A j \in 1..Len(s) :
               (key[j] < key[k] \/ (key[j] = key[k] /\ j < k)) <=> j < k
        BY <3>1, <3>2, <3>3, <3>4
      <3>6. 1..(k - 1) = {j \in 1..Len(s) : j < k}
        BY <1>1
      <3>7. before(k) = {j \in 1..Len(s) : j < k}
        BY <1>1, <3>5
      <3> QED
        BY <3>6, <3>7
    <2>2. Cardinality(1..(k - 1)) = k - 1
      <3>1. 1 \in Int /\ k - 1 \in Int /\ (IF 1 > k - 1 THEN 0 ELSE (k - 1) - 1 + 1) = k - 1
        BY <1>1
      <3> QED
        BY <3>1, FS_Interval
    <2> QED
      BY <2>1, <2>2
  <1> HIDE DEF before
  <1>3. ASSUME NEW n \in 1..Len(s)
        PROVE  (CHOOSE k \in DOMAIN s : Cardinality(before(k)) = n - 1) = n
    <2>1. \A k \in DOMAIN s : Cardinality(before(k)) = n - 1 <=> k = n
      BY <1>1, <1>2
    <2> QED
      BY <1>1, <2>1
  <1>4. SortedBy(s, key)
          = [n \in DOMAIN s |-> s[CHOOSE k \in DOMAIN s : Cardinality(before(k)) = n - 1]]
    BY DEF SortedBy, before
  <1>5. SortedBy(s, key) = [n \in 1..Len(s) |-> s[n]]
    BY <1>1, <1>3, <1>4
  <1> QED
    BY <1>5

(***************************************************************************)
(* Flattening what is mostly empty.                                        *)
(***************************************************************************)
LEMMA FlattenNone ==
    ASSUME NEW S, NEW ss \in Seq(Seq(S)), \A k \in 1..Len(ss) : ss[k] = <<>>
    PROVE  FlattenSeq(ss) = <<>>
  <1> DEFINE U == Seq(S)
             T == {x \in Seq(U) : (\A k \in 1..Len(x) : x[k] = <<>>) => FlattenSeq(x) = <<>>}
  <1>1. <<>> \in T
    BY FlattenEmpty
  <1>2. ASSUME NEW x \in Seq(U), NEW s \in U, x \in T
        PROVE  Append(x, s) \in T
    <2>1. /\ Append(x, s) \in Seq(U) /\ Len(Append(x, s)) = Len(x) + 1 /\ Len(x) \in Nat
          /\ \A k \in 1..Len(x) : Append(x, s)[k] = x[k]
          /\ Append(x, s)[Len(x) + 1] = s
      <3> HIDE DEF U
      <3> QED
        BY <1>2, AppendProperties
    <2>2. FlattenSeq(Append(x, s)) = FlattenSeq(x) \o s
      BY FlattenAppend
    <2> HIDE DEF U
    <2>3. ASSUME \A k \in 1..Len(Append(x, s)) : Append(x, s)[k] = <<>>
          PROVE  FlattenSeq(Append(x, s)) = <<>>
      <3>1. \A k \in 1..Len(x) : k \in 1..(Len(x) + 1)
        BY <2>1
      <3>2. Len(x) + 1 \in 1..(Len(x) + 1)
        BY <2>1
      <3>3. \A k \in 1..Len(x) : x[k] = <<>>
        BY <2>1, <2>3, <3>1
      <3>4. s = <<>>
        BY <2>1, <2>3, <3>2
      <3>5. FlattenSeq(x) = <<>>
        BY <1>2, <3>3
      <3>6. <<>> \o <<>> = <<>>
        OBVIOUS
      <3> QED
        BY <2>2, <3>4, <3>5, <3>6
    <2> QED
      BY <2>1, <2>3
  <1> HIDE DEF T, U
  <1>3. Seq(U) \subseteq T
    BY <1>1, <1>2, SeqInduction
  <1> QED
    BY <1>3 DEF T, U

LEMMA FlattenSplit ==
    ASSUME NEW S, NEW ss \in Seq(Seq(S)), NEW i \in 1..Len(ss)
    PROVE  /\ SubSeq(ss, 1, i - 1) \in Seq(Seq(S)) /\ SubSeq(ss, i + 1, Len(ss)) \in Seq(Seq(S))
           /\ FlattenSeq(ss) = (FlattenSeq(SubSeq(ss, 1, i - 1)) \o ss[i])
                                  \o FlattenSeq(SubSeq(ss, i + 1, Len(ss)))
  <1> DEFINE U == Seq(S)
             p == SubSeq(ss, 1, i)
             q == SubSeq(ss, i + 1, Len(ss))
  <1>1. ss \in Seq(U) /\ Len(ss) \in Nat /\ i \in Nat /\ i >= 1 /\ i <= Len(ss)
    OBVIOUS
  <1> HIDE DEF U
  <1>2. /\ q \in Seq(U) /\ Len(q) = Len(ss) - i
        /\ \A k \in 1..Len(q) : q[k] = ss[i + k]
    BY <1>1
  <1>3. p \in Seq(U) /\ Len(p) = i /\ (\A k \in 1..i : p[k] = ss[k])
        /\ p = Append(SubSeq(ss, 1, i - 1), ss[i])
        /\ SubSeq(ss, 1, i - 1) \in Seq(U)
    <2>1. i \in 0..Len(ss) /\ i - 1 \in 0..Len(ss) /\ i > 0
      BY <1>1
    <2> QED
      BY <1>1, <2>1, PrefixIs
  <1>4. ss = p \o q
    <2> HIDE DEF p, q
    <2>1. Len(ss) = Len(p) + Len(q)
      BY <1>1, <1>2, <1>3
    <2>2. \A k \in 1..Len(p) : ss[k] = p[k]
      BY <1>3
    <2>3. \A k \in 1..Len(q) : ss[Len(p) + k] = q[k]
      BY <1>2, <1>3
    <2> QED
      BY <1>1, <1>2, <1>3, <2>1, <2>2, <2>3, ConcatEqual
  <1> DEFINE r == SubSeq(ss, 1, i - 1)
             s == ss[i]
  <1>5. r \in Seq(U) /\ s \in U /\ p = Append(r, s)
    BY <1>1, <1>3
  <1> HIDE DEF p, q, r, s
  <1>6. FlattenSeq(p \o q) = FlattenSeq(p) \o FlattenSeq(q)
    BY <1>2, <1>3, FlattenConcat DEF U
  <1>7. FlattenSeq(p) = FlattenSeq(r) \o s
    BY <1>5, FlattenAppend DEF U
  <1> QED
    BY <1>2, <1>4, <1>5, <1>6, <1>7 DEF q, r, s, U

LEMMA FlattenOnly ==
    ASSUME NEW S, NEW ss \in Seq(Seq(S)), NEW i \in 1..Len(ss),
           \A k \in 1..Len(ss) : k # i => ss[k] = <<>>
    PROVE  FlattenSeq(ss) = ss[i]
  <1> DEFINE U == Seq(S)
             p == SubSeq(ss, 1, i - 1)
             q == SubSeq(ss, i + 1, Len(ss))
             s == ss[i]
  <1>1. /\ p \in Seq(U) /\ q \in Seq(U)
        /\ FlattenSeq(ss) = (FlattenSeq(p) \o s) \o FlattenSeq(q)
    BY FlattenSplit
  <1>2. s \in Seq(S)
    OBVIOUS
  <1>3. /\ Len(ss) \in Nat /\ i \in Nat /\ i >= 1 /\ i <= Len(ss)
        /\ Len(p) = i - 1 /\ Len(q) = Len(ss) - i
        /\ \A k \in 1..Len(p) : p[k] = ss[k]
        /\ \A k \in 1..Len(q) : q[k] = ss[i + k]
    <2>1. ss \in Seq(U)
      OBVIOUS
    <2> HIDE DEF U
    <2>2. Len(ss) \in Nat /\ i \in Nat /\ i >= 1 /\ i <= Len(ss)
      BY <2>1
    <2> QED
      BY <2>1, <2>2
  <1>4. \A k \in 1..Len(p) : p[k] = <<>>
    <2>1. \A k \in 1..Len(p) : k \in 1..Len(ss) /\ k # i
      BY <1>3
    <2> QED
      BY <1>3, <2>1
  <1>5. \A k \in 1..Len(q) : q[k] = <<>>
    <2>1. \A k \in 1..Len(q) : i + k \in 1..Len(ss) /\ i + k # i
      BY <1>3
    <2> QED
      BY <1>3, <2>1
  <1> HIDE DEF p, q, s
  <1>6. FlattenSeq(p) = <<>> /\ FlattenSeq(q) = <<>>
    BY <1>1, <1>4, <1>5, FlattenNone DEF U
  <1>7. (<<>> \o s) \o <<>> = s
    BY <1>2, ConcatEmptySeq
  <1> QED
    BY <1>1, <1>6, <1>7 DEF s

(* What is selected, and the positions it is selected from.                *)
LEMMA SelectedIndex ==
    ASSUME NEW S, NEW s \in Seq(S), NEW K
    PROVE  LET r == Selected([k \in DOMAIN s |-> k], K)
           IN  /\ r \in Seq(Nat) /\ Len(Selected(s, K)) = Len(r)
               /\ \A n \in 1..Len(r) : r[n] \in 1..Len(s) /\ Selected(s, K)[n] = s[r[n]]
  <1> DEFINE At(x) == [k \in DOMAIN x |-> k]
             Good(x, r) == /\ r \in Seq(Nat) /\ Len(Selected(x, K)) = Len(r)
                           /\ \A n \in 1..Len(r) :
                                r[n] \in 1..Len(x) /\ Selected(x, K)[n] = x[r[n]]
             T == {x \in Seq(S) : Good(x, Selected(At(x), K))}
  <1>1. <<>> \in T
    <2> DEFINE e == <<>>
    <2>1. e \in Seq(S) /\ e \in Seq(Nat) /\ Len(e) = 0 /\ At(e) = e
      OBVIOUS
    <2>2. Selected(e, K) = e
      BY SelectedEmpty
    <2> HIDE DEF e
    <2>3. Good(e, e)
      BY <2>1, <2>2
    <2> QED
      BY <2>1, <2>2, <2>3, ZenonT(60), SMTT(30) DEF e
  <1>2. ASSUME NEW x \in Seq(S), NEW y \in S, x \in T
        PROVE  Append(x, y) \in T
    <2> DEFINE a == Append(x, y)
               m == Len(x) + 1
               r == Selected(At(x), K)
               w == Selected(x, K)
    <2>1. /\ a \in Seq(S) /\ Len(a) = m /\ a[m] = y /\ Len(x) \in Nat
          /\ \A k \in 1..Len(x) : a[k] = x[k]
      BY AppendProperties
    <2>2. At(x) \in Seq(Nat) /\ Len(At(x)) = Len(x) /\ \A k \in 1..Len(x) : At(x)[k] = k
      OBVIOUS
    <2>3. At(a) = Append(At(x), m)
      <3> DEFINE p == At(x)
                 q == At(a)
      <3>1. p \in Seq(Nat) /\ Len(p) = Len(x) /\ \A k \in 1..Len(x) : p[k] = k
        BY <2>2
      <3>2. q \in Seq(Nat) /\ Len(q) = m /\ \A k \in 1..m : q[k] = k
        BY <2>1
      <3>3. m \in Nat
        BY <2>1
      <3> HIDE DEF p, q, m
      <3>4. /\ Append(p, m) \in Seq(Nat) /\ Len(Append(p, m)) = Len(x) + 1
            /\ Append(p, m)[Len(x) + 1] = m /\ \A k \in 1..Len(x) : Append(p, m)[k] = k
        BY <3>1, <3>3, AppendProperties
      <3>5. Len(x) \in Nat /\ m = Len(x) + 1
        BY <2>1 DEF m
      <3>6. \A k \in 1..m : k \in 1..Len(x) \/ k = m
        BY <3>5
      <3>7. \A k \in 1..m : q[k] = Append(p, m)[k]
        BY <3>2, <3>4, <3>5, <3>6
      <3>8. q = Append(p, m)
        BY <3>2, <3>4, <3>5, <3>7, SeqEqual
      <3> QED
        BY <3>8 DEF p, q
    <2>4. Good(x, r)
      BY <1>2
    <2>5. w \in Seq(S) /\ r \in Seq(Nat)
      BY <2>2, SelectedTyped
    <2>6. Selected(a, K) = IF m \in K THEN Append(w, y) ELSE w
      BY SelectedAppend
    <2>7. Selected(At(a), K) = IF m \in K THEN Append(r, m) ELSE r
      <3> DEFINE p == At(x)
      <3>1. p \in Seq(Nat) /\ Len(p) + 1 = m /\ m \in Nat
        BY <2>1, <2>2
      <3> HIDE DEF p, m
      <3>2. Selected(Append(p, m), K) = IF Len(p) + 1 \in K THEN Append(Selected(p, K), m)
                                        ELSE Selected(p, K)
        BY <3>1, SelectedAppend, SMTT(30), ZenonT(60)
      <3> QED
        BY <2>3, <3>1, <3>2 DEF p
    <2> HIDE DEF a, r, w, At
    <2>8. /\ Len(w) = Len(r)
          /\ \A n \in 1..Len(r) : r[n] \in 1..Len(x) /\ w[n] = x[r[n]]
      BY <2>4 DEF w
    <2>9. CASE m \notin K
      <3>1. \A n \in 1..Len(r) : r[n] \in 1..m /\ w[n] = a[r[n]]
        BY <2>1, <2>8, SMTT(30), ZenonT(60)
      <3> QED
        BY <2>1, <2>5, <2>6, <2>7, <2>8, <2>9, <3>1 DEF a
    <2>10. CASE m \in K
      <3> DEFINE v == Append(w, y)
                 q == Append(r, m)
                 N == Len(r)
      <3>1. N \in Nat /\ m \in Nat
        BY <2>1, <2>5
      <3>2. /\ q \in Seq(Nat) /\ Len(q) = N + 1 /\ q[N + 1] = m
            /\ \A n \in 1..N : q[n] = r[n]
        BY <2>5, <3>1, AppendProperties
      <3>3. Len(v) = N + 1 /\ v[N + 1] = y /\ \A n \in 1..N : v[n] = w[n]
        BY <2>5, <2>8, AppendProperties
      <3> HIDE DEF v, q, N
      <3>4. \A n \in 1..(N + 1) : n \in 1..N \/ n = N + 1
        BY <3>1
      <3>5. ASSUME NEW n \in 1..(N + 1) PROVE q[n] \in 1..m /\ v[n] = a[q[n]]
        <4>1. CASE n \in 1..N
          <5>1. q[n] = r[n] /\ r[n] \in 1..Len(x) /\ v[n] = x[r[n]]
            BY <2>8, <3>2, <3>3, <4>1 DEF N
          <5> QED
            BY <2>1, <5>1
        <4>2. CASE n = N + 1
          BY <2>1, <3>1, <3>2, <3>3, <4>2
        <4> QED
          BY <3>4, <4>1, <4>2
      <3>6. Selected(a, K) = v /\ Selected(At(a), K) = q
        BY <2>6, <2>7, <2>10 DEF v, q
      <3>7. Good(a, q)
        BY <2>1, <3>2, <3>3, <3>5, <3>6
      <3> QED
        BY <2>1, <3>6, <3>7 DEF a
    <2> QED
      BY <2>9, <2>10
  <1> HIDE DEF T
  <1>3. Seq(S) \subseteq T
    BY <1>1, <1>2, SeqInduction
  <1>4. s \in T
    BY <1>3
  <1> QED
    BY <1>4 DEF T, Good, At
=============================================================================
