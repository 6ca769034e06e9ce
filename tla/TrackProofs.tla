--------------------------- MODULE TrackProofs -----------------------------
(***************************************************************************)
(* What TrackRun computes, for runs and files of every length: durations   *)
(* and sizes add up over concatenations and prefixes, box positions are    *)
(* those sums, and a packed run of samples reads back.                     *)
(***************************************************************************)
EXTENDS TrackCenc, ListProofs

(***************************************************************************)
(* Sums over one field of a sequence of records.                           *)
(***************************************************************************)
Fields(q, field) == [k \in DOMAIN q |-> q[k][field]]

LEMMA SumsOfFields ==
    ASSUME NEW q
    PROVE  /\ Ticks(q) = Total(Fields(q, "duration"))
           /\ Bytes(q) = Total(Fields(q, "size"))
           /\ EndOf(q) = Total(Fields(q, "size"))
  BY DEF Ticks, Bytes, EndOf, BoxSize, SumOf, Fields

LEMMA FieldsTyped ==
    ASSUME NEW S, NEW q \in Seq(S), NEW field, NEW V,
           \A k \in 1..Len(q) : q[k][field] \in V
    PROVE  /\ Fields(q, field) \in Seq(V) /\ Len(Fields(q, field)) = Len(q)
           /\ \A k \in 1..Len(q) : Fields(q, field)[k] = q[k][field]
  <1>1. DOMAIN q = 1..Len(q) /\ Len(q) \in Nat
    OBVIOUS
  <1> QED
    BY <1>1 DEF Fields

LEMMA FieldsConcat ==
    ASSUME NEW S, NEW p \in Seq(S), NEW q \in Seq(S), NEW field
    PROVE  Fields(p \o q, field) = Fields(p, field) \o Fields(q, field)
  <1> DEFINE V == {x[field] : x \in S}
             c == p \o q
             a == Fields(p, field)
             b == Fields(q, field)
             r == Fields(c, field)
  <1>1. /\ c \in Seq(S) /\ Len(c) = Len(p) + Len(q)
        /\ \A k \in 1..Len(p) : c[k] = p[k]
        /\ \A k \in 1..Len(q) : c[Len(p) + k] = q[k]
        /\ Len(p) \in Nat /\ Len(q) \in Nat
    OBVIOUS
  <1>a. /\ \A k \in 1..Len(p) : p[k][field] \in V
        /\ \A k \in 1..Len(q) : q[k][field] \in V
    OBVIOUS
  <1> HIDE DEF c, V
  <1>2. /\ a \in Seq(V) /\ Len(a) = Len(p) /\ \A k \in 1..Len(p) : a[k] = p[k][field]
        /\ b \in Seq(V) /\ Len(b) = Len(q) /\ \A k \in 1..Len(q) : b[k] = q[k][field]
    BY <1>a, FieldsTyped
  <1>3. \A k \in 1..Len(c) : c[k][field] \in V
    <2> SUFFICES ASSUME NEW k \in 1..Len(c) PROVE c[k][field] \in V
      OBVIOUS
    <2>1. CASE k <= Len(p)
      BY <1>1, <1>a, <2>1
    <2>2. CASE ~(k <= Len(p))
      <3>1. k - Len(p) \in 1..Len(q) /\ Len(p) + (k - Len(p)) = k
        BY <1>1, <2>2
      <3>2. c[Len(p) + (k - Len(p))] = q[k - Len(p)]
        BY <1>1, <3>1
      <3> QED
        BY <1>a, <3>1, <3>2
    <2> QED
      BY <2>1, <2>2
  <1>4. r \in Seq(V) /\ Len(r) = Len(p) + Len(q) /\ \A k \in 1..(Len(p) + Len(q)) : r[k] = c[k][field]
    <2>1. c \in Seq(S)
      BY <1>1
    <2>2. r \in Seq(V) /\ Len(r) = Len(c) /\ \A k \in 1..Len(c) : r[k] = c[k][field]
      BY <1>3, <2>1, FieldsTyped
    <2> QED
      BY <1>1, <2>2
  <1> HIDE DEF a, b, r
  <1>5. ASSUME NEW k \in 1..Len(a) PROVE r[k] = a[k]
    <2>1. k \in 1..(Len(p) + Len(q)) /\ k \in 1..Len(p)
      BY <1>1, <1>2
    <2> QED
      BY <1>1, <1>2, <1>4, <2>1
  <1>6. ASSUME NEW k \in 1..Len(b) PROVE r[Len(a) + k] = b[k]
    <2>1. Len(p) + k \in 1..(Len(p) + Len(q)) /\ k \in 1..Len(q)
      BY <1>1, <1>2
    <2>2. r[Len(p) + k] = c[Len(p) + k][field]
      BY <1>4, <2>1
    <2>3. c[Len(p) + k] = q[k] /\ b[k] = q[k][field]
      BY <1>1, <1>2, <2>1
    <2> QED
      BY <1>2, <2>2, <2>3, Zenon
  <1>7. Len(r) = Len(a) + Len(b)
    BY <1>2, <1>4
  <1>8. a \in Seq(V) /\ b \in Seq(V) /\ r \in Seq(V)
    BY <1>2, <1>4
  <1>9. r = a \o b
    BY <1>5, <1>6, <1>7, <1>8, ConcatEqual
  <1> QED
    BY <1>9 DEF a, b, r, c

LEMMA FieldsPrefix ==
    ASSUME NEW S, NEW q \in Seq(S), NEW field, NEW n \in 0..Len(q)
    PROVE  Fields(SubSeq(q, 1, n), field) = SubSeq(Fields(q, field), 1, n)
  <1> DEFINE V == {x[field] : x \in S}
             p == SubSeq(q, 1, n)
             a == Fields(q, field)
             b == Fields(p, field)
             c == SubSeq(a, 1, n)
  <1>1. p \in Seq(S) /\ Len(p) = n /\ \A k \in 1..n : p[k] = q[k]
    BY PrefixIs
  <1>a. \A k \in 1..Len(q) : q[k][field] \in V
    OBVIOUS
  <1> HIDE DEF p, V
  <1>2. a \in Seq(V) /\ Len(a) = Len(q) /\ \A k \in 1..Len(q) : a[k] = q[k][field]
    BY <1>a, FieldsTyped
  <1>3. \A k \in 1..n : k \in 1..Len(q)
    OBVIOUS
  <1>4. b \in Seq(V) /\ Len(b) = n /\ \A k \in 1..n : b[k] = p[k][field]
    <2>1. \A k \in 1..Len(p) : p[k][field] \in V
      BY <1>1, <1>3, <1>a
    <2> QED
      BY <1>1, <2>1, FieldsTyped, SMTT(30), ZenonT(60)
  <1> HIDE DEF a, b
  <1>5. c \in Seq(V) /\ Len(c) = n /\ \A k \in 1..n : c[k] = a[k]
    BY <1>2, PrefixIs
  <1> HIDE DEF c
  <1>6. \A k \in 1..Len(b) : b[k] = c[k]
    BY <1>1, <1>2, <1>3, <1>4, <1>5
  <1>7. b = c
    BY <1>4, <1>5, <1>6, SeqEqual
  <1> QED
    BY <1>7 DEF a, b, c, p

(* Durations and sizes of runs.                                            *)
Timed(q) == /\ \E S : q \in Seq(S)
            /\ \A k \in 1..Len(q) : q[k].duration \in Nat /\ q[k].size \in Nat

LEMMA TimedSums ==
    ASSUME NEW q, Timed(q)
    PROVE  /\ Ticks(q) \in Nat /\ Bytes(q) \in Nat
           /\ \A n \in 0..Len(q) : /\ Ticks(SubSeq(q, 1, n)) \in Nat
                                    /\ Bytes(SubSeq(q, 1, n)) \in Nat
           /\ \A n \in 1..Len(q) : \A j \in 0..(n - 1) :
                Bytes(SubSeq(q, 1, j)) + q[n].size <= Bytes(SubSeq(q, 1, n))
           /\ \A n \in 1..Len(q) :
                /\ Bytes(SubSeq(q, 1, n)) = Bytes(SubSeq(q, 1, n - 1)) + q[n].size
                /\ Ticks(SubSeq(q, 1, n)) = Ticks(SubSeq(q, 1, n - 1)) + q[n].duration
  <1>1. PICK S : q \in Seq(S)
    BY DEF Timed
  <1> DEFINE d == Fields(q, "duration")
             s == Fields(q, "size")
  <1>2. /\ \A k \in 1..Len(q) : q[k]["duration"] \in Nat
        /\ \A k \in 1..Len(q) : q[k]["size"] \in Nat
    BY DEF Timed
  <1>3. /\ d \in Seq(Nat) /\ Len(d) = Len(q) /\ \A k \in 1..Len(q) : d[k] = q[k].duration
        /\ s \in Seq(Nat) /\ Len(s) = Len(q) /\ \A k \in 1..Len(q) : s[k] = q[k].size
    BY <1>1, <1>2, FieldsTyped, ZenonT(60), SMTT(30)
  <1>4. ASSUME NEW n \in 0..Len(q)
        PROVE  /\ Ticks(SubSeq(q, 1, n)) = Total(SubSeq(d, 1, n))
               /\ Bytes(SubSeq(q, 1, n)) = Total(SubSeq(s, 1, n))
    <2>1. /\ Fields(SubSeq(q, 1, n), "duration") = SubSeq(d, 1, n)
          /\ Fields(SubSeq(q, 1, n), "size") = SubSeq(s, 1, n)
      BY <1>1, FieldsPrefix
    <2> QED
      BY <2>1, SumsOfFields, Zenon
  <1>5. Ticks(q) = Total(d) /\ Bytes(q) = Total(s)
    BY SumsOfFields
  <1> HIDE DEF d, s
  <1>6. Total(d) \in Nat /\ Total(s) \in Nat
    BY <1>3, TotalNat
  <1>7. \A n \in 0..Len(q) : Total(SubSeq(d, 1, n)) \in Nat /\ Total(SubSeq(s, 1, n)) \in Nat
    BY <1>3, TotalPrefixNat
  <1>8. ASSUME NEW n \in 1..Len(q), NEW j \in 0..(n - 1)
        PROVE  Bytes(SubSeq(q, 1, j)) + q[n].size <= Bytes(SubSeq(q, 1, n))
    <2>1. j \in 0..Len(q) /\ n \in 0..Len(q)
      BY <1>1
    <2>2. Total(SubSeq(s, 1, j)) + s[n] <= Total(SubSeq(s, 1, n))
      BY <1>3, TotalGrows
    <2> QED
      BY <1>3, <1>4, <2>1, <2>2
  <1>9. ASSUME NEW n \in 1..Len(q)
        PROVE  /\ Bytes(SubSeq(q, 1, n)) = Bytes(SubSeq(q, 1, n - 1)) + q[n].size
               /\ Ticks(SubSeq(q, 1, n)) = Ticks(SubSeq(q, 1, n - 1)) + q[n].duration
    <2>1. n - 1 \in 0..Len(q) /\ n \in 0..Len(q)
      BY <1>1
    <2>2. d \in Seq(Int) /\ s \in Seq(Int)
      BY <1>3
    <2>3. /\ Total(SubSeq(s, 1, n)) = Total(SubSeq(s, 1, n - 1)) + s[n]
          /\ Total(SubSeq(d, 1, n)) = Total(SubSeq(d, 1, n - 1)) + d[n]
      BY <1>3, <2>2, TotalPrefix
    <2> QED
      BY <1>3, <1>4, <2>1, <2>3
  <1> QED
    BY <1>4, <1>5, <1>6, <1>7, <1>8, <1>9

LEMMA TimedConcat ==
    ASSUME NEW S, NEW p \in Seq(S), NEW q \in Seq(S), Timed(p), Timed(q)
    PROVE  /\ Ticks(p \o q) = Ticks(p) + Ticks(q)
           /\ Bytes(p \o q) = Bytes(p) + Bytes(q)
  <1>1. /\ \A k \in 1..Len(p) : p[k]["duration"] \in Nat
        /\ \A k \in 1..Len(p) : p[k]["size"] \in Nat
        /\ \A k \in 1..Len(q) : q[k]["duration"] \in Nat
        /\ \A k \in 1..Len(q) : q[k]["size"] \in Nat
    BY DEF Timed
  <1>2. /\ Fields(p \o q, "duration") = Fields(p, "duration") \o Fields(q, "duration")
        /\ Fields(p \o q, "size") = Fields(p, "size") \o Fields(q, "size")
    BY FieldsConcat
  <1>3. /\ Fields(p, "duration") \in Seq(Int) /\ Fields(q, "duration") \in Seq(Int)
        /\ Fields(p, "size") \in Seq(Int) /\ Fields(q, "size") \in Seq(Int)
    <2>1. /\ \A k \in 1..Len(p) : p[k]["duration"] \in Int
          /\ \A k \in 1..Len(p) : p[k]["size"] \in Int
          /\ \A k \in 1..Len(q) : q[k]["duration"] \in Int
          /\ \A k \in 1..Len(q) : q[k]["size"] \in Int
      BY <1>1
    <2> QED
      BY <2>1, FieldsTyped
  <1>4. /\ Total(Fields(p \o q, "duration"))
             = Total(Fields(p, "duration")) + Total(Fields(q, "duration"))
        /\ Total(Fields(p \o q, "size")) = Total(Fields(p, "size")) + Total(Fields(q, "size"))
    BY <1>2, <1>3, TotalConcat
  <1> QED
    BY <1>4, SumsOfFields, Zenon

(***************************************************************************)
(* Positions in a file.                                                    *)
(***************************************************************************)
IsFile(f) == /\ \E S : f \in Seq(S)
             /\ \A k \in 1..Len(f) : f[k].size \in Nat \ {0}

LEMMA FilePositions ==
    ASSUME NEW f, IsFile(f)
    PROVE  /\ EndOf(f) \in Nat /\ Position(f, 1) = 0
           /\ Position(f, Len(f) + 1) = EndOf(f)
           /\ \A k \in 1..(Len(f) + 1) : Position(f, k) \in Nat
           /\ \A k \in 1..Len(f) : Position(f, k + 1) = Position(f, k) + f[k].size
           /\ \A k \in 1..Len(f) : \A j \in 1..k : Position(f, j) + f[k].size <= Position(f, k + 1)
  <1>1. PICK S : f \in Seq(S)
    BY DEF IsFile
  <1> DEFINE s == Fields(f, "size")
  <1>2. \A k \in 1..Len(f) : f[k]["size"] \in Nat
    BY DEF IsFile
  <1>3. s \in Seq(Nat) /\ Len(s) = Len(f) /\ \A k \in 1..Len(f) : s[k] = f[k].size
    BY <1>1, <1>2, FieldsTyped, ZenonT(60), SMTT(30)
  <1>4. ASSUME NEW n \in 0..Len(f)
        PROVE  EndOf(SubSeq(f, 1, n)) = Total(SubSeq(s, 1, n))
    <2>1. Fields(SubSeq(f, 1, n), "size") = SubSeq(s, 1, n)
      BY <1>1, FieldsPrefix
    <2> QED
      BY <2>1, SumsOfFields, Zenon
  <1>5. EndOf(f) = Total(s)
    BY SumsOfFields
  <1>6. \A k : Position(f, k) = EndOf(SubSeq(f, 1, k - 1))
    BY DEF Position, EndOf
  <1> HIDE DEF s
  <1>7. ASSUME NEW k \in 1..(Len(f) + 1)
        PROVE  k - 1 \in 0..Len(f) /\ Position(f, k) = Total(SubSeq(s, 1, k - 1))
    <2>1. k - 1 \in 0..Len(f)
      BY <1>1
    <2> QED
      BY <1>4, <1>6, <2>1
  <1>8. \A n \in 0..Len(f) : Total(SubSeq(s, 1, n)) \in Nat
    BY <1>3, TotalPrefixNat
  <1>9. Total(s) \in Nat /\ SubSeq(s, 1, Len(f)) = s /\ SubSeq(s, 1, 0) = <<>>
    <2>1. Len(f) \in 0..Len(s)
      BY <1>1, <1>3
    <2> QED
      BY <1>3, <2>1, TotalNat, PrefixIs
  <1>10. ASSUME NEW k \in 1..Len(f)
         PROVE  Position(f, k + 1) = Position(f, k) + f[k].size
    <2>1. k \in 1..(Len(f) + 1) /\ k + 1 \in 1..(Len(f) + 1) /\ (k + 1) - 1 = k
          /\ k \in 1..Len(s)
      BY <1>1, <1>3
    <2>2. s \in Seq(Int)
      BY <1>3
    <2>3. Total(SubSeq(s, 1, k)) = Total(SubSeq(s, 1, k - 1)) + s[k]
      BY <2>1, <2>2, TotalPrefix
    <2> QED
      BY <1>3, <1>7, <2>1, <2>3
  <1>11. ASSUME NEW k \in 1..Len(f), NEW j \in 1..k
         PROVE  Position(f, j) + f[k].size <= Position(f, k + 1)
    <2>1. j \in 1..(Len(f) + 1) /\ k + 1 \in 1..(Len(f) + 1) /\ (k + 1) - 1 = k
          /\ j - 1 \in 0..(k - 1) /\ k \in 1..Len(s)
      BY <1>1, <1>3
    <2>2. Total(SubSeq(s, 1, j - 1)) + s[k] <= Total(SubSeq(s, 1, k))
      BY <1>3, <2>1, TotalGrows
    <2> QED
      BY <1>3, <1>7, <2>1, <2>2
  <1>12. /\ 1 \in 1..(Len(f) + 1) /\ 1 - 1 = 0
         /\ Len(f) + 1 \in 1..(Len(f) + 1) /\ (Len(f) + 1) - 1 = Len(f)
    BY <1>1
  <1>13. Position(f, 1) = 0 /\ Position(f, Len(f) + 1) = EndOf(f)
    <2>1. Position(f, 1) = Total(SubSeq(s, 1, 1 - 1))
      BY <1>7, <1>12
    <2>2. Position(f, Len(f) + 1) = Total(SubSeq(s, 1, (Len(f) + 1) - 1))
      BY <1>7, <1>12
    <2> QED
      BY <1>5, <1>9, <1>12, <2>1, <2>2, TotalEmpty
  <1> QED
    BY <1>5, <1>7, <1>8, <1>9, <1>10, <1>11, <1>13

(* What is appended to a file moves nothing in it.                         *)
LEMMA FileConcat ==
    ASSUME NEW f, NEW g, IsFile(f), IsFile(g)
    PROVE  /\ IsFile(f \o g)
           /\ Len(f \o g) = Len(f) + Len(g)
           /\ \A k \in 1..Len(f) : (f \o g)[k] = f[k]
           /\ \A k \in 1..Len(g) : (f \o g)[Len(f) + k] = g[k]
           /\ \A k \in 1..(Len(f) + 1) : Position(f \o g, k) = Position(f, k)
           /\ \A k \in 1..(Len(g) + 1) :
                Position(f \o g, Len(f) + k) = EndOf(f) + Position(g, k)
           /\ EndOf(f \o g) = EndOf(f) + EndOf(g)
  <1>1. PICK S : f \in Seq(S)
    BY DEF IsFile
  <1>2. PICK R : g \in Seq(R)
    BY DEF IsFile
  <1> DEFINE U == S \cup R
             c == f \o g
             a == Fields(f, "size")
             b == Fields(g, "size")
  <1>3. f \in Seq(U) /\ g \in Seq(U)
    <2>1. \A k \in 1..Len(f) : f[k] \in U
      BY <1>1
    <2>2. \A k \in 1..Len(g) : g[k] \in U
      BY <1>2
    <2> QED
      BY <1>1, <1>2, <2>1, <2>2
  <1> HIDE DEF U
  <1>4. /\ c \in Seq(U) /\ Len(c) = Len(f) + Len(g)
        /\ \A k \in 1..Len(f) : c[k] = f[k]
        /\ \A k \in 1..Len(g) : c[Len(f) + k] = g[k]
        /\ Len(f) \in Nat /\ Len(g) \in Nat
    BY <1>3
  <1>5. /\ \A k \in 1..Len(f) : f[k]["size"] \in Nat
        /\ \A k \in 1..Len(g) : g[k]["size"] \in Nat
    BY DEF IsFile
  <1>6. Fields(c, "size") = a \o b
    BY <1>3, FieldsConcat
  <1>7. a \in Seq(Nat) /\ Len(a) = Len(f) /\ b \in Seq(Nat) /\ Len(b) = Len(g)
    BY <1>3, <1>5, FieldsTyped
  <1> HIDE DEF c
  <1>8. IsFile(c)
    <2>1. ASSUME NEW k \in 1..Len(c) PROVE c[k].size \in Nat \ {0}
      <3>1. CASE k <= Len(f)
        BY <1>4, <3>1 DEF IsFile
      <3>2. CASE ~(k <= Len(f))
        <4>1. k - Len(f) \in 1..Len(g) /\ Len(f) + (k - Len(f)) = k
          BY <1>4, <3>2
        <4>2. c[Len(f) + (k - Len(f))] = g[k - Len(f)]
          BY <1>4, <4>1
        <4> QED
          BY <4>1, <4>2 DEF IsFile
      <3> QED
        BY <3>1, <3>2
    <2> QED
      BY <1>4, <2>1 DEF IsFile
  <1>9. /\ \A k \in 1..(Len(c) + 1) : Position(c, k) = Total(SubSeq(a \o b, 1, k - 1))
        /\ \A k \in 1..(Len(f) + 1) : Position(f, k) = Total(SubSeq(a, 1, k - 1))
        /\ \A k \in 1..(Len(g) + 1) : Position(g, k) = Total(SubSeq(b, 1, k - 1))
    <2>1. ASSUME NEW h \in Seq(U), IsFile(h), NEW k \in 1..(Len(h) + 1)
          PROVE  Position(h, k) = Total(SubSeq(Fields(h, "size"), 1, k - 1))
      <3>1. k - 1 \in 0..Len(h)
        OBVIOUS
      <3>2. \A j \in 1..Len(h) : h[j]["size"] \in Nat
        BY <2>1 DEF IsFile
      <3>3. Fields(SubSeq(h, 1, k - 1), "size") = SubSeq(Fields(h, "size"), 1, k - 1)
        BY <2>1, <3>1, FieldsPrefix
      <3>4. Position(h, k) = EndOf(SubSeq(h, 1, k - 1))
        BY DEF Position, EndOf
      <3> QED
        BY <3>3, <3>4, SumsOfFields
    <2>2. \A k \in 1..(Len(c) + 1) : Position(c, k) = Total(SubSeq(a \o b, 1, k - 1))
      BY <1>4, <1>6, <1>8, <2>1
    <2> QED
      BY <1>3, <2>1, <2>2
  <1>10. EndOf(c) = Total(a \o b) /\ EndOf(f) = Total(a) /\ EndOf(g) = Total(b)
    BY <1>6, SumsOfFields
  <1> HIDE DEF a, b
  <1>11. a \in Seq(Int) /\ b \in Seq(Int)
    BY <1>7
  <1>12. EndOf(c) = EndOf(f) + EndOf(g)
    BY <1>10, <1>11, TotalConcat
  <1>13. ASSUME NEW k \in 1..(Len(f) + 1) PROVE Position(c, k) = Position(f, k)
    <2>1. k \in 1..(Len(c) + 1) /\ k - 1 \in 0..Len(a)
      BY <1>4, <1>7
    <2>2. SubSeq(a \o b, 1, k - 1) = SubSeq(a, 1, k - 1)
      BY <1>7, <2>1, PrefixOfConcat
    <2> QED
      BY <1>9, <2>1, <2>2
  <1>14. ASSUME NEW k \in 1..(Len(g) + 1)
         PROVE  Position(c, Len(f) + k) = EndOf(f) + Position(g, k)
    <2> DEFINE n == k - 1
    <2>1. Len(f) + k \in 1..(Len(c) + 1) /\ n \in 0..Len(b)
          /\ (Len(f) + k) - 1 = Len(a) + n
      BY <1>4, <1>7
    <2>2. /\ Position(c, Len(f) + k) = Total(SubSeq(a \o b, 1, Len(a) + n))
          /\ Position(g, k) = Total(SubSeq(b, 1, n))
      BY <1>9, <2>1
    <2> HIDE DEF n
    <2>3. SubSeq(a \o b, 1, Len(a) + n) = a \o SubSeq(b, 1, n)
      <3>1. n \in 0..Len(b) /\ a \in Seq(Nat) /\ b \in Seq(Nat)
        BY <1>7, <2>1
      <3> QED
        BY <3>1, PrefixPast
    <2>4. SubSeq(b, 1, n) \in Seq(Int)
      BY <1>11, <2>1, PrefixIs
    <2>5. Total(a \o SubSeq(b, 1, n)) = Total(a) + Total(SubSeq(b, 1, n))
      BY <1>11, <2>4, TotalConcat
    <2> QED
      BY <1>10, <2>2, <2>3, <2>5
  <1> QED
    BY <1>4, <1>8, <1>12, <1>13, <1>14 DEF c

(***************************************************************************)
(* Packing and unpacking a run of samples.                                 *)
(***************************************************************************)
(* A sample, whatever else it carries.                                     *)
IsSample(x) ==
    x.duration \in Int /\ x.size \in Int /\ x.key \in BOOLEAN /\ x.cts \in Int

LEMMA ValueOfSome ==
    /\ \A v, d : ValueOf({v}, d) = v
    /\ \A d : ValueOf({}, d) = d
  BY DEF ValueOf

(* What all agree on is every sample's own.                                *)
LEMMA AgreedIs ==
    ASSUME NEW S
    PROVE  \/ Agreed(S) = {} /\ Cardinality(S) # 1
           \/ Agreed(S) = S /\ Cardinality(S) = 1
  BY DEF Agreed

LEMMA OneValue ==
    ASSUME NEW S, IsFiniteSet(S), Cardinality(S) = 1
    PROVE  \E v : S = {v}
  BY FS_Singleton

LEMMA ValuesFinite ==
    ASSUME NEW S, NEW q \in Seq(S), NEW field
    PROVE  /\ IsFiniteSet(Values(q, field))
           /\ Cardinality(Values(q, field)) \in Nat
           /\ Values(q, field) = {} <=> q = <<>>
           /\ Cardinality(Values(q, field)) = 0 <=> q = <<>>
  <1>1. IsFiniteSet(1..Len(q)) /\ DOMAIN q = 1..Len(q) /\ Len(q) \in Nat
    BY FS_Interval
  <1> DEFINE f == [k \in 1..Len(q) |-> q[k][field]]
  <1>2. Values(q, field) = {f[k] : k \in 1..Len(q)}
    BY <1>1 DEF Values
  <1>3. IsFiniteSet({f[k] : k \in 1..Len(q)})
    <2>1. f \in Surjection(1..Len(q), {f[k] : k \in 1..Len(q)})
      BY DEF Surjection
    <2> HIDE DEF f
    <2> QED
      BY <1>1, <2>1, FS_Surjection
  <1>4. Values(q, field) = {} <=> q = <<>>
    <2>1. q = <<>> => Values(q, field) = {}
      BY DEF Values
    <2>2. q # <<>> => 1 \in DOMAIN q
      BY <1>1
    <2>3. q # <<>> => q[1][field] \in Values(q, field)
      BY <2>2 DEF Values
    <2> QED
      BY <2>1, <2>3
  <1> QED
    BY <1>2, <1>3, <1>4, FS_EmptySet, FS_CardinalityType

(* A field of tfhd with a value that all samples share, or rows with one.  *)
LEMMA FieldReads ==
    ASSUME NEW S, NEW q \in Seq(S), NEW field, NEW k \in DOMAIN q, NEW d
    PROVE  LET o == Agreed(Values(q, field))
           IN  ValueOf(Present(~Some(o), q[k][field]), ValueOf(o, d)) = q[k][field]
  <1> DEFINE o == Agreed(Values(q, field))
  <1>1. q[k][field] \in Values(q, field)
    BY DEF Values
  <1>2. CASE o = {}
    <2>1. Present(~Some(o), q[k][field]) = {q[k][field]}
      BY <1>2 DEF Present, Some
    <2> QED
      BY <2>1, ValueOfSome
  <1>3. CASE o # {}
    <2>1. o = Values(q, field) /\ Cardinality(Values(q, field)) = 1
      BY <1>3, AgreedIs
    <2>2. PICK v : Values(q, field) = {v}
      BY <2>1, ValuesFinite, OneValue
    <2>3. o = {q[k][field]}
      BY <1>1, <2>1, <2>2
    <2>4. Present(~Some(o), q[k][field]) = {}
      BY <1>3 DEF Present, Some
    <2>5. ValueOf(o, d) = q[k][field] /\ ValueOf({}, ValueOf(o, d)) = ValueOf(o, d)
      BY <2>3, ValueOfSome
    <2> QED
      BY <2>4, <2>5
  <1> QED
    BY <1>2, <1>3

(* The sync flag: of all samples alike, of all but the first, or by row.   *)
LEMMA KeyReads ==
    ASSUME NEW S, \A x \in S : IsSample(x),
           NEW q \in Seq(S), NEW k \in DOMAIN q, NEW d
    PROVE  LET o == FragmentDefaults(q).flags
               first == FragmentDefaults(q).first
           IN  ValueOf(Present(~Some(o), q[k].key),
                       IF k = 1 THEN ValueOf(first, ValueOf(o, d)) ELSE ValueOf(o, d))
                 = q[k].key
  <1> DEFINE flags == Values(q, "key")
             tail == Values(Tail(q), "key")
             o == FragmentDefaults(q).flags
             first == FragmentDefaults(q).first
  <1>1. q # <<>> /\ Tail(q) \in Seq(S) /\ DOMAIN q = 1..Len(q) /\ Len(Tail(q)) = Len(q) - 1
        /\ Len(q) \in Nat /\ Len(q) >= 1
        /\ \A j \in 2..Len(q) : q[j] = Tail(q)[j - 1]
    OBVIOUS
  <1>2. /\ o = IF Cardinality(flags) = 1 THEN flags ELSE Agreed(tail)
        /\ first = Present(Cardinality(flags) > 1 /\ Cardinality(tail) = 1, q[1].key)
    BY DEF FragmentDefaults
  <1>3. Cardinality(flags) \in Nat \ {0} /\ IsFiniteSet(flags)
    BY <1>1, ValuesFinite
  <1>4. IsFiniteSet(tail)
    BY <1>1, ValuesFinite
  <1>5. q[k].key \in flags
    BY DEF Values
  <1>6. k # 1 => q[k].key \in tail
    <2>1. k # 1 => k - 1 \in DOMAIN Tail(q) /\ q[k] = Tail(q)[k - 1]
      BY <1>1
    <2> QED
      BY <2>1 DEF Values
  <1> HIDE DEF flags, tail, o, first
  <1>7. CASE Cardinality(flags) = 1
    <2>1. flags = {q[k].key}
      BY <1>3, <1>5, <1>7, OneValue
    <2>2. o = {q[k].key} /\ first = {} /\ Present(~Some(o), q[k].key) = {}
      BY <1>2, <1>7, <2>1 DEF Present, Some
    <2>3. ValueOf(o, d) = q[k].key /\ ValueOf(first, ValueOf(o, d)) = q[k].key
      BY <2>2, ValueOfSome
    <2> QED
      BY <2>2, <2>3, ValueOfSome DEF o, first
  <1>8. CASE Cardinality(flags) # 1 /\ Cardinality(tail) = 1
    <2>1. PICK v : tail = {v}
      BY <1>4, <1>8, OneValue
    <2>2. o = {v} /\ first = {q[1].key} /\ Present(~Some(o), q[k].key) = {}
      BY <1>2, <1>3, <1>8, <2>1 DEF Present, Some, Agreed
    <2>3. ValueOf(o, d) = v /\ ValueOf(first, v) = q[1].key
      BY <2>2, ValueOfSome
    <2>4. k # 1 => q[k].key = v
      BY <1>6, <2>1
    <2> QED
      BY <2>2, <2>3, <2>4, ValueOfSome DEF o, first
  <1>9. CASE Cardinality(flags) # 1 /\ Cardinality(tail) # 1
    <2>1. o = {}
      BY <1>2, <1>9 DEF Agreed
    <2>2. Present(~Some(o), q[k].key) = {q[k].key}
      BY <2>1 DEF Present, Some
    <2> QED
      BY <2>2, ValueOfSome, ZenonT(60), SMTT(30) DEF o, first
  <1> QED
    BY <1>7, <1>8, <1>9

LEMMA CtsReads ==
    ASSUME NEW S, \A x \in S : IsSample(x), NEW q \in Seq(S), NEW k \in DOMAIN q
    PROVE  ValueOf(Present(\E j \in DOMAIN q : q[j].cts # 0, q[k].cts), 0) = q[k].cts
  BY ValueOfSome DEF Present

(* Sums over a prefix.                                                     *)
LEMMA PrefixSum ==
    ASSUME NEW S, NEW q \in Seq(S), NEW k \in DOMAIN q
    PROVE  /\ Ticks(SubSeq(q, 1, k - 1)) = Total([j \in 1..(k - 1) |-> q[j].duration])
           /\ Bytes(SubSeq(q, 1, k - 1)) = Total([j \in 1..(k - 1) |-> q[j].size])
  <1> DEFINE p == SubSeq(q, 1, k - 1)
  <1>1. DOMAIN p = 1..(k - 1) /\ \A j \in 1..(k - 1) : p[j] = q[j]
    OBVIOUS
  <1> HIDE DEF p
  <1>2. /\ [j \in DOMAIN p |-> p[j].duration] = [j \in 1..(k - 1) |-> q[j].duration]
        /\ [j \in DOMAIN p |-> p[j].size] = [j \in 1..(k - 1) |-> q[j].size]
    BY <1>1
  <1>3. Ticks(p) = Total([j \in DOMAIN p |-> p[j].duration])
    BY DEF Ticks, SumOf
  <1>4. Bytes(p) = Total([j \in DOMAIN p |-> p[j].size])
    BY DEF Bytes, SumOf
  <1> QED
    BY <1>2, <1>3, <1>4 DEF p

(* A packed run reads back: every sample with its own duration, size, sync *)
(* flag and composition offset, at the bytes and the time the samples      *)
(* before it end; whatever fields went where, and whatever the file's      *)
(* defaults (build_tfhd and build_trun against parse_traf).                *)
THEOREM RunReadsBack ==
    ASSUME NEW S, \A x \in S : IsSample(x),
           NEW q \in Seq(S), NEW t, NEW dataOffset, NEW trex, NEW base, NEW dts
    PROVE  LET run == ReadRun(BuildTfhd(t, q), BuildTrun(q, dataOffset), trex, base, dts)
           IN  /\ DOMAIN run = DOMAIN q
               /\ \A k \in DOMAIN q :
                    run[k] = [offset   |-> base + dataOffset + Bytes(SubSeq(q, 1, k - 1)),
                              dts      |-> dts + Ticks(SubSeq(q, 1, k - 1)),
                              duration |-> q[k].duration, size |-> q[k].size,
                              key      |-> q[k].key, cts |-> q[k].cts]
  <1> DEFINE d == FragmentDefaults(q)
             tfhd == BuildTfhd(t, q)
             trun == BuildTrun(q, dataOffset)
             row == trun.rows
             duration(k) == ValueOf(row[k].duration, ValueOf(tfhd.duration, trex.duration))
             size(k) == ValueOf(row[k].size, ValueOf(tfhd.size, trex.size))
             tfhdFlags == ValueOf(tfhd.flags, trex.key)
             key(k) == ValueOf(row[k].flags, IF k = 1 THEN ValueOf(trun.first, tfhdFlags)
                                             ELSE tfhdFlags)
             run == ReadRun(tfhd, trun, trex, base, dts)
  <1>1. /\ d.duration = Agreed(Values(q, "duration")) /\ d.size = Agreed(Values(q, "size"))
        /\ tfhd.duration = d.duration /\ tfhd.size = d.size /\ tfhd.flags = d.flags
        /\ trun.first = d.first /\ trun.dataOffset = dataOffset /\ DOMAIN row = DOMAIN q
    BY DEF BuildTfhd, TfhdWith, BuildTrun, TrunWith, FragmentDefaults
  <1>2. \A k \in DOMAIN q :
           /\ row[k].duration = Present(~Some(d.duration), q[k].duration)
           /\ row[k].size = Present(~Some(d.size), q[k].size)
           /\ row[k].flags = Present(~Some(d.flags), q[k].key)
           /\ row[k].cts = Present(\E j \in DOMAIN q : q[j].cts # 0, q[k].cts)
    BY DEF BuildTrun, TrunWith
  <1>3. ASSUME NEW k \in DOMAIN q
        PROVE  /\ duration(k) = q[k].duration /\ size(k) = q[k].size
               /\ key(k) = q[k].key /\ ValueOf(row[k].cts, 0) = q[k].cts
    <2>1. duration(k) = q[k].duration
      <3>1. ValueOf(Present(~Some(d.duration), q[k]["duration"]),
                    ValueOf(d.duration, trex.duration)) = q[k]["duration"]
        BY <1>1, FieldReads
      <3> QED
        BY <1>1, <1>2, <3>1
    <2>2. size(k) = q[k].size
      <3>1. ValueOf(Present(~Some(d.size), q[k]["size"]),
                    ValueOf(d.size, trex.size)) = q[k]["size"]
        BY <1>1, FieldReads
      <3> QED
        BY <1>1, <1>2, <3>1
    <2>3. key(k) = q[k].key
      <3>1. ValueOf(Present(~Some(d.flags), q[k].key),
                    IF k = 1 THEN ValueOf(d.first, ValueOf(d.flags, trex.key))
                             ELSE ValueOf(d.flags, trex.key)) = q[k].key
        BY KeyReads
      <3> QED
        BY <1>1, <1>2, <3>1
    <2>4. ValueOf(row[k].cts, 0) = q[k].cts
      BY <1>2, CtsReads
    <2> QED
      BY <2>1, <2>2, <2>3, <2>4
  <1> DEFINE before(k) == [j \in 1..(k - 1) |-> j]
             sizes(k) == [j \in DOMAIN before(k) |-> size(before(k)[j])]
             durations(k) == [j \in DOMAIN before(k) |-> duration(before(k)[j])]
  <1>4. /\ DOMAIN run = DOMAIN q
        /\ \A k \in DOMAIN q :
             run[k] = [offset   |-> base + dataOffset + Total(sizes(k)),
                       dts      |-> dts + Total(durations(k)),
                       duration |-> duration(k), size |-> size(k), key |-> key(k),
                       cts |-> ValueOf(row[k].cts, 0)]
    BY <1>1 DEF ReadRun, SumOf
  <1>5. ASSUME NEW k \in DOMAIN q
        PROVE  /\ sizes(k) = [j \in 1..(k - 1) |-> q[j].size]
               /\ durations(k) = [j \in 1..(k - 1) |-> q[j].duration]
    <2>1. \A j \in 1..(k - 1) : j \in DOMAIN q
      OBVIOUS
    <2>2. \A j \in 1..(k - 1) : size(j) = q[j].size /\ duration(j) = q[j].duration
      BY <1>3, <2>1
    <2> HIDE DEF size, duration
    <2> QED
      BY <2>2
  <1>6. ASSUME NEW k \in DOMAIN q
        PROVE  /\ Total(sizes(k)) = Bytes(SubSeq(q, 1, k - 1))
               /\ Total(durations(k)) = Ticks(SubSeq(q, 1, k - 1))
    <2> HIDE DEF sizes, durations
    <2> QED
      BY <1>5, PrefixSum
  <1> HIDE DEF run, row, duration, size, key, before, sizes, durations, tfhd, trun, d
  <1>7. \A k \in DOMAIN q :
           run[k] = [offset   |-> base + dataOffset + Bytes(SubSeq(q, 1, k - 1)),
                     dts      |-> dts + Ticks(SubSeq(q, 1, k - 1)),
                     duration |-> q[k].duration, size |-> q[k].size,
                     key      |-> q[k].key, cts |-> q[k].cts]
    BY <1>3, <1>4, <1>6, Zenon
  <1> QED
    BY <1>4, <1>7 DEF run, tfhd, trun
(***************************************************************************)
(* Sizes of the boxes.                                                     *)
(***************************************************************************)
LEMMA FieldBytesNat ==
    ASSUME NEW S, NEW o \in Seq(S)
    PROVE  FieldBytes(o) \in Nat
  <1>1. {i \in DOMAIN o : Some(o[i])} \subseteq 1..Len(o) /\ IsFiniteSet(1..Len(o))
    BY FS_Interval
  <1>2. Cardinality({i \in DOMAIN o : Some(o[i])}) \in Nat
    BY <1>1, FS_Subset, FS_CardinalityType
  <1> QED
    BY <1>2 DEF FieldBytes

LEMMA TfhdBytesNat == \A tfhd : TfhdBytes(tfhd) \in Nat
  <1> SUFFICES ASSUME NEW tfhd PROVE TfhdBytes(tfhd) \in Nat
    OBVIOUS
  <1> DEFINE S == {tfhd.duration, tfhd.size, tfhd.flags}
             o == <<tfhd.duration, tfhd.size, tfhd.flags>>
  <1>1. o \in Seq(S)
    OBVIOUS
  <1> HIDE DEF S
  <1>2. FieldBytes(o) \in Nat
    BY <1>1, FieldBytesNat
  <1> QED
    BY <1>2 DEF TfhdBytes

LEMMA TrunBytesNat ==
    ASSUME NEW S, NEW trun, trun.rows \in Seq(S)
    PROVE  TrunBytes(trun) \in Nat
  <1> DEFINE row(r) == FieldBytes(<<r.duration, r.size, r.flags, r.cts>>)
             bytes == [k \in DOMAIN trun.rows |-> row(trun.rows[k])]
             first == <<trun.first>>
  <1>1. ASSUME NEW r PROVE row(r) \in Nat
    <2> DEFINE R == {r.duration, r.size, r.flags, r.cts}
               o == <<r.duration, r.size, r.flags, r.cts>>
    <2>1. o \in Seq(R)
      OBVIOUS
    <2> HIDE DEF R
    <2> QED
      BY <2>1, FieldBytesNat
  <1> HIDE DEF row
  <1>2. bytes \in Seq(Nat)
    <2>1. DOMAIN trun.rows = 1..Len(trun.rows) /\ Len(trun.rows) \in Nat
      OBVIOUS
    <2> QED
      BY <1>1, <2>1
  <1>3. Total(bytes) \in Nat
    BY <1>2, TotalNat
  <1>4. SumOf(trun.rows, row) = Total(bytes)
    BY DEF SumOf
  <1>5. FieldBytes(first) \in Nat
    <2>1. first \in Seq({trun.first})
      OBVIOUS
    <2> QED
      BY <2>1, FieldBytesNat
  <1>6. TrunBytes(trun) = 20 + FieldBytes(first) + SumOf(trun.rows, row)
    BY DEF TrunBytes, row
  <1> QED
    BY <1>3, <1>4, <1>5, <1>6

(* The auxiliary records and the overrides of a run.                       *)
IsAux(x) == x.iv \in Nat /\ x.subs \in Nat

LEMMA AuxSizesTyped ==
    ASSUME NEW S, \A x \in S : IsAux(x), NEW aux \in Seq(S)
    PROVE  /\ \A k \in 1..Len(aux) : AuxSize(aux, k) \in Nat
           /\ AuxSizes(aux) \in Seq(Nat) /\ Len(AuxSizes(aux)) = Len(aux)
           /\ \A k \in 1..Len(aux) : AuxSizes(aux)[k] = AuxSize(aux, k)
  <1>1. DOMAIN aux = 1..Len(aux) /\ Len(aux) \in Nat
    OBVIOUS
  <1>2. \A k \in 1..Len(aux) : aux[k].iv \in Nat /\ aux[k].subs \in Nat
    BY DEF IsAux
  <1>3. \A k \in 1..Len(aux) : AuxSize(aux, k) \in Nat
    BY <1>2 DEF AuxSize
  <1> QED
    BY <1>1, <1>3 DEF AuxSizes

(* The one value of each option.                                           *)
CencBox(aux, at) ==
    LET sizes == AuxSizes(aux)
        constant == Agreed({sizes[k] : k \in DOMAIN sizes})
    IN  [senc |-> aux,
         saizDefault |-> ValueOf(constant, 0),
         saizSizes |-> IF Some(constant) THEN <<>> ELSE sizes,
         saizCount |-> Len(aux),
         saioOffset |-> at + 16]

LEMMA CencBoxIs ==
    ASSUME NEW aux, NEW at, NEW d
    PROVE  /\ CencBoxes(aux, at) = {} <=> AuxOmitted(aux)
           /\ CencBoxes(aux, at) # {} => ValueOf(CencBoxes(aux, at), d) = CencBox(aux, at)
  <1>1. CencBoxes(aux, at) = IF AuxOmitted(aux) THEN {} ELSE {CencBox(aux, at)}
    BY DEF CencBoxes, CencBox
  <1>2. ValueOf({CencBox(aux, at)}, d) = CencBox(aux, at)
    BY ValueOfSome
  <1> QED
    BY <1>1, <1>2

SeigGroup(seig) ==
    [sgpd |-> Uniques(seig),
     sbgp |-> RunLengths([k \in DOMAIN seig |-> GroupIndex(seig, k)])]

LEMMA SeigGroupIs ==
    ASSUME NEW seig, NEW d
    PROVE  /\ SeigGroups(seig) = {} <=> \A k \in DOMAIN seig : seig[k] = {}
           /\ SeigGroups(seig) # {} => ValueOf(SeigGroups(seig), d) = SeigGroup(seig)
  <1>1. SeigGroups(seig) = IF \A k \in DOMAIN seig : seig[k] = {} THEN {}
                           ELSE {SeigGroup(seig)}
    BY DEF SeigGroups, SeigGroup
  <1>2. ValueOf({SeigGroup(seig)}, d) = SeigGroup(seig)
    BY ValueOfSome
  <1> QED
    BY <1>1, <1>2

LEMMA CencBytesNat ==
    ASSUME NEW S, \A x \in S : IsAux(x), NEW aux \in Seq(S), NEW at
    PROVE  CencBytes(CencBoxes(aux, at)) \in Nat
  <1>1. SencBytes(aux) \in Nat
    <2> DEFINE size(n) == n
               g == AuxSizes(aux)
    <2>1. g \in Seq(Nat)
      BY AuxSizesTyped
    <2> HIDE DEF g
    <2>2. [k \in DOMAIN g |-> size(g[k])] = g
      BY <2>1
    <2>3. Total(g) \in Nat
      BY <2>1, TotalNat
    <2>4. SencBytes(aux) = 16 + SumOf(g, size)
      BY DEF SencBytes, g
    <2> QED
      BY <2>2, <2>3, <2>4 DEF SumOf
  <1>2. CASE CencBoxes(aux, at) = {}
    BY <1>2 DEF CencBytes
  <1>3. CASE CencBoxes(aux, at) # {}
    <2> DEFINE b == ValueOf(CencBoxes(aux, at), {})
    <2>0. b = CencBox(aux, at)
      BY <1>3, CencBoxIs
    <2> HIDE DEF b
    <2>1. b.senc = aux /\ (b.saizSizes = <<>> \/ b.saizSizes = AuxSizes(aux))
      BY <2>0 DEF CencBox
    <2>2. Len(b.saizSizes) \in Nat
      BY <2>1, AuxSizesTyped
    <2>3. CencBytes(CencBoxes(aux, at)) = SencBytes(b.senc) + (17 + Len(b.saizSizes)) + 20
      BY <1>3 DEF CencBytes, b
    <2> QED
      BY <1>1, <2>1, <2>2, <2>3
  <1> QED
    BY <1>2, <1>3

LEMMA GroupBytesNat ==
    ASSUME SeigEntryBytes \in Nat, NEW S, NEW seig \in Seq(S)
    PROVE  GroupBytes(SeigGroups(seig)) \in Nat
  <1>1. CASE SeigGroups(seig) = {}
    BY <1>1 DEF GroupBytes
  <1>2. CASE SeigGroups(seig) # {}
    <2> DEFINE g == ValueOf(SeigGroups(seig), {})
               indices == [k \in DOMAIN seig |-> GroupIndex(seig, k)]
    <2>1. g.sgpd = Uniques(seig) /\ g.sbgp = RunLengths(indices)
      BY <1>2, SeigGroupIs DEF SeigGroup
    <2>2. Len(Uniques(seig)) \in Nat
      <3> DEFINE K == {k \in DOMAIN seig : /\ seig[k] # {}
                                           /\ \A j \in 1..(k - 1) : seig[j] # seig[k]}
                 first == Selected(seig, K)
      <3>1. first \in Seq(S)
        BY SelectedTyped
      <3>2. Uniques(seig) = [n \in DOMAIN first |-> ValueOf(first[n], 0)]
        BY DEF Uniques, Unwrapped
      <3> HIDE DEF first
      <3>3. DOMAIN first = 1..Len(first) /\ Len(first) \in Nat
        BY <3>1
      <3> QED
        BY <3>2, <3>3
    <2>3. Len(RunLengths(indices)) \in Nat
      <3> DEFINE K == {k \in DOMAIN indices : k = 1 \/ indices[k] # indices[k - 1]}
                 positions == [k \in DOMAIN indices |-> k]
                 starts == Selected(positions, K)
      <3>1. positions \in Seq(Nat)
        OBVIOUS
      <3> HIDE DEF positions
      <3>2. starts \in Seq(Nat)
        BY <3>1, SelectedTyped
      <3> DEFINE next(n) == IF n = Len(starts) THEN Len(indices) + 1 ELSE starts[n + 1]
      <3>3. RunLengths(indices)
              = [n \in DOMAIN starts |-> <<next(n) - starts[n], indices[starts[n]]>>]
        BY DEF RunLengths, RunsFrom, RunsAt, positions
      <3> HIDE DEF starts, next
      <3>4. DOMAIN starts = 1..Len(starts) /\ Len(starts) \in Nat
        BY <3>2
      <3> QED
        BY <3>3, <3>4
    <2>4. GroupBytes(SeigGroups(seig))
            = (24 + SeigEntryBytes * Len(g.sgpd)) + (20 + 8 * Len(g.sbgp))
      BY <1>2 DEF GroupBytes
    <2> HIDE DEF g, indices
    <2>5. SeigEntryBytes * Len(g.sgpd) \in Nat
      BY <2>1, <2>2
    <2> QED
      BY <2>1, <2>2, <2>3, <2>4, <2>5
  <1> QED
    BY <1>1, <1>2

(***************************************************************************)
(* The auxiliary information and the groups of a run read back.            *)
(***************************************************************************)
(* The saiz tells the size of every record of the senc, and the cells that *)
(* saiz and saio address are those records.                                *)
LEMMA CencReads ==
    ASSUME NEW S, \A x \in S : IsAux(x), NEW aux \in Seq(S), ~AuxOmitted(aux),
           NEW at, NEW k \in 1..Len(aux)
    PROVE  LET b == CencBox(aux, at)
           IN  /\ b.senc = aux /\ b.saizCount = Len(aux)
               /\ SaizSize(b, k) = AuxSize(aux, k)
               /\ CellAt(b, k) = RecordAt(b, at, k)
  <1> DEFINE b == CencBox(aux, at)
             sizes == AuxSizes(aux)
             V == {sizes[j] : j \in DOMAIN sizes}
             constant == Agreed(V)
  <1>1. /\ sizes \in Seq(Nat) /\ Len(sizes) = Len(aux) /\ DOMAIN sizes = 1..Len(aux)
        /\ \A j \in 1..Len(aux) : sizes[j] = AuxSize(aux, j) /\ sizes[j] \in Nat
    BY AuxSizesTyped
  <1>2. /\ b.senc = aux /\ b.saizCount = Len(aux) /\ b.saioOffset = at + 16
        /\ b.saizDefault = ValueOf(constant, 0)
        /\ b.saizSizes = IF Some(constant) THEN <<>> ELSE sizes
    BY DEF CencBox
  <1> HIDE DEF b, sizes, constant
  <1>3. ASSUME NEW j \in 1..Len(aux)
        PROVE  SaizSize(b, j) = AuxSize(aux, j)
    <2>1. CASE constant = {}
      <3>1. b.saizDefault = 0 /\ b.saizSizes = sizes
        BY <1>2, <2>1, ValueOfSome DEF Some
      <3> QED
        BY <1>1, <3>1 DEF SaizSize
    <2>2. CASE constant # {}
      <3>1. constant = V /\ Cardinality(V) = 1
        BY <2>2, AgreedIs DEF constant
      <3>2. IsFiniteSet(V)
        <4>1. sizes \in Surjection(1..Len(aux), V)
          <5>1. sizes \in [1..Len(aux) -> V]
            BY <1>1
          <5> QED
            BY <1>1, <5>1 DEF Surjection
        <4>2. IsFiniteSet(1..Len(aux))
          BY FS_Interval
        <4> QED
          BY <4>1, <4>2, FS_Surjection
      <3>3. PICK v : V = {v}
        BY <3>1, <3>2, OneValue
      <3>4. \A i \in 1..Len(aux) : sizes[i] = v
        BY <1>1, <3>3
      <3>5. b.saizDefault = v
        BY <1>2, <3>1, <3>3, ValueOfSome
      <3>6. v # 0
        <4> SUFFICES ASSUME v = 0 PROVE FALSE
          OBVIOUS
        <4>1. \A i \in 1..Len(aux) : AuxSize(aux, i) = 0
          BY <1>1, <3>4
        <4>2. \A i \in 1..Len(aux) : aux[i].iv \in Nat /\ aux[i].subs \in Nat
          BY DEF IsAux
        <4>3. 1 \in 1..Len(aux)
          OBVIOUS
        <4>4. ~AnySubsamples(aux) /\ aux[1].iv = 0
          BY <4>1, <4>2, <4>3 DEF AuxSize
        <4> QED
          BY <4>4 DEF AuxOmitted
      <3> QED
        BY <1>1, <3>4, <3>5, <3>6 DEF SaizSize
    <2> QED
      BY <2>1, <2>2
  <1>4. CellAt(b, k) = RecordAt(b, at, k)
    <2> DEFINE p == [j \in 1..(k - 1) |-> j]
               size(j) == SaizSize(b, j)
               real(j) == AuxSize(b.senc, j)
    <2>1. \A j \in 1..(k - 1) : size(p[j]) = real(p[j])
      BY <1>2, <1>3
    <2>2. [j \in DOMAIN p |-> size(p[j])] = [j \in DOMAIN p |-> real(p[j])]
      BY <2>1
    <2>3. CellAt(b, k) = b.saioOffset + SumOf(p, size)
      BY DEF CellAt
    <2>4. RecordAt(b, at, k) = at + 16 + SumOf(p, real)
      BY DEF RecordAt
    <2> HIDE DEF p, size, real
    <2>5. SumOf(p, size) = SumOf(p, real)
      BY <2>2 DEF SumOf
    <2> QED
      BY <1>2, <2>3, <2>4, <2>5
  <1> QED
    BY <1>2, <1>3, <1>4 DEF b

(* Every override of a run has its entry in the group description.         *)
LEMMA UniquesHold ==
    ASSUME NEW E, NEW seig \in Seq(SUBSET E),
           \A i \in 1..Len(seig) : \A x, y \in seig[i] : x = y,
           NEW k \in 1..Len(seig), seig[k] # {}
    PROVE  \E j \in DOMAIN Uniques(seig) : {Uniques(seig)[j]} = seig[k]
  <1> DEFINE new == {i \in DOMAIN seig : /\ seig[i] # {}
                                         /\ \A j \in 1..(i - 1) : seig[j] # seig[i]}
             first == Selected(seig, new)
             T == {i \in 1..Len(seig) : seig[i] = seig[k]}
  <1>1. PICK m \in T : \A i \in T : m <= i
    <2>1. T \in SUBSET Nat /\ T # {}
      OBVIOUS
    <2> QED
      BY <2>1, LeastNumber
  <1>2. m \in DOMAIN seig /\ seig[m] = seig[k] /\ m \in 1..Len(seig)
    OBVIOUS
  <1>3. \A j \in 1..(m - 1) : seig[j] # seig[k]
    <2> SUFFICES ASSUME NEW j \in 1..(m - 1), seig[j] = seig[k] PROVE FALSE
      OBVIOUS
    <2>1. j \in T /\ j < m /\ j \in Nat /\ m \in Nat
      BY <1>2
    <2> QED
      BY <1>1, <2>1
  <1>4. m \in new
    BY <1>2, <1>3
  <1>5. Uniques(seig) = [n \in DOMAIN first |-> ValueOf(first[n], 0)]
    BY DEF Uniques, Unwrapped
  <1>6. PICK h : Enumerates(first, seig, new, h)
    BY SelectedLists
  <1>7. first \in Seq(SUBSET E)
    BY SelectedTyped
  <1> HIDE DEF new, first, T
  <1>8. PICK n \in 1..Len(first) : h[n] = m
    BY <1>2, <1>4, <1>6 DEF Enumerates
  <1>9. first[n] = seig[k] /\ n \in DOMAIN first
    BY <1>2, <1>6, <1>7, <1>8 DEF Enumerates
  <1>10. PICK v : seig[k] = {v}
    <2>1. PICK v : v \in seig[k]
      OBVIOUS
    <2>2. \A x, y \in seig[k] : x = y
      OBVIOUS
    <2>3. \A x \in seig[k] : x = v
      BY <2>1, <2>2
    <2> DEFINE z == seig[k]
    <2>4. v \in z /\ \A x \in z : x = v
      BY <2>1, <2>3
    <2> HIDE DEF z
    <2>5. z \subseteq {v} /\ {v} \subseteq z
      BY <2>4
    <2>6. z = {v}
      BY <2>5
    <2> QED
      BY <2>6 DEF z
  <1>11. Uniques(seig)[n] = v /\ n \in DOMAIN Uniques(seig)
    <2>1. n \in DOMAIN Uniques(seig) /\ Uniques(seig)[n] = ValueOf(first[n], 0)
      BY <1>5, <1>9
    <2>2. first[n] = {v}
      BY <1>9, <1>10
    <2>3. ValueOf({v}, 0) = v
      BY ValueOfSome
    <2> QED
      BY <2>1, <2>2, <2>3
  <1> QED
    BY <1>10, <1>11

LEMMA IndexReads ==
    ASSUME NEW E, NEW seig \in Seq(SUBSET E),
           \A i \in 1..Len(seig) : \A x, y \in seig[i] : x = y,
           NEW k \in 1..Len(seig)
    PROVE  LET index == GroupIndex(seig, k)
           IN  /\ index \in Nat
               /\ (IF index = 0 THEN {} ELSE {Uniques(seig)[index - LocalGroupBase + 1]})
                    = seig[k]
  <1> DEFINE index == GroupIndex(seig, k)
             u == Uniques(seig)
  <1>1. CASE seig[k] = {}
    BY <1>1 DEF GroupIndex, IndexAmong
  <1>2. CASE seig[k] # {}
    <2> DEFINE j == CHOOSE j \in DOMAIN u : {u[j]} = seig[k]
    <2>1. j \in DOMAIN u /\ {u[j]} = seig[k]
      <3>1. \E i \in DOMAIN u : {u[i]} = seig[k]
        BY <1>2, UniquesHold
      <3> HIDE DEF u
      <3> QED
        BY <3>1, Zenon
    <2>2. index = LocalGroupBase - 1 + j
      BY <1>2 DEF GroupIndex, IndexAmong
    <2>3. j \in Nat /\ j >= 1
      <3> DEFINE new == {i \in DOMAIN seig : /\ seig[i] # {}
                                             /\ \A x \in 1..(i - 1) : seig[x] # seig[i]}
                 first == Selected(seig, new)
      <3>1. u = [n \in DOMAIN first |-> ValueOf(first[n], 0)]
        BY DEF Uniques, Unwrapped
      <3>2. first \in Seq(SUBSET E)
        BY SelectedTyped
      <3> HIDE DEF first, u, j
      <3>3. DOMAIN u = 1..Len(first) /\ Len(first) \in Nat
        BY <3>1, <3>2
      <3> QED
        BY <2>1, <3>3
    <2> HIDE DEF j, index, u
    <2>4. index # 0 /\ index - LocalGroupBase + 1 = j /\ index \in Nat
      BY <2>2, <2>3 DEF LocalGroupBase
    <2> QED
      BY <2>1, <2>4 DEF index, u
  <1> QED
    BY <1>1, <1>2

(* The run of a sample: exactly one covers it, and it tells its index.     *)
Covers(sbgp, n, k) ==
    LET count(run) == run[1]
    IN  SumOf(SubSeq(sbgp, 1, n - 1), count) < k
          /\ k <= SumOf(SubSeq(sbgp, 1, n), count)

LEMMA RunsRead ==
    ASSUME NEW indices \in Seq(Nat), NEW k \in 1..Len(indices)
    PROVE  LET r == RunLengths(indices)
           IN  /\ \E n \in DOMAIN r : Covers(r, n, k)
               /\ \A n \in DOMAIN r : Covers(r, n, k) => r[n][2] = indices[k]
  <1> DEFINE L == Len(indices)
             K == {i \in DOMAIN indices : i = 1 \/ indices[i] # indices[i - 1]}
             p == [i \in DOMAIN indices |-> i]
             s == Selected(p, K)
             m == Len(s)
             next(n) == IF n = m THEN L + 1 ELSE s[n + 1]
             r == RunLengths(indices)
  <1>1. /\ L \in Nat /\ DOMAIN indices = 1..L /\ p \in Seq(1..L) /\ Len(p) = L
        /\ DOMAIN p = 1..L /\ k \in 1..L /\ k \in Nat
    OBVIOUS
  <1>k. /\ 1 \in K
        /\ \A i \in 1..L : i # 1 /\ indices[i] # indices[i - 1] => i \in K
        /\ \A i \in 1..L : p[i] = i
    BY <1>1
  <1>2. r = [n \in DOMAIN s |-> <<next(n) - s[n], indices[s[n]]>>]
    BY DEF RunLengths, RunsFrom, RunsAt
  <1>3. s \in Seq(1..L)
    BY <1>1, SelectedTyped
  <1>4. PICK h : Enumerates(s, p, K, h)
    BY <1>1, SelectedLists
  <1> HIDE DEF p, K, L, s
  <1>5. m \in Nat /\ DOMAIN s = 1..m /\ \A n \in 1..m : s[n] \in 1..L
    <2> DEFINE V == 1..L
    <2>1. s \in Seq(V)
      BY <1>3
    <2> HIDE DEF V
    <2>2. m \in Nat /\ DOMAIN s = 1..m /\ \A n \in 1..m : s[n] \in V
      BY <2>1
    <2> QED
      BY <2>2 DEF V
  <1>6. \A n \in 1..m : s[n] = h[n]
    <2> SUFFICES ASSUME NEW n \in 1..m PROVE s[n] = h[n]
      OBVIOUS
    <2>1. h[n] \in 1..L /\ s[n] = p[h[n]]
      BY <1>1, <1>4 DEF Enumerates
    <2> QED
      BY <1>k, <2>1
  <1>7. \A i, j \in 1..m : i < j => s[i] < s[j]
    BY <1>4, <1>6 DEF Enumerates
  <1>8. \A i \in 1..L : i \in K => \E n \in 1..m : s[n] = i
    <2> SUFFICES ASSUME NEW i \in 1..L, i \in K PROVE \E n \in 1..m : s[n] = i
      OBVIOUS
    <2>1. \E n \in 1..Len(s) : h[n] = i
      BY <1>1, <1>4 DEF Enumerates
    <2> QED
      BY <1>6, <2>1
  <1> HIDE DEF m
  <1>9. 1 \in 1..m /\ s[1] = 1
    <2>1. PICK n \in 1..m : s[n] = 1
      BY <1>1, <1>k, <1>8
    <2>2. 1 \in 1..m
      BY <1>5
    <2>3. s[1] \in 1..L
      BY <1>5, <2>2
    <2>4. ~(1 < n)
      BY <1>1, <1>7, <2>1, <2>2, <2>3
    <2> QED
      BY <1>5, <2>1, <2>2, <2>4
  <1>10. /\ next(m) = L + 1
         /\ \A n \in 1..(m - 1) : next(n) = s[n + 1] /\ n + 1 \in 1..m /\ n \in 1..m
    BY <1>5
  <1>11. \A n \in 1..m : next(n) \in Nat /\ s[n] \in Nat /\ s[n] < next(n)
    <2> SUFFICES ASSUME NEW n \in 1..m
                 PROVE  next(n) \in Nat /\ s[n] \in Nat /\ s[n] < next(n)
      OBVIOUS
    <2>1. s[n] \in 1..L /\ s[n] \in Nat
      BY <1>1, <1>5
    <2>2. CASE n = m
      BY <1>1, <1>10, <2>1, <2>2
    <2>3. CASE n # m
      <3>1. n \in 1..(m - 1) /\ n < n + 1
        BY <1>5, <2>3
      <3>2. next(n) = s[n + 1] /\ n + 1 \in 1..m
        BY <1>10, <3>1
      <3>3. s[n + 1] \in 1..L /\ s[n] < s[n + 1]
        BY <1>5, <1>7, <3>1, <3>2
      <3> QED
        BY <1>1, <2>1, <3>2, <3>3
    <2> QED
      BY <2>2, <2>3
  <1> HIDE DEF next
  <1> DEFINE counts == [n \in 1..m |-> next(n) - s[n]]
             sum(n) == Total(SubSeq(counts, 1, n))
  <1>12. counts \in Seq(Nat) /\ Len(counts) = m /\ \A n \in 1..m : counts[n] = next(n) - s[n]
    <2>1. \A n \in 1..m : next(n) - s[n] \in Nat
      BY <1>11
    <2> HIDE DEF next
    <2> QED
      BY <1>5, <2>1
  <1> HIDE DEF counts
  <1>13. /\ sum(0) = 0
         /\ \A n \in 1..m : sum(n) = next(n) - 1
    <2> DEFINE N == {n \in Nat : n \in 1..m => sum(n) = next(n) - 1}
    <2>1. sum(0) = 0
      <3>1. SubSeq(counts, 1, 0) = <<>>
        BY <1>12
      <3> QED
        BY <3>1, TotalEmpty
    <2>2. 0 \in N
      OBVIOUS
    <2>3. ASSUME NEW n \in Nat, n \in N PROVE n + 1 \in N
      <3> SUFFICES ASSUME n + 1 \in 1..m PROVE sum(n + 1) = next(n + 1) - 1
        OBVIOUS
      <3>1. /\ n + 1 \in 1..Len(counts) /\ n + 1 - 1 = n /\ counts \in Seq(Int)
            /\ n \in 0..m
        BY <1>5, <1>12
      <3>2. Total(SubSeq(counts, 1, n + 1)) = Total(SubSeq(counts, 1, n + 1 - 1)) + counts[n + 1]
        BY <3>1, TotalPrefix
      <3>3. sum(n + 1) = sum(n) + (next(n + 1) - s[n + 1])
        BY <1>12, <3>1, <3>2
      <3>a. next(n + 1) \in Nat /\ s[n + 1] \in Nat
        BY <1>11
      <3> HIDE DEF sum
      <3>4. CASE n = 0
        BY <1>9, <2>1, <3>3, <3>4, <3>a
      <3>5. CASE n # 0
        <4>1. n \in 1..(m - 1)
          BY <1>5, <3>5
        <4>2. next(n) = s[n + 1] /\ n \in 1..m
          BY <1>10, <4>1
        <4>3. sum(n) = next(n) - 1
          BY <2>3, <4>2
        <4> QED
          BY <3>3, <3>a, <4>2, <4>3
      <3> QED
        BY <3>4, <3>5
    <2>4. Nat \subseteq N
      <3> HIDE DEF N
      <3> QED
        BY <2>2, <2>3, NumberInduction
    <2>5. \A n \in 1..m : n \in Nat
      BY <1>5
    <2> QED
      BY <2>1, <2>4, <2>5
  <1>14. DOMAIN r = 1..m /\ \A n \in 1..m : r[n] = <<next(n) - s[n], indices[s[n]]>>
    BY <1>2, <1>5
  <1> HIDE DEF r
  <1>15. ASSUME NEW n \in 0..m
         PROVE  LET count(run) == run[1]
                IN  SumOf(SubSeq(r, 1, n), count) = sum(n)
    <2> DEFINE count(run) == run[1]
               a == SubSeq(r, 1, n)
               b == SubSeq(counts, 1, n)
               S == {r[i] : i \in 1..m}
    <2>1. r \in Seq(S) /\ Len(r) = m
      <3>2. \A i \in 1..m : r[i] \in S
        OBVIOUS
      <3> HIDE DEF S
      <3>3. r \in [1..m -> S]
        BY <1>2, <1>5, <1>14, <3>2
      <3> QED
        BY <1>5, <3>3
    <2> HIDE DEF S
    <2>2. DOMAIN a = 1..n /\ \A i \in 1..n : a[i] = r[i]
      <3>1. a \in Seq(S) /\ Len(a) = n /\ \A i \in 1..n : a[i] = r[i]
        BY <2>1, PrefixIs
      <3> HIDE DEF a
      <3> QED
        BY <3>1
    <2>3. b = [i \in 1..n |-> counts[i]]
      <3>1. b \in Seq(Nat) /\ Len(b) = n /\ \A i \in 1..n : b[i] = counts[i]
        BY <1>12, PrefixIs
      <3> HIDE DEF b
      <3> QED
        BY <3>1
    <2> HIDE DEF a, b
    <2>4. \A i \in 1..n : count(a[i]) = counts[i]
      BY <1>5, <1>12, <1>14, <2>2
    <2> HIDE DEF count
    <2>5. [i \in DOMAIN a |-> count(a[i])] = b
      BY <2>2, <2>3, <2>4
    <2>6. SumOf(a, count) = Total(b)
      BY <2>5 DEF SumOf
    <2> QED
      BY <2>6 DEF a, b, count
  <1>16. ASSUME NEW n \in 1..m
         PROVE  Covers(r, n, k) <=> s[n] <= k /\ k < next(n)
    <2>1. n \in 0..m /\ n - 1 \in 0..m
      BY <1>5
    <2> DEFINE count(run) == run[1]
    <2>2. Covers(r, n, k) <=> SumOf(SubSeq(r, 1, n - 1), count) < k
                                /\ k <= SumOf(SubSeq(r, 1, n), count)
      BY DEF Covers
    <2>3. SumOf(SubSeq(r, 1, n - 1), count) = sum(n - 1) /\ SumOf(SubSeq(r, 1, n), count) = sum(n)
      BY <1>15, <2>1
    <2> HIDE DEF sum, count
    <2>4. Covers(r, n, k) <=> sum(n - 1) < k /\ k <= sum(n)
      BY <2>2, <2>3
    <2>5. sum(n) = next(n) - 1 /\ next(n) \in Nat /\ s[n] \in Nat
      BY <1>11, <1>13
    <2>6. sum(n - 1) = s[n] - 1
      <3>1. CASE n = 1
        BY <1>9, <1>13, <3>1
      <3>2. CASE n # 1
        <4>1. n - 1 \in 1..(m - 1) /\ n - 1 + 1 = n
          BY <1>5, <3>2
        <4>2. next(n - 1) = s[n] /\ n - 1 \in 1..m
          BY <1>10, <4>1
        <4> QED
          BY <1>13, <4>2
      <3> QED
        BY <3>1, <3>2
    <2> QED
      BY <1>1, <2>4, <2>5, <2>6
  <1>17. \E n \in 1..m : s[n] <= k /\ k < next(n)
    <2> DEFINE T == {n \in 1..m : k < next(n)}
    <2>1. m \in T
      BY <1>1, <1>5, <1>9, <1>10
    <2>2. T \in SUBSET Nat
      BY <1>5
    <2>3. PICK n \in T : \A j \in T : n <= j
      BY <2>1, <2>2, LeastNumber
    <2>4. n \in 1..m /\ k < next(n)
      OBVIOUS
    <2>5. CASE n = 1
      BY <1>1, <1>9, <2>4, <2>5
    <2>6. CASE n # 1
      <3>1. n - 1 \in 1..(m - 1) /\ n - 1 + 1 = n /\ n - 1 \in 1..m /\ ~(n <= n - 1)
        BY <1>5, <2>4, <2>6
      <3>2. next(n - 1) = s[n]
        BY <1>10, <3>1
      <3>3. ~(k < next(n - 1))
        BY <2>3, <3>1
      <3>4. s[n] \in Nat
        BY <1>11, <2>4
      <3> QED
        BY <1>1, <2>4, <3>2, <3>3, <3>4
    <2> QED
      BY <2>5, <2>6
  <1>18. ASSUME NEW n \in 1..m, s[n] <= k, k < next(n)
         PROVE  indices[s[n]] = indices[k]
    <2> DEFINE T == {j \in Nat : s[n] <= j /\ j <= k /\ indices[j] # indices[s[n]]}
    <2>1. s[n] \in 1..L /\ s[n] \in Nat
      BY <1>1, <1>5
    <2> SUFFICES ASSUME T # {} PROVE FALSE
      BY <1>1, <1>18
    <2>2. PICK j \in T : \A i \in T : j <= i
      <3>1. T \in SUBSET Nat
        OBVIOUS
      <3> QED
        BY <3>1, LeastNumber
    <2>3. j \in Nat /\ s[n] <= j /\ j <= k /\ indices[j] # indices[s[n]]
      OBVIOUS
    <2>4. j # s[n]
      BY <2>3
    <2>5. j - 1 \in Nat /\ s[n] <= j - 1 /\ j - 1 <= k /\ ~(j <= j - 1)
      BY <1>1, <2>1, <2>3, <2>4
    <2>6. indices[j - 1] = indices[s[n]]
      BY <2>2, <2>5
    <2>7. j \in 1..L /\ j # 1
      BY <1>1, <2>1, <2>3, <2>4
    <2>8. j \in K
      BY <1>k, <2>3, <2>6, <2>7
    <2>9. PICK i \in 1..m : s[i] = j
      BY <1>8, <2>7, <2>8
    <2>10. n < i
      <3> SUFFICES ASSUME ~(n < i) PROVE FALSE
        OBVIOUS
      <3>1. i = n \/ i < n
        BY <1>5
      <3>2. i < n => s[i] < s[n]
        BY <1>7
      <3> QED
        BY <2>1, <2>3, <2>4, <2>9, <3>1, <3>2
    <2>11. n \in 1..(m - 1) /\ n + 1 \in 1..m /\ (n + 1 = i \/ n + 1 < i)
      BY <1>5, <2>10
    <2>12. next(n) = s[n + 1]
      BY <1>10, <2>11
    <2>13. s[n + 1] \in Nat /\ s[i] \in Nat /\ (n + 1 < i => s[n + 1] < s[i])
      BY <1>7, <1>11, <2>11
    <2>14. s[n + 1] <= s[i]
      BY <2>11, <2>13
    <2> QED
      BY <1>1, <1>18, <2>3, <2>9, <2>12, <2>13, <2>14
  <1>19. \E n \in DOMAIN r : Covers(r, n, k)
    BY <1>14, <1>16, <1>17
  <1>20. \A n \in DOMAIN r : Covers(r, n, k) => r[n][2] = indices[k]
    <2> SUFFICES ASSUME NEW n \in 1..m, Covers(r, n, k) PROVE r[n][2] = indices[k]
      BY <1>14
    <2>1. s[n] <= k /\ k < next(n)
      BY <1>16
    <2>2. indices[s[n]] = indices[k]
      BY <1>18, <2>1
    <2> QED
      BY <1>14, <2>2
  <1> QED
    BY <1>19, <1>20 DEF r

(* The group of every sample reads back as the override it was given.      *)
LEMMA GroupsRead ==
    ASSUME NEW E, NEW seig \in Seq(SUBSET E),
           \A i \in 1..Len(seig) : \A x, y \in seig[i] : x = y,
           NEW k \in 1..Len(seig)
    PROVE  ReadGroup(SeigGroups(seig), k) = seig[k]
  <1>1. CASE SeigGroups(seig) = {}
    <2>1. k \in DOMAIN seig
      OBVIOUS
    <2>2. seig[k] = {}
      BY <1>1, <2>1, SeigGroupIs
    <2> QED
      BY <1>1, <2>2 DEF ReadGroup
  <1>2. CASE SeigGroups(seig) # {}
    <2> DEFINE g == ValueOf(SeigGroups(seig), {})
               indices == [i \in DOMAIN seig |-> GroupIndex(seig, i)]
               r == g.sbgp
               n == CHOOSE n \in DOMAIN r : Covers(r, n, k)
               index == r[n][2]
    <2>1. g.sgpd = Uniques(seig) /\ r = RunLengths(indices)
      BY <1>2, SeigGroupIs DEF SeigGroup
    <2>2. ReadGroup(SeigGroups(seig), k)
            = IF index = 0 THEN {} ELSE {g.sgpd[index - LocalGroupBase + 1]}
      <3> HIDE DEF g
      <3>1. ReadGroup(SeigGroups(seig), k)
              = LET count(run) == run[1]
                    covers(i) == SumOf(SubSeq(g.sbgp, 1, i - 1), count) < k
                                   /\ k <= SumOf(SubSeq(g.sbgp, 1, i), count)
                    x == g.sbgp[CHOOSE i \in DOMAIN g.sbgp : covers(i)][2]
                IN  IF x = 0 THEN {} ELSE {g.sgpd[x - LocalGroupBase + 1]}
        BY <1>2 DEF ReadGroup, g
      <3> QED
        BY <3>1 DEF Covers
    <2>3. indices \in Seq(Nat) /\ Len(indices) = Len(seig) /\ k \in 1..Len(indices)
          /\ indices[k] = GroupIndex(seig, k)
      <3>1. \A i \in 1..Len(seig) : GroupIndex(seig, i) \in Nat
        BY IndexReads
      <3>2. DOMAIN seig = 1..Len(seig) /\ Len(seig) \in Nat
        OBVIOUS
      <3> QED
        BY <3>1, <3>2
    <2> HIDE DEF g, indices
    <2>4. index = indices[k]
      <3>1. /\ \E i \in DOMAIN r : Covers(r, i, k)
            /\ \A i \in DOMAIN r : Covers(r, i, k) => r[i][2] = indices[k]
        BY <2>1, <2>3, RunsRead
      <3>2. n \in DOMAIN r /\ Covers(r, n, k)
        BY <3>1, Zenon
      <3> HIDE DEF r, n
      <3> QED
        BY <3>1, <3>2
    <2> HIDE DEF index
    <2>5. (IF index = 0 THEN {} ELSE {Uniques(seig)[index - LocalGroupBase + 1]}) = seig[k]
      BY <2>3, <2>4, IndexReads
    <2> QED
      BY <2>1, <2>2, <2>5
  <1> QED
    BY <1>1, <1>2
=============================================================================
