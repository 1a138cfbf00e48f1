--------------------------- MODULE LdInputsProofs ---------------------------
(***************************************************************************)
(* Proofs about LdInputs, for any command lines, files and scripts.        *)
(***************************************************************************)
EXTENDS LdInputs, FiniteSetTheorems, WellFoundedInduction, TLAPS

-----------------------------------------------------------------------------
(***************************************************************************)
(* Recursive functions over numbers.                                       *)
(***************************************************************************)

\* A set of numbers that is not empty has a least element.
LEMMA Least ==
  ASSUME NEW S \in SUBSET Nat, S # {}
  PROVE  \E m \in S : \A x \in S : m <= x
<1> DEFINE R == {ss \in Nat \X Nat : ss[1] < ss[2]}
<1>1. IsWellFoundedOn(R, Nat)
  BY NatLessThanWellFounded, Zenon DEF OpToRel
<1>2. PICK m \in S : \A x \in S : <<x, m>> \notin R
  <2> HIDE DEF R
  <2> QED  BY <1>1, WFMin, Zenon
<1>3. \A x \in S : ~(x < m)
  BY <1>2
<1> QED  BY <1>3

\* What holds of a number and passes from each number to the next holds up to n.
LEMMA CountUp ==
  ASSUME NEW l \in Nat, NEW n \in Nat, NEW S, l \in S,
         \A x \in (l + 1)..n : x - 1 \in S => x \in S
  PROVE  \A x \in l..n : x \in S
<1> DEFINE T == (l..n) \ S
<1> SUFFICES ASSUME T # {} PROVE FALSE
  OBVIOUS
<1>1. PICK m \in T : \A x \in T : m <= x
  <2>1. T \in SUBSET Nat
    OBVIOUS
  <2> HIDE DEF T
  <2> QED  BY <2>1, Least
<1>2. m \in (l + 1)..n /\ m - 1 \notin T
  BY <1>1
<1> QED  BY <1>1, <1>2

\* A recursion over numbers has a solution.
Solves(h, l, n, X, b, G) ==
  /\ h \in [l..n -> X] /\ h[l] = b
  /\ \A j \in (l + 1)..n : h[j] = G[<<j, h[j - 1]>>]

LEMMA Recursion ==
  ASSUME NEW l \in Nat, NEW n \in Nat, l <= n, NEW X, NEW b \in X,
         NEW G \in [((l + 1)..n) \X X -> X]
  PROVE  \E h : Solves(h, l, n, X, b, G)
<1> DEFINE R == {m \in l..n : \E h : Solves(h, l, m, X, b, G)}
<1>1. l \in R
  <2>1. Solves([j \in l..l |-> b], l, l, X, b, G)
    BY DEF Solves
  <2> QED  BY <2>1
<1>2. ASSUME NEW m \in (l + 1)..n, m - 1 \in R PROVE m \in R
  <2>1. PICK h : Solves(h, l, m - 1, X, b, G)
    BY <1>2
  <2> DEFINE g == [j \in l..m |-> IF j = m THEN G[<<m, h[m - 1]>>] ELSE h[j]]
  <2>2. m \in Nat /\ l <= m - 1 /\ m - 1 \in l..(m - 1) /\ h[m - 1] \in X
    BY <2>1 DEF Solves
  <2>3. G[<<m, h[m - 1]>>] \in X
    BY <2>2
  <2>4. g[m] = G[<<m, h[m - 1]>>] /\ \A j \in l..(m - 1) : g[j] = h[j]
    BY <2>2
  <2>5. g \in [l..m -> X] /\ g[l] = b
    <3>1. \A j \in l..m : j # m => j \in l..(m - 1)
      BY <2>2
    <3>2. l \in l..(m - 1)
      BY <2>2
    <3> QED  BY <2>1, <2>3, <2>4, <3>1, <3>2 DEF Solves
  <2> HIDE DEF g
  <2>6. ASSUME NEW j \in (l + 1)..m PROVE g[j] = G[<<j, g[j - 1]>>]
    <3>1. CASE j = m
      BY <2>2, <2>4, <3>1
    <3>2. CASE j # m
      <4>1. j \in (l + 1)..(m - 1) /\ j \in l..(m - 1) /\ j - 1 \in l..(m - 1)
        BY <2>2, <3>2
      <4> QED  BY <2>1, <2>4, <4>1 DEF Solves
    <3> QED  BY <3>1, <3>2
  <2>7. Solves(g, l, m, X, b, G)
    BY <2>5, <2>6 DEF Solves
  <2> QED  BY <2>2, <2>7
<1>3. \A m \in l..n : m \in R
  <2> HIDE DEF R
  <2> QED  BY <1>1, <1>2, CountUp
<1> QED  BY <1>3
-----------------------------------------------------------------------------
(***************************************************************************)
(* FlattenSeq, piece by piece.                                             *)
(***************************************************************************)

\* The first n pieces, and the last.
Before(s, n) == [j \in 1..n |-> s[j]]

Pieces(h, s, V) ==
  /\ h \in [0..Len(s) -> Seq(V)] /\ h[0] = <<>>
  /\ \A j \in 1..Len(s) : h[j] = h[j - 1] \o s[j]

LEMMA PiecesExist ==
  ASSUME NEW V, NEW s \in Seq(Seq(V))
  PROVE  \E h : Pieces(h, s, V)
<1> DEFINE n == Len(s)
           X == Seq(V)
           G == [x \in ((0 + 1)..n) \X X |-> x[2] \o s[x[1]]]
<1>1. n \in Nat /\ 0 <= n /\ (0 + 1)..n = 1..n /\ \A j \in 1..n : s[j] \in Seq(V)
  OBVIOUS
<1>2. G \in [((0 + 1)..n) \X X -> X]
  BY <1>1
<1>3. <<>> \in X
  OBVIOUS
<1>4. \E h : Solves(h, 0, n, X, <<>>, G)
  <2> HIDE DEF n, X, G
  <2> QED  BY <1>1, <1>2, <1>3, Recursion
<1>5. PICK h : Solves(h, 0, n, X, <<>>, G)
  BY <1>4
<1>6. ASSUME NEW j \in 1..n PROVE h[j] = h[j - 1] \o s[j]
  <2>0. j - 1 \in 0..n
    BY <1>1
  <2>1. h[j - 1] \in X
    BY <1>5, <2>0 DEF Solves
  <2>2. h[j] = G[<<j, h[j - 1]>>]
    BY <1>1, <1>5 DEF Solves
  <2> QED  BY <1>1, <2>1, <2>2
<1>7. Pieces(h, s, V)
  BY <1>5, <1>6 DEF Solves, Pieces
<1> QED  BY <1>7

\* What is flattened is what the pieces add up to.
FlatUnfolds(f, s) ==
  f = [j \in 1..Len(s) |-> IF j = 1 THEN s[j] ELSE f[j - 1] \o s[j]]

LEMMA FlatIs ==
  ASSUME NEW V, NEW s \in Seq(Seq(V)), NEW h, Pieces(h, s, V)
  PROVE  FlattenSeq(s) = h[Len(s)]
<1> DEFINE n == Len(s)
<1>1. n \in Nat /\ \A j \in 1..n : s[j] \in Seq(V)
  OBVIOUS
<1>2. CASE n = 0
  BY <1>1, <1>2 DEF FlattenSeq, Pieces
<1>3. CASE n # 0
  <2>1. h[1] = s[1]
    <3>0. 1 \in 1..n /\ 1 - 1 = 0
      BY <1>1, <1>3
    <3>1. h[1] = h[0] \o s[1] /\ h[0] = <<>> /\ s[1] \in Seq(V)
      BY <1>1, <3>0 DEF Pieces
    <3> QED  BY <3>1
  <2> DEFINE g == [j \in 1..n |-> h[j]]
  <2>2. FlatUnfolds(g, s)
    <3>1. \A j \in 1..n : j # 1 => j - 1 \in 1..n
      BY <1>1
    <3> QED  BY <1>1, <2>1, <3>1 DEF FlatUnfolds, Pieces
  <2> DEFINE f == CHOOSE f : FlatUnfolds(f, s)
  <2>3. FlattenSeq(s) = f[n]
    BY <1>3 DEF FlattenSeq, FlatUnfolds
  <2>4. FlatUnfolds(f, s)
    BY <2>2
  <2> HIDE DEF f
  <2> DEFINE S == {j \in 1..n : f[j] = h[j]}
  <2>5. 1 \in S
    BY <1>1, <1>3, <2>1, <2>4 DEF FlatUnfolds
  <2>6. ASSUME NEW j \in (1 + 1)..n, j - 1 \in S PROVE j \in S
    <3>1. j \in 1..n /\ j # 1 /\ f[j - 1] = h[j - 1]
      BY <1>1, <2>6
    <3>2. f[j] = f[j - 1] \o s[j]
      BY <2>4, <3>1 DEF FlatUnfolds
    <3>3. h[j] = h[j - 1] \o s[j]
      BY <3>1 DEF Pieces
    <3> QED  BY <3>1, <3>2, <3>3
  <2>7. \A j \in 1..n : j \in S
    <3> HIDE DEF S, n
    <3> QED  BY <1>1, <2>5, <2>6, CountUp
  <2> QED  BY <1>1, <1>3, <2>3, <2>7
<1> QED  BY <1>2, <1>3

LEMMA FlatBefore ==
  ASSUME NEW V, NEW s \in Seq(Seq(V))
  PROVE  /\ FlattenSeq(Before(s, 0)) = <<>>
         /\ \A n \in 1..Len(s) : FlattenSeq(Before(s, n)) = FlattenSeq(Before(s, n - 1)) \o s[n]
         /\ \A n \in 0..Len(s) : FlattenSeq(Before(s, n)) \in Seq(V)
         /\ FlattenSeq(s) = FlattenSeq(Before(s, Len(s)))
<1>1. PICK h : Pieces(h, s, V)
  BY PiecesExist
<1>2. Len(s) \in Nat /\ \A j \in 1..Len(s) : s[j] \in Seq(V)
  OBVIOUS
<1>3. ASSUME NEW n \in 0..Len(s)
      PROVE  FlattenSeq(Before(s, n)) = h[n]
  <2> DEFINE c == Before(s, n)
             g == [j \in 0..n |-> h[j]]
  <2>1. c \in Seq(Seq(V)) /\ Len(c) = n /\ \A j \in 1..n : c[j] = s[j]
    BY <1>2 DEF Before
  <2>2. g \in [0..n -> Seq(V)] /\ g[0] = <<>> /\ \A j \in 0..n : g[j] = h[j]
    BY <1>1, <1>2 DEF Pieces
  <2>3. ASSUME NEW j \in 1..n
        PROVE  h[j] = h[j - 1] \o s[j] /\ j \in 0..n /\ j - 1 \in 0..n
    <3>1. j \in 1..Len(s) /\ j \in 0..n /\ j - 1 \in 0..n
      BY <1>2
    <3> QED  BY <1>1, <3>1 DEF Pieces
  <2> HIDE DEF c, g
  <2>4. Pieces(g, c, V)
    BY <2>1, <2>2, <2>3 DEF Pieces
  <2>5. FlattenSeq(c) = g[n]
    BY <2>1, <2>4, FlatIs
  <2> QED  BY <2>2, <2>5 DEF c
<1>4. FlattenSeq(s) = h[Len(s)]
  BY <1>1, FlatIs
<1>5. \A n \in 1..Len(s) : n \in 0..Len(s) /\ n - 1 \in 0..Len(s)
  BY <1>2
<1>6. 0 \in 0..Len(s) /\ Len(s) \in 0..Len(s)
  BY <1>2
<1> QED  BY <1>1, <1>3, <1>4, <1>5, <1>6 DEF Pieces

LEMMA FlatType ==
  ASSUME NEW V, NEW s \in Seq(Seq(V))
  PROVE  FlattenSeq(s) \in Seq(V)
<1>1. Len(s) \in 0..Len(s)
  OBVIOUS
<1>2. FlattenSeq(s) = FlattenSeq(Before(s, Len(s)))
  BY FlatBefore
<1>3. \A n \in 0..Len(s) : FlattenSeq(Before(s, n)) \in Seq(V)
  BY FlatBefore
<1> QED  BY <1>1, <1>2, <1>3

\* Pieces of one element each.
LEMMA FlatSingles ==
  ASSUME NEW V, NEW s \in Seq(Seq(V)), NEW t \in Seq(V), Len(t) = Len(s),
         \A j \in 1..Len(s) : s[j] = <<t[j]>>
  PROVE  FlattenSeq(s) = t
<1> DEFINE n == Len(s)
           h == [m \in 0..n |-> Before(t, m)]
<1>1. n \in Nat /\ \A j \in 1..n : t[j] \in V
  OBVIOUS
<1>2. ASSUME NEW m \in 0..n
      PROVE  /\ h[m] \in Seq(V) /\ Len(h[m]) = m
             /\ \A j \in 1..m : h[m][j] = t[j]
  <2>1. h[m] = [j \in 1..m |-> t[j]]
    BY DEF Before
  <2>2. m \in Nat /\ \A j \in 1..m : t[j] \in V
    BY <1>1
  <2> DEFINE b == h[m]
  <2>3. b = [j \in 1..m |-> t[j]]
    BY <2>1
  <2> HIDE DEF b, h
  <2>4. b \in Seq(V)
    BY <2>2, <2>3
  <2>5. Len(b) = m
    BY <2>2, <2>3
  <2>6. \A j \in 1..m : b[j] = t[j]
    BY <2>3
  <2> QED  BY <2>4, <2>5, <2>6 DEF b
<1>3. h \in [0..n -> Seq(V)]
  BY <1>2
<1> HIDE DEF h
<1>4. h[0] = <<>>
  BY <1>1, <1>2
<1>5. ASSUME NEW m \in 1..n PROVE h[m] = h[m - 1] \o s[m]
  <2>1. m \in 0..n /\ m - 1 \in 0..n /\ m \in Nat
    BY <1>1
  <2>2. h[m] \in Seq(V) /\ Len(h[m]) = m /\ h[m - 1] \in Seq(V) /\ Len(h[m - 1]) = m - 1
    BY <1>2, <2>1
  <2>3. s[m] = <<t[m]>> /\ t[m] \in V
    BY <1>1
  <2> DEFINE c == h[m - 1] \o <<t[m]>>
  <2>4. /\ c \in Seq(V) /\ Len(c) = m /\ c[m] = t[m]
        /\ \A j \in 1..(m - 1) : c[j] = h[m - 1][j]
    BY <2>1, <2>2, <2>3
  <2> HIDE DEF c
  <2>5. ASSUME NEW j \in 1..m PROVE c[j] = h[m][j]
    <3>1. CASE j = m
      BY <1>2, <2>1, <2>4, <3>1
    <3>2. CASE j # m
      <4>1. j \in 1..(m - 1)
        BY <2>1, <3>2
      <4> QED  BY <1>2, <2>1, <2>4, <4>1
    <3> QED  BY <3>1, <3>2
  <2>6. c = h[m]
    BY <2>1, <2>2, <2>4, <2>5
  <2> QED  BY <2>3, <2>6 DEF c
<1>6. Pieces(h, s, V)
  BY <1>3, <1>4, <1>5 DEF Pieces
<1>7. FlattenSeq(s) = h[n]
  BY <1>6, FlatIs
<1>8. h[n] = t
  <2>1. n \in 0..n
    BY <1>1
  <2>2. h[n] \in Seq(V) /\ Len(h[n]) = n /\ \A j \in 1..n : h[n][j] = t[j]
    BY <1>2, <2>1
  <2>3. Len(t) = n
    OBVIOUS
  <2> DEFINE c == h[n]
  <2>4. c \in Seq(V) /\ Len(c) = Len(t) /\ \A j \in 1..Len(t) : c[j] = t[j]
    BY <2>2, <2>3
  <2> HIDE DEF c, n
  <2>5. c = t
    BY <2>4
  <2> QED  BY <2>5 DEF c
<1> QED  BY <1>7, <1>8

\* What is in the whole is in a piece.
LEMMA ToSetConcat ==
  ASSUME NEW V, NEW s \in Seq(V), NEW t \in Seq(V)
  PROVE  ToSet(s \o t) = ToSet(s) \cup ToSet(t)
<1>1. Len(s) \in Nat /\ Len(t) \in Nat /\ Len(s \o t) = Len(s) + Len(t) /\ s \o t \in Seq(V)
  OBVIOUS
<1>2. \A x \in ToSet(s \o t) : x \in ToSet(s) \cup ToSet(t)
  <2> SUFFICES ASSUME NEW j \in 1..(Len(s) + Len(t))
               PROVE  (s \o t)[j] \in ToSet(s) \cup ToSet(t)
    BY <1>1 DEF ToSet
  <2>1. CASE j <= Len(s)
    BY <1>1, <2>1 DEF ToSet
  <2>2. CASE j > Len(s)
    <3>1. (s \o t)[j] = t[j - Len(s)] /\ j - Len(s) \in 1..Len(t)
      BY <1>1, <2>2
    <3> QED  BY <1>1, <3>1 DEF ToSet
  <2> QED  BY <1>1, <2>1, <2>2
<1>3. \A x \in ToSet(s) : x \in ToSet(s \o t)
  <2>0. \A x \in ToSet(s) : \E j \in 1..Len(s) : x = s[j]
    BY DEF ToSet
  <2> SUFFICES ASSUME NEW j \in 1..Len(s) PROVE s[j] \in ToSet(s \o t)
    BY <2>0, Zenon
  <2>1. j \in 1..Len(s \o t) /\ (s \o t)[j] = s[j]
    BY <1>1
  <2> QED  BY <1>1, <2>1 DEF ToSet
<1>4. \A x \in ToSet(t) : x \in ToSet(s \o t)
  <2>0. \A x \in ToSet(t) : \E j \in 1..Len(t) : x = t[j]
    BY DEF ToSet
  <2> SUFFICES ASSUME NEW j \in 1..Len(t) PROVE t[j] \in ToSet(s \o t)
    BY <2>0, Zenon
  <2>1. Len(s) + j \in 1..Len(s \o t) /\ (s \o t)[Len(s) + j] = t[j]
    BY <1>1
  <2> QED  BY <1>1, <2>1 DEF ToSet
<1> QED  BY <1>2, <1>3, <1>4

LEMMA FlatElements ==
  ASSUME NEW V, NEW s \in Seq(Seq(V))
  PROVE  ToSet(FlattenSeq(s)) = UNION {ToSet(s[j]) : j \in 1..Len(s)}
<1> DEFINE F(n) == FlattenSeq(Before(s, n))
           S == {n \in 0..Len(s) : ToSet(F(n)) = UNION {ToSet(s[j]) : j \in 1..n}}
<1>1. Len(s) \in Nat /\ \A j \in 1..Len(s) : s[j] \in Seq(V)
  OBVIOUS
<1>2. /\ F(0) = <<>> /\ FlattenSeq(s) = F(Len(s))
      /\ \A n \in 1..Len(s) : F(n) = F(n - 1) \o s[n]
      /\ \A n \in 0..Len(s) : F(n) \in Seq(V)
  BY FlatBefore
<1> HIDE DEF F
<1>3. 0 \in S
  <2>1. ToSet(<<>>) = {} /\ 1..0 = {}
    BY DEF ToSet
  <2> QED  BY <1>1, <1>2, <2>1
<1>4. ASSUME NEW n \in (0 + 1)..Len(s), n - 1 \in S PROVE n \in S
  <2>1. n \in 1..Len(s) /\ n - 1 \in 0..Len(s) /\ n \in 0..Len(s) /\ 1..n = (1..(n - 1)) \cup {n}
    BY <1>1
  <2>2. ToSet(F(n)) = ToSet(F(n - 1)) \cup ToSet(s[n])
    <3>1. F(n) = F(n - 1) \o s[n] /\ F(n - 1) \in Seq(V) /\ s[n] \in Seq(V)
      BY <1>1, <1>2, <2>1
    <3> QED  BY <3>1, ToSetConcat
  <2>3. ToSet(F(n - 1)) = UNION {ToSet(s[j]) : j \in 1..(n - 1)}
    BY <1>4
  <2>4. UNION {ToSet(s[j]) : j \in 1..n} = (UNION {ToSet(s[j]) : j \in 1..(n - 1)}) \cup ToSet(s[n])
    BY <2>1
  <2> QED  BY <2>1, <2>2, <2>3, <2>4
<1>5. \A n \in 0..Len(s) : n \in S
  <2> HIDE DEF S
  <2> QED  BY <1>1, <1>3, <1>4, CountUp
<1>6. Len(s) \in S
  <2>1. Len(s) \in 0..Len(s)
    BY <1>1
  <2> HIDE DEF S
  <2> QED  BY <1>5, <2>1
<1> QED  BY <1>2, <1>6
-----------------------------------------------------------------------------
(***************************************************************************)
(* Answers, one after the other.                                           *)
(***************************************************************************)

LEMMA ThenMember ==
  ASSUME NEW A, NEW B, NEW x
  PROVE  x \in Then(A, B) <=> \E a \in A, b \in B : x = a \o b
BY DEF Then

LEMMA ThenFacts ==
  ASSUME NEW U, NEW A \in SUBSET Seq(U), NEW B \in SUBSET Seq(U)
  PROVE  /\ Then(A, B) \in SUBSET Seq(U)
         /\ Then({}, B) = {}
         /\ Then({<<>>}, B) = B
<1>1. \A a \in Seq(U), b \in Seq(U) : a \o b \in Seq(U)
  OBVIOUS
<1>2. \A b \in Seq(U) : <<>> \o b = b
  OBVIOUS
<1>3. Then(A, B) \in SUBSET Seq(U)
  <2> SUFFICES ASSUME NEW x \in Then(A, B) PROVE x \in Seq(U)
    OBVIOUS
  <2>1. PICK a \in A, b \in B : x = a \o b
    BY DEF Then
  <2> QED  BY <1>1, <2>1
<1>4. Then({}, B) = {}
  BY DEF Then
<1>5. Then({<<>>}, B) = B
  BY <1>2 DEF Then
<1> QED  BY <1>3, <1>4, <1>5

LEMMA ThenAssoc ==
  ASSUME NEW U, NEW A \in SUBSET Seq(U), NEW B \in SUBSET Seq(U), NEW C \in SUBSET Seq(U)
  PROVE  Then(Then(A, B), C) = Then(A, Then(B, C))
<1> DEFINE AB == Then(A, B)
           BC == Then(B, C)
<1>1. \A a \in Seq(U), b \in Seq(U), c \in Seq(U) : (a \o b) \o c = a \o (b \o c)
  OBVIOUS
<1>2. \A x : x \in AB <=> \E a \in A, b \in B : x = a \o b
  BY DEF Then
<1>3. \A x : x \in BC <=> \E b \in B, c \in C : x = b \o c
  BY DEF Then
<1> HIDE DEF AB, BC
<1>4. ASSUME NEW x \in Then(AB, C) PROVE x \in Then(A, BC)
  <2>1. PICK y \in AB, c \in C : x = y \o c
    BY DEF Then
  <2>2. PICK a \in A, b \in B : y = a \o b
    BY <1>2
  <2>3. b \o c \in BC
    BY <1>3
  <2>4. x = a \o (b \o c)
    BY <1>1, <2>1, <2>2
  <2> QED  BY <2>3, <2>4, ThenMember, Zenon
<1>5. ASSUME NEW x \in Then(A, BC) PROVE x \in Then(AB, C)
  <2>1. PICK a \in A, y \in BC : x = a \o y
    BY DEF Then
  <2>2. PICK b \in B, c \in C : y = b \o c
    BY <1>3
  <2>3. a \o b \in AB
    BY <1>2
  <2>4. x = (a \o b) \o c
    BY <1>1, <2>1, <2>2
  <2> QED  BY <2>3, <2>4, ThenMember, Zenon
<1>6. Then(AB, C) = Then(A, BC)
  BY <1>4, <1>5
<1> QED  BY <1>6 DEF AB, BC

\* One unit more, and what comes after it.
AppendsOne(a, x, C) == Then({a}, Then({<<x>>}, C)) = Then({Append(a, x)}, C)
LEMMA ThenAppend ==
  ASSUME NEW U, NEW a \in Seq(U), NEW x \in U, NEW C \in SUBSET Seq(U)
  PROVE  AppendsOne(a, x, C)
<1> DEFINE A == {a}
           B == {<<x>>}
<1>1. A \in SUBSET Seq(U) /\ B \in SUBSET Seq(U)
  OBVIOUS
<1>2. a \o <<x>> = Append(a, x)
  OBVIOUS
<1>3. Then(A, B) = {Append(a, x)}
  BY <1>2 DEF Then
<1>4. Then(Then(A, B), C) = Then(A, Then(B, C))
  <2> HIDE DEF A, B
  <2> QED  BY <1>1, ThenAssoc
<1> QED  BY <1>3, <1>4, Zenon DEF AppendsOne

\* Together, from the last part on.
Joins(h, parts, U) ==
  /\ h \in [0..Len(parts) -> SUBSET Seq(U)] /\ h[0] = {<<>>}
  /\ \A n \in 1..Len(parts) : h[n] = Then(parts[Len(parts) + 1 - n], h[n - 1])

LEMMA JoinExists ==
  ASSUME NEW U, NEW parts \in Seq(SUBSET Seq(U))
  PROVE  \E h : Joins(h, parts, U)
<1> DEFINE l == Len(parts)
           X == SUBSET Seq(U)
           G == [x \in ((0 + 1)..l) \X X |-> Then(parts[l + 1 - x[1]], x[2])]
<1>1. l \in Nat /\ 0 <= l /\ (0 + 1)..l = 1..l
  OBVIOUS
<1>2. ASSUME NEW n \in 1..l PROVE parts[l + 1 - n] \in X
  <2>1. l + 1 - n \in 1..l
    BY <1>1
  <2> QED  BY <2>1
<1>3. G \in [((0 + 1)..l) \X X -> X]
  <2>1. \A n \in 1..l, A \in X : Then(parts[l + 1 - n], A) \in X
    BY <1>2, ThenFacts
  <2> QED  BY <1>1, <2>1
<1>4. {<<>>} \in X
  OBVIOUS
<1>5. \E h : Solves(h, 0, l, X, {<<>>}, G)
  <2> HIDE DEF l, X, G
  <2> QED  BY <1>1, <1>3, <1>4, Recursion
<1>6. PICK h : Solves(h, 0, l, X, {<<>>}, G)
  BY <1>5
<1>7. ASSUME NEW n \in 1..l PROVE h[n] = Then(parts[l + 1 - n], h[n - 1])
  <2>0. n - 1 \in 0..l
    BY <1>1
  <2>1. h[n - 1] \in X
    BY <1>6, <2>0 DEF Solves
  <2>2. h[n] = G[<<n, h[n - 1]>>]
    BY <1>1, <1>6 DEF Solves
  <2> QED  BY <1>1, <2>1, <2>2
<1>8. Joins(h, parts, U)
  BY <1>6, <1>7 DEF Solves, Joins
<1> QED  BY <1>8

JoinUnfolds(f, parts) ==
  f = [n \in 0..Len(parts) |-> IF n = 0 THEN {<<>>} ELSE Then(parts[Len(parts) + 1 - n], f[n - 1])]

LEMMA TogetherIs ==
  ASSUME NEW U, NEW parts \in Seq(SUBSET Seq(U)), NEW h, Joins(h, parts, U)
  PROVE  Together(parts) = h[Len(parts)]
<1> DEFINE l == Len(parts)
<1>1. l \in Nat
  OBVIOUS
<1>2. JoinUnfolds(h, parts)
  <2>1. h = [n \in 0..l |-> h[n]]
    BY DEF Joins
  <2>2. \A n \in 0..l : n # 0 => n \in 1..l
    BY <1>1
  <2> QED  BY <2>1, <2>2 DEF Joins, JoinUnfolds
<1> DEFINE f == CHOOSE f : JoinUnfolds(f, parts)
<1>3. Together(parts) = f[l]
  BY DEF Together, JoinUnfolds
<1>4. JoinUnfolds(f, parts)
  BY <1>2
<1> HIDE DEF f
<1> DEFINE S == {n \in 0..l : f[n] = h[n]}
<1>5. 0 \in S
  BY <1>1, <1>4 DEF JoinUnfolds, Joins
<1>6. ASSUME NEW n \in (0 + 1)..l, n - 1 \in S PROVE n \in S
  <2>1. n \in 1..l /\ n \in 0..l /\ n # 0 /\ f[n - 1] = h[n - 1]
    BY <1>1, <1>6
  <2> QED  BY <1>4, <2>1 DEF JoinUnfolds, Joins
<1>7. \A n \in 0..l : n \in S
  <2> HIDE DEF S, l
  <2> QED  BY <1>1, <1>5, <1>6, CountUp
<1>8. l \in 0..l
  BY <1>1
<1>9. f[l] = h[l]
  BY <1>7, <1>8
<1> QED  BY <1>3, <1>9

LEMMA TogetherEmpty == Together(<<>>) = {<<>>}
<1>1. <<>> \in Seq(SUBSET Seq({})) /\ Len(<<>>) = 0
  OBVIOUS
<1>2. \E h : Joins(h, <<>>, {})
  BY <1>1, JoinExists
<1>3. PICK h : Joins(h, <<>>, {})
  BY <1>2
<1>4. Together(<<>>) = h[0]
  BY <1>1, <1>3, TogetherIs
<1> QED  BY <1>3, <1>4 DEF Joins

\* The first part, then all others.
LEMMA TogetherTail ==
  ASSUME NEW U, NEW parts \in Seq(SUBSET Seq(U)), parts # <<>>
  PROVE  Together(parts) = Then(Head(parts), Together(Tail(parts)))
<1> DEFINE l == Len(parts)
           t == Tail(parts)
<1>1. /\ l \in Nat \ {0} /\ t \in Seq(SUBSET Seq(U)) /\ Len(t) = l - 1 /\ Head(parts) = parts[1]
      /\ \A n \in 1..(l - 1) : t[n] = parts[n + 1]
  OBVIOUS
<1>2. PICK h : Joins(h, parts, U)
  BY JoinExists
<1> DEFINE g == [n \in 0..(l - 1) |-> h[n]]
<1>3. ASSUME NEW n \in 1..(l - 1) PROVE h[n] = Then(t[l - 1 + 1 - n], h[n - 1])
  <2>1. n \in 1..l /\ l - 1 + 1 - n \in 1..(l - 1) /\ (l - 1 + 1 - n) + 1 = l + 1 - n
    BY <1>1
  <2>2. t[l - 1 + 1 - n] = parts[l + 1 - n]
    BY <1>1, <2>1
  <2> HIDE DEF t
  <2> QED  BY <1>2, <2>1, <2>2 DEF Joins
<1>4. Joins(g, t, U)
  <2>1. g \in [0..(l - 1) -> SUBSET Seq(U)] /\ g[0] = {<<>>}
    <3>1. \A n \in 0..(l - 1) : n \in 0..l
      BY <1>1
    <3>2. 0 \in 0..(l - 1)
      BY <1>1
    <3> QED  BY <1>2, <3>1, <3>2 DEF Joins
  <2>2. ASSUME NEW n \in 1..(l - 1) PROVE g[n] = h[n] /\ g[n - 1] = h[n - 1]
    <3>1. n \in 0..(l - 1) /\ n - 1 \in 0..(l - 1)
      BY <1>1
    <3> QED  BY <3>1
  <2> HIDE DEF g, t
  <2> QED  BY <1>1, <1>3, <2>1, <2>2 DEF Joins
<1>5. g[l - 1] = h[l - 1]
  <2>1. l - 1 \in 0..(l - 1)
    BY <1>1
  <2> QED  BY <2>1
<1>6. Together(t) = h[l - 1]
  <2> HIDE DEF t, g
  <2> QED  BY <1>1, <1>4, <1>5, TogetherIs
<1>7. h[l] = Then(parts[1], h[l - 1])
  <2>1. l \in 1..l /\ l + 1 - l = 1
    BY <1>1
  <2> QED  BY <1>2, <2>1 DEF Joins
<1>8. Together(parts) = h[l]
  BY <1>2, TogetherIs
<1> QED  BY <1>1, <1>6, <1>7, <1>8

LEMMA TogetherType ==
  ASSUME NEW U, NEW parts \in Seq(SUBSET Seq(U))
  PROVE  Together(parts) \in SUBSET Seq(U)
<1>1. PICK h : Joins(h, parts, U)
  BY JoinExists
<1>2. Together(parts) = h[Len(parts)] /\ Len(parts) \in 0..Len(parts)
  BY <1>1, TogetherIs
<1> QED  BY <1>1, <1>2 DEF Joins

\* Where one part has no answer, there is none.
LEMMA TogetherNone ==
  ASSUME NEW U, NEW parts \in Seq(SUBSET Seq(U)), NEW k \in DOMAIN parts, parts[k] = {}
  PROVE  Together(parts) = {}
<1> DEFINE l == Len(parts)
<1>1. PICK h : Joins(h, parts, U)
  BY JoinExists
<1>2. l \in Nat /\ k \in 1..l
  OBVIOUS
<1> DEFINE S == {n \in 0..l : h[n] = {}}
           m == l + 1 - k
<1>3. m \in 1..l /\ m \in 0..l /\ m - 1 \in 0..l /\ l + 1 - m = k /\ m \in Nat
  BY <1>2
<1>4. h[m] = Then({}, h[m - 1])
  BY <1>1, <1>3 DEF Joins
<1>5. m \in S
  BY <1>3, <1>4 DEF Then
<1> HIDE DEF m
<1>6. ASSUME NEW n \in (m + 1)..l, n - 1 \in S PROVE n \in S
  <2>1. n \in 1..l /\ n \in 0..l /\ h[n - 1] = {}
    BY <1>3, <1>6
  <2>2. h[n] = Then(parts[l + 1 - n], {})
    BY <1>1, <2>1 DEF Joins
  <2> QED  BY <2>1, <2>2 DEF Then
<1>7. \A n \in m..l : n \in S
  <2> HIDE DEF S, l
  <2> QED  BY <1>2, <1>3, <1>5, <1>6, CountUp
<1>8. l \in m..l
  BY <1>2, <1>3
<1>9. h[l] = {}
  BY <1>7, <1>8
<1> QED  BY <1>1, <1>9, TogetherIs
-----------------------------------------------------------------------------
(***************************************************************************)
(* What every state has.                                                   *)
(***************************************************************************)

AnyValue == {ValueOf(k) : k \in DOMAIN argv}
AnyInput == {Lib(v) : v \in AnyValue} \cup {File(argv[k].val) : k \in DOMAIN argv}
Paths == DOMAIN disk \cup {PathOf(config.inputs[k]) : k \in DOMAIN config.inputs}
Unit == [kind : {"object", "archive", "shared"}, path : DOMAIN disk]

\* A configuration with the fields of one.
Made(out, inputs, dirs, sysroot, interp, noInterp, shared, pie, static, entry, soname, script) ==
  [out |-> out, inputs |-> inputs, dirs |-> dirs, sysroot |-> sysroot, interp |-> interp, noInterp |-> noInterp,
   shared |-> shared, pie |-> pie, static |-> static, entry |-> entry, soname |-> soname, script |-> script]
IsConfig(c) ==
  c = Made(c.out, c.inputs, c.dirs, c.sysroot, c.interp, c.noInterp, c.shared, c.pie, c.static, c.entry, c.soname, c.script)

Base ==
  /\ \E c \in Cases : argv = c.argv /\ disk = c.disk
  /\ pc \in {"args", "inputs", "link", "failed", "overflow", "usage", "smoke"}
  /\ i \in Nat \ {0}
  /\ IsConfig(config) /\ config.inputs \in Seq(AnyInput) /\ config.dirs \in Seq(AnyValue)
  /\ pc = "args" => stack = <<>> /\ units = <<>>
  /\ stack \in Seq(Seq(Paths))
  /\ units \in Seq(Unit)

LEMMA CaseFacts ==
  ASSUME \E c \in Cases : argv = c.argv /\ disk = c.disk
  PROVE  /\ argv \in Seq([opt : STRING, val : STRING])
         /\ IsFiniteSet(DOMAIN disk) /\ "" \notin DOMAIN disk
         /\ \A f \in DOMAIN disk : disk[f].kind \in Kinds /\ disk[f].members \in Seq(LinkArg)
         /\ StackDepth \in Nat \ {0}
         /\ StackDepth > Cardinality({f \in DOMAIN disk : disk[f].kind = "group"})
<1>1. PICK c \in Cases : argv = c.argv /\ disk = c.disk
  OBVIOUS
<1>2. IsFiniteSet(DOMAIN disk) /\ DOMAIN disk \subseteq STRING \ {""}
  BY <1>1, CasesAssumption
<1> DEFINE G == {f \in DOMAIN disk : disk[f].kind = "group"}
<1>3. Cardinality(G) \in Nat
  <2>1. IsFiniteSet(G)
    <3>1. G \in SUBSET DOMAIN disk
      OBVIOUS
    <3> HIDE DEF G
    <3> QED  BY <1>2, <3>1, FS_Subset
  <2> HIDE DEF G
  <2> QED  BY <2>1, FS_CardinalityType
<1>4. StackDepth \in Nat /\ StackDepth > Cardinality(G)
  BY <1>1, StackDepthAssumption
<1>5. StackDepth \in Nat \ {0}
  <2> HIDE DEF G
  <2> QED  BY <1>3, <1>4
<1> QED  BY <1>1, <1>2, <1>4, <1>5, CasesAssumption

LEMMA BaseFacts ==
  ASSUME Base
  PROVE  /\ argv \in Seq([opt : STRING, val : STRING])
         /\ IsFiniteSet(DOMAIN disk) /\ "" \notin DOMAIN disk
         /\ \A f \in DOMAIN disk : disk[f].kind \in Kinds /\ disk[f].members \in Seq(LinkArg)
         /\ StackDepth \in Nat \ {0}
         /\ StackDepth > Cardinality({f \in DOMAIN disk : disk[f].kind = "group"})
<1>1. \E c \in Cases : argv = c.argv /\ disk = c.disk
  BY DEF Base
<1> QED  BY <1>1, CaseFacts

\* The configuration after an option with its value, field by field.
LEMMA ValuedIs ==
  ASSUME NEW c, IsConfig(c), NEW opt \in ValueOptions, NEW v
  PROVE  Valued(c, opt, v) =
           Made(IF opt = "-o" THEN v ELSE c.out,
                IF opt = "-l" THEN Append(c.inputs, Lib(v)) ELSE c.inputs,
                IF opt = "-L" THEN Append(c.dirs, v) ELSE c.dirs,
                IF opt = "--sysroot" THEN v ELSE c.sysroot,
                IF opt = "-I" THEN v ELSE c.interp,
                IF opt = "-I" THEN FALSE ELSE c.noInterp,
                c.shared, c.pie, c.static,
                IF opt = "-e" THEN <<v>> ELSE c.entry,
                IF opt = "-soname" THEN v ELSE c.soname,
                IF opt = "-T" THEN disk[v].lines ELSE c.script)
<1>1. opt \in {"-o", "-L", "-l", "-I", "--sysroot", "-e", "-soname", "-T"}
  BY DEF ValueOptions
<1>2. c = [out |-> c.out, inputs |-> c.inputs, dirs |-> c.dirs, sysroot |-> c.sysroot, interp |-> c.interp,
           noInterp |-> c.noInterp, shared |-> c.shared, pie |-> c.pie, static |-> c.static,
           entry |-> c.entry, soname |-> c.soname, script |-> c.script]
  BY DEF IsConfig, Made
<1>3. CASE opt = "-o"
  BY <1>2, <1>3 DEF Valued, Made
<1>4. CASE opt = "-L"
  BY <1>2, <1>4 DEF Valued, Made
<1>5. CASE opt = "-l"
  BY <1>2, <1>5 DEF Valued, Made
<1>6. CASE opt = "-I"
  BY <1>2, <1>6 DEF Valued, Made
<1>7. CASE opt = "--sysroot"
  BY <1>2, <1>7 DEF Valued, Made
<1>8. CASE opt = "-e"
  BY <1>2, <1>8 DEF Valued, Made
<1>9. CASE opt = "-soname"
  BY <1>2, <1>9 DEF Valued, Made
<1>10. CASE opt = "-T"
  BY <1>2, <1>10 DEF Valued, Made
<1> QED  BY <1>1, <1>3, <1>4, <1>5, <1>6, <1>7, <1>8, <1>9, <1>10

LEMMA FlaggedIs ==
  ASSUME NEW c, IsConfig(c), NEW flag \in Flags
  PROVE  /\ IsConfig(Flagged(c, flag))
         /\ Flagged(c, flag).out = c.out /\ Flagged(c, flag).inputs = c.inputs /\ Flagged(c, flag).dirs = c.dirs
         /\ Flagged(c, flag).sysroot = c.sysroot /\ Flagged(c, flag).entry = c.entry
         /\ Flagged(c, flag).static = IF flag = "-static" THEN TRUE ELSE c.static
<1>1. flag \in {"-shared", "-pie", "-no-pie", "-static", "-no-dynamic-linker"}
  BY DEF Flags
<1>2. c = [out |-> c.out, inputs |-> c.inputs, dirs |-> c.dirs, sysroot |-> c.sysroot, interp |-> c.interp,
           noInterp |-> c.noInterp, shared |-> c.shared, pie |-> c.pie, static |-> c.static,
           entry |-> c.entry, soname |-> c.soname, script |-> c.script]
  BY DEF IsConfig, Made
<1>3. \E noInterp, shared, pie :
        Flagged(c, flag) = Made(c.out, c.inputs, c.dirs, c.sysroot, c.interp, noInterp, shared, pie,
                                IF flag = "-static" THEN TRUE ELSE c.static, c.entry, c.soname, c.script)
  <2>1. CASE flag = "-shared"
    <3>1. Flagged(c, flag) = Made(c.out, c.inputs, c.dirs, c.sysroot, c.interp, c.noInterp, TRUE, FALSE,
                                  c.static, c.entry, c.soname, c.script)
      BY <1>2, <2>1 DEF Flagged, Made
    <3> QED  BY <2>1, <3>1
  <2>2. CASE flag = "-pie"
    <3>1. Flagged(c, flag) = Made(c.out, c.inputs, c.dirs, c.sysroot, c.interp, c.noInterp, FALSE, TRUE,
                                  c.static, c.entry, c.soname, c.script)
      BY <1>2, <2>2 DEF Flagged, Made
    <3> QED  BY <2>2, <3>1
  <2>3. CASE flag = "-no-pie"
    <3>1. Flagged(c, flag) = Made(c.out, c.inputs, c.dirs, c.sysroot, c.interp, c.noInterp, c.shared, FALSE,
                                  c.static, c.entry, c.soname, c.script)
      BY <1>2, <2>3 DEF Flagged, Made
    <3> QED  BY <2>3, <3>1
  <2>4. CASE flag = "-static"
    <3>1. Flagged(c, flag) = Made(c.out, c.inputs, c.dirs, c.sysroot, c.interp, c.noInterp, c.shared, c.pie,
                                  TRUE, c.entry, c.soname, c.script)
      BY <1>2, <2>4 DEF Flagged, Made
    <3> QED  BY <2>4, <3>1
  <2>5. CASE flag = "-no-dynamic-linker"
    <3>1. Flagged(c, flag) = Made(c.out, c.inputs, c.dirs, c.sysroot, c.interp, TRUE, c.shared, c.pie,
                                  c.static, c.entry, c.soname, c.script)
      BY <1>2, <2>5 DEF Flagged, Made
    <3> QED  BY <2>5, <3>1
  <2> QED  BY <1>1, <2>1, <2>2, <2>3, <2>4, <2>5
<1> QED  BY <1>3 DEF IsConfig, Made

\* What reading an argument does.
Reads ==
  /\ argv[i].opt \in ValueOptions /\ HasValue(i) /\ ~Unreadable(argv[i].opt, ValueOf(i))
  /\ config' = Valued(config, argv[i].opt, ValueOf(i))
  /\ i' = IF argv[i].val = "" THEN i + 2 ELSE i + 1
Passes ==
  /\ argv[i].opt \notin Flags \cup {"", "--help"}
  /\ \/ ~HasValue(i) /\ i' = i + 1
     \/ argv[i].opt \notin ValueOptions /\ i' = IF argv[i].opt \in SkipsValue /\ argv[i].val = "" THEN i + 2 ELSE i + 1
     \/ argv[i].opt \in ValueOptions \ Glued /\ argv[i].val # "" /\ i' = i + 1
  /\ config' = config
Sets ==
  /\ argv[i].opt \in Flags
  /\ config' = Flagged(config, argv[i].opt)
  /\ i' = i + 1
Adds ==
  /\ argv[i].opt = ""
  /\ config' = [config EXCEPT !.inputs = Append(@, File(argv[i].val))]
  /\ i' = i + 1
CannotRead ==
  /\ argv[i].opt \in ValueOptions /\ HasValue(i) /\ Unreadable(argv[i].opt, ValueOf(i))
  /\ pc' = "failed" /\ i' = i /\ config' = config

LEMMA ArgSteps ==
  ASSUME Base, Flag \/ Value \/ GluedValue \/ Ignored \/ Input \/ Help
  PROVE  /\ i \in DOMAIN argv /\ pc = "args"
         /\ argv' = argv /\ disk' = disk /\ stack' = stack /\ units' = units
         /\ \/ pc' = "args" /\ (Reads \/ Passes \/ Sets \/ Adds)
            \/ CannotRead
            \/ pc' = "usage" /\ i' = i /\ config' = config
<1>1. Len(argv) \in Nat /\ DOMAIN argv = 1..Len(argv)
  <2>1. argv \in Seq([opt : STRING, val : STRING])
    BY BaseFacts
  <2> QED  BY <2>1
<1>2. AtArg /\ i \in DOMAIN argv /\ pc = "args" /\ i \in 1..Len(argv)
  <2>1. AtArg
    BY DEF Flag, Value, GluedValue, Ignored, Input, Help
  <2>2. i \in Nat \ {0}
    BY DEF Base
  <2> QED  BY <1>1, <2>1, <2>2 DEF AtArg
<1>3. argv' = argv /\ disk' = disk /\ stack' = stack /\ units' = units
  BY DEF Flag, Value, GluedValue, Ignored, Input, Help, ToArg, Ended
<1>4. CASE Flag
  BY <1>2, <1>3, <1>4 DEF Flag, ToArg, Sets
<1>5. CASE Value
  <2>0. argv[i].opt \in ValueOptions /\ argv[i].val = ""
    BY <1>5 DEF Value
  <2>1. CASE i = Len(argv)
    <3>1. pc' = "args" /\ i' = i + 1 /\ config' = config
      BY <1>2, <1>5, <2>1 DEF Value, ToArg
    <3>2. ~HasValue(i)
      <4>1. ~(i < Len(argv))
        BY <1>1, <2>1
      <4> QED  BY <2>0, <4>1, Zenon DEF HasValue
    <3> QED  BY <1>2, <1>3, <2>0, <3>1, <3>2 DEF Passes, ValueOptions, Flags
  <2>2. CASE i # Len(argv)
    <3>0. HasValue(i)
      <4>1. i < Len(argv)
        BY <1>1, <1>2, <2>2
      <4> QED  BY <4>1, Zenon DEF HasValue
    <3>1. HasValue(i) /\ ValueOf(i) = Word(argv[i + 1]) /\ argv[i].opt \in ValueOptions /\ argv[i].val = ""
      BY <2>0, <3>0 DEF ValueOf
    <3>2. CASE Unreadable(argv[i].opt, ValueOf(i))
      BY <1>2, <1>3, <1>5, <2>2, <3>1, <3>2 DEF Value, Ended, CannotRead
    <3>3. CASE ~Unreadable(argv[i].opt, ValueOf(i))
      BY <1>2, <1>3, <1>5, <2>2, <3>1, <3>3 DEF Value, ToArg, Reads
    <3> QED  BY <3>2, <3>3
  <2> QED  BY <2>1, <2>2
<1>6. CASE GluedValue
  <2>1. /\ HasValue(i) /\ ValueOf(i) = argv[i].val /\ argv[i].opt \in ValueOptions /\ argv[i].val # ""
    BY <1>6 DEF GluedValue, HasValue, ValueOf, Glued, ValueOptions
  <2>2. CASE Unreadable(argv[i].opt, ValueOf(i))
    BY <1>2, <1>3, <1>6, <2>1, <2>2 DEF GluedValue, Ended, CannotRead
  <2>3. CASE ~Unreadable(argv[i].opt, ValueOf(i))
    BY <1>2, <1>3, <1>6, <2>1, <2>3 DEF GluedValue, ToArg, Reads
  <2> QED  BY <2>2, <2>3
<1>7. CASE Ignored
  <2>1. /\ pc' = "args" /\ config' = config
        /\ i' = IF argv[i].opt \in SkipsValue /\ argv[i].val = "" /\ i < Len(argv) THEN i + 2 ELSE i + 1
    BY <1>2, <1>7 DEF Ignored, ToArg
  <2>2. CASE argv[i].opt \in ValueOptions \ Glued /\ argv[i].val # ""
    <3>1. argv[i].opt \notin Flags \cup {"", "--help"}
      BY <2>2 DEF ValueOptions, Flags
    <3> QED  BY <1>2, <1>3, <2>1, <2>2, <3>1 DEF Passes
  <2>3. CASE argv[i].opt \notin Flags \cup ValueOptions \cup {"", "--help"}
    <3>1. CASE ~HasValue(i)
      <4>1. i' = i + 1
        BY <2>1, <3>1 DEF HasValue
      <4> QED  BY <1>2, <1>3, <2>1, <2>3, <3>1, <4>1 DEF Passes
    <3>2. CASE HasValue(i)
      <4>1. i' = IF argv[i].opt \in SkipsValue /\ argv[i].val = "" THEN i + 2 ELSE i + 1
        BY <2>1, <3>2 DEF HasValue
      <4> QED  BY <1>2, <1>3, <2>1, <2>3, <4>1 DEF Passes
    <3> QED  BY <3>1, <3>2
  <2> QED  BY <1>7, <2>2, <2>3 DEF Ignored
<1>8. CASE Input
  BY <1>2, <1>3, <1>8 DEF Input, ToArg, Adds
<1>9. CASE Help
  BY <1>2, <1>3, <1>9 DEF Help, Ended
<1> QED  BY <1>4, <1>5, <1>6, <1>7, <1>8, <1>9

\* The files of a script are the paths its members are taken for.
LEMMA FilesFacts ==
  ASSUME NEW members \in Seq(LinkArg)
  PROVE  /\ FilesOf(members) \in Seq(DOMAIN disk)
         /\ \A x \in ToSet(FilesOf(members)) :
              \E m \in ToSet(members) : x = MemberPath(m, config) /\ IsFile(x)
<1> DEFINE Piece(m) == IF IsFile(MemberPath(m, config)) THEN <<MemberPath(m, config)>> ELSE <<>>
           s == [n \in DOMAIN members |-> Piece(members[n])]
<1>1. Len(members) \in Nat /\ DOMAIN members = 1..Len(members)
  OBVIOUS
<1>2. \A m : Piece(m) \in Seq(DOMAIN disk) /\ \A x \in ToSet(Piece(m)) : x = MemberPath(m, config) /\ IsFile(x)
  <2> SUFFICES ASSUME NEW m
               PROVE  Piece(m) \in Seq(DOMAIN disk) /\ \A x \in ToSet(Piece(m)) : x = MemberPath(m, config) /\ IsFile(x)
    OBVIOUS
  <2> DEFINE path == MemberPath(m, config)
  <2>1. CASE IsFile(path)
    <3>1. path \in DOMAIN disk /\ Piece(m) = <<path>>
      BY <2>1 DEF IsFile
    <3> HIDE DEF Piece, path
    <3>2. Piece(m) \in Seq(DOMAIN disk) /\ ToSet(Piece(m)) = {path}
      BY <3>1 DEF ToSet
    <3> QED  BY <2>1, <3>2 DEF path
  <2>2. CASE ~IsFile(path)
    <3>1. Piece(m) = <<>>
      BY <2>2
    <3> HIDE DEF Piece
    <3> QED  BY <3>1 DEF ToSet
  <2> QED  BY <2>1, <2>2
<1> HIDE DEF Piece
<1>3. s \in Seq(Seq(DOMAIN disk)) /\ Len(s) = Len(members) /\ \A n \in 1..Len(s) : s[n] = Piece(members[n])
  BY <1>1, <1>2
<1>4. FilesOf(members) = FlattenSeq(s)
  BY DEF FilesOf, Piece
<1> HIDE DEF s
<1>5. FilesOf(members) \in Seq(DOMAIN disk)
  <2>1. FlattenSeq(s) \in Seq(DOMAIN disk)
    BY <1>3, FlatType
  <2> QED  BY <1>4, <2>1
<1>6. ToSet(FilesOf(members)) = UNION {ToSet(s[j]) : j \in 1..Len(s)}
  BY <1>3, <1>4, FlatElements
<1>7. ASSUME NEW x \in ToSet(FilesOf(members))
      PROVE  \E m \in ToSet(members) : x = MemberPath(m, config) /\ IsFile(x)
  <2>1. PICK n \in 1..Len(s) : x \in ToSet(s[n])
    BY <1>6
  <2>2. members[n] \in ToSet(members)
    BY <1>1, <1>3 DEF ToSet
  <2> QED  BY <1>2, <1>3, <2>1, <2>2
<1> QED  BY <1>5, <1>7

\* The first path that is one.
FirstPath(paths) ==
  LET there == {d \in DOMAIN paths : paths[d] # ""}
  IN IF there = {} THEN "" ELSE paths[CHOOSE d \in there : \A other \in there : d <= other]

\* What does not change, where the invocation and the configuration do not.
Fixed == argv' = argv /\ disk' = disk /\ config' = config

LEMMA FixedFacts ==
  ASSUME Fixed
  PROVE  /\ AnyInput' = AnyInput /\ AnyValue' = AnyValue
         /\ Paths' = Paths /\ Unit' = Unit /\ Reached' = Reached
         /\ \A p : LeadsTo(p)' = LeadsTo(p)
         /\ \A m : MemberPath(m, config)' = MemberPath(m, config)
<1>1. argv' = argv /\ disk' = disk /\ config' = config
  BY DEF Fixed
<1>2. AnyValue' = AnyValue
  BY <1>1 DEF AnyValue, ValueOf
<1>3. AnyInput' = AnyInput
  BY <1>1, <1>2 DEF AnyInput
<1>4. ASSUME NEW dirs, NEW name, NEW static PROVE FirstIn(dirs, name, static)' = FirstIn(dirs, name, static)
  <2>1. \A dir : InDir(dir, name, static)' = InDir(dir, name, static)
    BY <1>1 DEF InDir, IsFile
  <2>2. [d \in DOMAIN dirs |-> InDir(dirs[d], name, static)'] = [d \in DOMAIN dirs |-> InDir(dirs[d], name, static)]
    BY <2>1
  <2>3. FirstIn(dirs, name, static)' = FirstPath([d \in DOMAIN dirs |-> InDir(dirs[d], name, static)'])
    BY DEF FirstIn, FirstPath
  <2>4. FirstIn(dirs, name, static) = FirstPath([d \in DOMAIN dirs |-> InDir(dirs[d], name, static)])
    BY DEF FirstIn, FirstPath
  <2> QED  BY <2>2, <2>3, <2>4
<1>5. \A m : MemberPath(m, config)' = MemberPath(m, config)
  BY <1>1, <1>4 DEF MemberPath, FindLibrary
<1>6. \A input : PathOf(input)' = PathOf(input)
  BY <1>1, <1>4 DEF PathOf, FindLibrary
<1>7. Paths' = Paths
  BY <1>1, <1>6 DEF Paths
<1>8. Unit' = Unit
  BY <1>1 DEF Unit
<1>9. \A p : LeadsTo(p)' = LeadsTo(p)
  <2>1. \A p : MembersOf(p)' = MembersOf(p)
    BY <1>1 DEF MembersOf
  <2> QED  BY <1>5, <2>1 DEF LeadsTo
<1>10. Reached' = Reached
  BY <1>1, <1>6, <1>9 DEF Reached
<1> QED  BY <1>2, <1>3, <1>5, <1>7, <1>8, <1>9, <1>10

LEMMA BaseInit == Init => Base
<1> SUFFICES ASSUME Init PROVE Base
  OBVIOUS
<1>1. \E c \in Cases : argv = c.argv /\ disk = c.disk
  BY DEF Init
<1>2. /\ pc = "args" /\ i = 1 /\ stack = <<>> /\ units = <<>>
      /\ config = Made("a.out", <<>>, <<>>, "", "", FALSE, FALSE, FALSE, FALSE, <<"_start">>, "", <<>>)
  BY DEF Init, Made
<1>3. IsConfig(config) /\ config.inputs = <<>> /\ config.dirs = <<>>
  BY <1>2 DEF IsConfig, Made
<1>4. <<>> \in Seq(AnyInput) /\ <<>> \in Seq(AnyValue) /\ <<>> \in Seq(Seq(Paths)) /\ <<>> \in Seq(Unit)
  OBVIOUS
<1>5. config.inputs \in Seq(AnyInput) /\ config.dirs \in Seq(AnyValue)
  BY <1>3, <1>4, Zenon
<1>6. stack \in Seq(Seq(Paths)) /\ units \in Seq(Unit)
  BY <1>2, <1>4, Zenon
<1>7. i \in Nat \ {0} /\ pc \in {"args", "inputs", "link", "failed", "overflow", "usage", "smoke"}
  <2>1. i = 1 /\ pc = "args"
    BY DEF Init
  <2> QED  BY <2>1
<1> QED  BY <1>1, <1>2, <1>3, <1>5, <1>6, <1>7, Zenon DEF Base

\* What the arguments do to the configuration.
LEMMA ArgConfig ==
  ASSUME Base, i \in DOMAIN argv, Reads \/ Passes \/ Sets \/ Adds
  PROVE  IsConfig(config') /\ config'.inputs \in Seq(AnyInput) /\ config'.dirs \in Seq(AnyValue)
<1>1. IsConfig(config) /\ config.inputs \in Seq(AnyInput) /\ config.dirs \in Seq(AnyValue)
  BY DEF Base
<1>2. CASE Reads
  <2> DEFINE v == ValueOf(i)
  <2>1. v \in AnyValue /\ Lib(v) \in AnyInput
    BY DEF AnyValue, AnyInput
  <2>2. argv[i].opt \in ValueOptions /\ config' = Valued(config, argv[i].opt, v)
    BY <1>2 DEF Reads
  <2> HIDE DEF v
  <2> DEFINE opt == argv[i].opt
             inputs == IF opt = "-l" THEN Append(config.inputs, Lib(v)) ELSE config.inputs
             dirs == IF opt = "-L" THEN Append(config.dirs, v) ELSE config.dirs
  <2>3. \E out, sysroot, interp, noInterp, shared, pie, static, entry, soname, script :
          config' = Made(out, inputs, dirs, sysroot, interp, noInterp, shared, pie, static, entry, soname, script)
    <3>1. config' = Made(IF opt = "-o" THEN v ELSE config.out, inputs, dirs,
                         IF opt = "--sysroot" THEN v ELSE config.sysroot,
                         IF opt = "-I" THEN v ELSE config.interp,
                         IF opt = "-I" THEN FALSE ELSE config.noInterp,
                         config.shared, config.pie, config.static,
                         IF opt = "-e" THEN <<v>> ELSE config.entry,
                         IF opt = "-soname" THEN v ELSE config.soname,
                         IF opt = "-T" THEN disk[v].lines ELSE config.script)
      BY <1>1, <2>2, ValuedIs
    <3> HIDE DEF inputs, dirs, opt
    <3> QED  BY <3>1
  <2>4. inputs \in Seq(AnyInput)
    <3>1. CASE opt = "-l"
      BY <1>1, <2>1, <3>1
    <3>2. CASE opt # "-l"
      BY <1>1, <3>2
    <3> QED  BY <3>1, <3>2
  <2>5. dirs \in Seq(AnyValue)
    <3>1. CASE opt = "-L"
      BY <1>1, <2>1, <3>1
    <3>2. CASE opt # "-L"
      BY <1>1, <3>2
    <3> QED  BY <3>1, <3>2
  <2> HIDE DEF inputs, dirs, opt
  <2> QED  BY <2>3, <2>4, <2>5 DEF IsConfig, Made
<1>3. CASE Passes
  BY <1>1, <1>3 DEF Passes
<1>4. CASE Sets
  BY <1>1, <1>4, FlaggedIs DEF Sets
<1>5. CASE Adds
  <2> DEFINE f == File(argv[i].val)
  <2>1. f \in AnyInput
    BY DEF AnyInput
  <2>2. config' = [config EXCEPT !.inputs = Append(@, f)]
    BY <1>5 DEF Adds
  <2> HIDE DEF f
  <2>3. IsConfig(config') /\ config'.inputs = Append(config.inputs, f) /\ config'.dirs = config.dirs
    BY <1>1, <2>2 DEF IsConfig, Made
  <2> QED  BY <1>1, <2>1, <2>3
<1> QED  BY <1>2, <1>3, <1>4, <1>5

\* The steps that resolve the inputs leave the invocation and the configuration as they are.
Resolves == NextInput \/ TakeUnit \/ CannotLoad \/ ExpandGroup \/ Return \/ InputsDone

LEMMA ResolvesFixed ==
  ASSUME Resolves
  PROVE  Fixed /\ pc = "inputs" /\ pc' \in {"inputs", "link", "failed", "overflow"}
<1>1. Fixed
  BY DEF Resolves, NextInput, TakeUnit, Take, CannotLoad, ExpandGroup, Return, InputsDone, Ended, Fixed
<1>2. pc = "inputs"
  BY DEF Resolves, NextInput, TakeUnit, CannotLoad, ExpandGroup, Return, InputsDone, AtMember
<1>3. pc' \in {"inputs", "link", "failed", "overflow"}
  BY <1>2 DEF Resolves, NextInput, TakeUnit, Take, CannotLoad, ExpandGroup, Return, InputsDone, Ended
<1> QED  BY <1>1, <1>2, <1>3

LEMMA FrontFacts ==
  ASSUME NEW X, NEW s \in Seq(X), s # <<>>
  PROVE  Front(s) \in Seq(X) /\ Len(Front(s)) = Len(s) - 1 /\ \A j \in 1..(Len(s) - 1) : Front(s)[j] = s[j]
<1> DEFINE m == Len(s) - 1
<1>1. m \in Nat /\ m <= Len(s) /\ Front(s) = SubSeq(s, 1, m)
  BY DEF Front
<1>2. m \in Nat /\ m <= Len(s) => SubSeq(s, 1, m) \in Seq(X) /\ Len(SubSeq(s, 1, m)) = m
  <2> HIDE DEF m
  <2> QED  OBVIOUS
<1>3. m \in Nat /\ m <= Len(s) => \A j \in 1..m : SubSeq(s, 1, m)[j] = s[j]
  <2> HIDE DEF m
  <2> QED  OBVIOUS
<1> QED  BY <1>1, <1>2, <1>3

LEMMA LastFacts ==
  ASSUME NEW X, NEW s \in Seq(X), NEW x \in X
  PROVE  /\ s \o <<x>> \in Seq(X) /\ Len(s \o <<x>>) = Len(s) + 1 /\ (s \o <<x>>)[Len(s) + 1] = x
         /\ \A j \in 1..Len(s) : (s \o <<x>>)[j] = s[j]
OBVIOUS

\* The last call under way, and what is left of it.
LEMMA StackFacts ==
  ASSUME NEW V, stack \in Seq(Seq(V)), stack # <<>>, Top # <<>>
  PROVE  /\ Top = stack[Len(stack)] /\ Top \in Seq(V) /\ Len(stack) \in Nat \ {0}
         /\ Head(Top) \in V /\ Head(Top) = Top[1] /\ Tail(Top) \in Seq(V)
         /\ Rest \in Seq(Seq(V)) /\ Len(Rest) = Len(stack)
         /\ Rest[Len(stack)] = Tail(Top) /\ \A j \in 1..(Len(stack) - 1) : Rest[j] = stack[j]
<1> DEFINE n == Len(stack)
<1>1. n \in Nat \ {0} /\ \A j \in 1..n : stack[j] \in Seq(V)
  OBVIOUS
<1>2. Top = stack[n] /\ Top \in Seq(V)
  <2>1. Top = stack[n] /\ n \in 1..n
    BY <1>1 DEF Top, Last
  <2> QED  BY <1>1, <2>1
<1>3. Head(Top) \in V /\ Head(Top) = Top[1] /\ Tail(Top) \in Seq(V)
  <2> HIDE DEF n
  <2> QED  BY <1>2
<1>4. Front(stack) \in Seq(Seq(V)) /\ Len(Front(stack)) = n - 1 /\ \A j \in 1..(n - 1) : Front(stack)[j] = stack[j]
  BY <1>1, FrontFacts
<1> HIDE DEF n
<1>5. /\ Rest \in Seq(Seq(V)) /\ Len(Rest) = n /\ Rest[n] = Tail(Top)
      /\ \A j \in 1..(n - 1) : Rest[j] = stack[j]
  <2> DEFINE f == Front(stack)
             t == Tail(Top)
  <2>1. f \in Seq(Seq(V)) /\ Len(f) = n - 1 /\ t \in Seq(V) /\ Rest = f \o <<t>>
    BY <1>3, <1>4 DEF Rest
  <2> HIDE DEF f, t
  <2>2. /\ Rest \in Seq(Seq(V)) /\ Len(Rest) = n /\ Rest[n] = t
        /\ \A j \in 1..(n - 1) : Rest[j] = f[j]
    <3>1. /\ f \o <<t>> \in Seq(Seq(V)) /\ Len(f \o <<t>>) = n - 1 + 1 /\ (f \o <<t>>)[n - 1 + 1] = t
          /\ \A j \in 1..(n - 1) : (f \o <<t>>)[j] = f[j]
      BY <2>1, LastFacts
    <3>2. n - 1 + 1 = n
      BY <1>1
    <3> QED  BY <2>1, <3>1, <3>2
  <2> QED  BY <1>4, <2>2 DEF f, t
<1> QED  BY <1>1, <1>2, <1>3, <1>5 DEF n

LEMMA BaseStep == Base /\ [Next]_vars => Base'
<1> SUFFICES ASSUME Base, [Next]_vars PROVE Base'
  OBVIOUS
<1>1. argv' = argv /\ disk' = disk
  BY DEF Next, vars, Flag, Value, GluedValue, Ignored, Input, Help, ArgsDone, NextInput, TakeUnit, Take, CannotLoad,
         ExpandGroup, Return, InputsDone, ToArg, Ended
<1>2. (\E c \in Cases : argv = c.argv /\ disk = c.disk)'
  <2>1. \E c \in Cases : argv = c.argv /\ disk = c.disk
    BY DEF Base
  <2> QED  BY <1>1, <2>1
<1>3. AnyInput' = AnyInput /\ AnyValue' = AnyValue /\ Unit' = Unit
  BY <1>1 DEF AnyInput, AnyValue, ValueOf, Unit
<1>4. \A S : <<>> \in Seq(S)
  OBVIOUS
<1>5. CASE Flag \/ Value \/ GluedValue \/ Ignored \/ Input \/ Help
  <2>1. /\ i \in DOMAIN argv /\ pc = "args" /\ stack' = stack /\ units' = units
        /\ \/ pc' = "args" /\ (Reads \/ Passes \/ Sets \/ Adds)
           \/ CannotRead
           \/ pc' = "usage" /\ i' = i /\ config' = config
    BY <1>5, ArgSteps
  <2>2. stack' = <<>> /\ units' = <<>> /\ i \in Nat \ {0}
    BY <2>1 DEF Base
  <2>3. IsConfig(config) /\ config.inputs \in Seq(AnyInput) /\ config.dirs \in Seq(AnyValue)
    BY DEF Base
  <2>4. IsConfig(config') /\ config'.inputs \in Seq(AnyInput) /\ config'.dirs \in Seq(AnyValue)
    <3>1. CASE Reads \/ Passes \/ Sets \/ Adds
      BY <2>1, <3>1, ArgConfig
    <3>2. CASE ~(Reads \/ Passes \/ Sets \/ Adds)
      <4>1. config' = config
        BY <2>1, <3>2 DEF CannotRead
      <4> QED  BY <2>3, <4>1
    <3> QED  BY <3>1, <3>2
  <2>5. i' \in {i, i + 1, i + 2}
    BY <2>1 DEF CannotRead, Reads, Passes, Sets, Adds
  <2>6. pc' \in {"args", "failed", "usage"}
    BY <2>1 DEF CannotRead
  <2>7. i' \in Nat \ {0} /\ pc' \in {"args", "inputs", "link", "failed", "overflow", "usage", "smoke"}
    BY <2>2, <2>5, <2>6
  <2>8. stack' \in Seq(Seq(Paths')) /\ units' \in Seq(Unit')
    BY <1>4, <2>2, Zenon
  <2>9. IsConfig(config)' /\ (config.inputs \in Seq(AnyInput))' /\ (config.dirs \in Seq(AnyValue))'
    BY <1>3, <2>4 DEF IsConfig
  <2> QED  BY <1>2, <2>2, <2>7, <2>8, <2>9, Zenon DEF Base
<1>6. CASE ArgsDone
  <2>1. /\ pc = "args" /\ pc' \in {"smoke", "inputs"} /\ i' = 1 /\ stack' = stack /\ units' = units
        /\ config' = [config EXCEPT !.interp = DynamicLinker(config)]
    BY <1>6 DEF ArgsDone
  <2>2. stack' = <<>> /\ units' = <<>>
    BY <2>1 DEF Base
  <2>3. IsConfig(config) /\ config.inputs \in Seq(AnyInput) /\ config.dirs \in Seq(AnyValue)
    BY DEF Base
  <2>4. IsConfig(config') /\ config'.inputs = config.inputs /\ config'.dirs = config.dirs
    BY <2>1, <2>3 DEF IsConfig, Made
  <2>5. IsConfig(config)' /\ (config.inputs \in Seq(AnyInput))' /\ (config.dirs \in Seq(AnyValue))'
    BY <1>3, <2>3, <2>4 DEF IsConfig
  <2>6. stack' \in Seq(Seq(Paths')) /\ units' \in Seq(Unit')
    BY <1>4, <2>2, Zenon
  <2>7. i' \in Nat \ {0} /\ pc' \in {"args", "inputs", "link", "failed", "overflow", "usage", "smoke"}
    BY <2>1
  <2> QED  BY <1>2, <2>2, <2>5, <2>6, <2>7, Zenon DEF Base
<1>7. CASE Resolves
  <2>1. Fixed /\ pc = "inputs" /\ pc' \in {"inputs", "link", "failed", "overflow"}
    BY <1>7, ResolvesFixed
  <2>2. Paths' = Paths /\ Unit' = Unit
    BY <2>1, FixedFacts
  <2>3. stack \in Seq(Seq(Paths)) /\ units \in Seq(Unit) /\ i \in Nat \ {0} /\ config.inputs \in Seq(AnyInput)
    BY DEF Base
  <2>4. stack' \in Seq(Seq(Paths)) /\ units' \in Seq(Unit) /\ i' \in Nat \ {0}
    <3>1. CASE NextInput
      <4>1. CASE stack' = stack /\ units' = units /\ i' = i
        BY <2>3, <4>1
      <4>2. CASE stack' = << <<PathOf(config.inputs[i])>> >> /\ units' = units /\ i' = i + 1
        <5>1. i \in DOMAIN config.inputs
          <6>1. i <= Len(config.inputs)
            BY <3>1 DEF NextInput
          <6> QED  BY <2>3, <6>1
        <5>2. PathOf(config.inputs[i]) \in Paths
          BY <5>1 DEF Paths
        <5> QED  BY <2>3, <4>2, <5>2
      <4> QED  BY <3>1, <4>1, <4>2 DEF NextInput, Ended
    <3>2. CASE TakeUnit
      <4>1. Top # <<>> /\ stack # <<>> /\ Kind \in {"object", "archive", "shared"}
        BY <3>2 DEF TakeUnit, AtMember
      <4>2. units' = Append(units, [kind |-> Kind, path |-> Head(Top)]) /\ stack' = Rest /\ i' = i
        BY <3>2 DEF TakeUnit, Take
      <4>3. Head(Top) \in DOMAIN disk
        BY <4>1 DEF Kind
      <4>4. [kind |-> Kind, path |-> Head(Top)] \in Unit
        <5> HIDE DEF Kind
        <5> QED  BY <4>1, <4>3 DEF Unit
      <4>5. Rest \in Seq(Seq(Paths))
        BY <2>3, <4>1, StackFacts
      <4> QED  BY <2>3, <4>2, <4>4, <4>5
    <3>3. CASE CannotLoad \/ InputsDone
      BY <2>3, <3>3 DEF CannotLoad, InputsDone, Ended
    <3>4. CASE ExpandGroup
      <4>1. CASE stack' = stack /\ units' = units /\ i' = i
        BY <2>3, <4>1
      <4>2. CASE stack' = Append(Rest, FilesOf(disk[Head(Top)].members)) /\ units' = units /\ i' = i
        <5>1. stack # <<>> /\ Top # <<>> /\ Kind = "group"
          BY <3>4 DEF ExpandGroup, AtMember
        <5>2. Rest \in Seq(Seq(Paths))
          BY <2>3, <5>1, StackFacts
        <5>3. Head(Top) \in DOMAIN disk
          BY <5>1 DEF Kind
        <5>4. disk[Head(Top)].members \in Seq(LinkArg)
          BY <5>3, BaseFacts
        <5>5. FilesOf(disk[Head(Top)].members) \in Seq(DOMAIN disk)
          BY <5>4, FilesFacts
        <5> DEFINE f == FilesOf(disk[Head(Top)].members)
        <5>6. f \in Seq(Paths)
          <6>1. DOMAIN disk \subseteq Paths
            BY DEF Paths
          <6> HIDE DEF f
          <6> QED  BY <5>5, <6>1 DEF f
        <5> HIDE DEF f
        <5>7. Append(Rest, f) \in Seq(Seq(Paths))
          BY <5>2, <5>6
        <5> QED  BY <2>3, <4>2, <5>7 DEF f
      <4> QED  BY <3>4, <4>1, <4>2 DEF ExpandGroup, Ended
    <3>5. CASE Return
      <4>1. stack # <<>> /\ stack' = Front(stack) /\ units' = units /\ i' = i
        BY <3>5 DEF Return
      <4>2. Front(stack) \in Seq(Seq(Paths))
        BY <2>3, <4>1, FrontFacts
      <4> QED  BY <2>3, <4>1, <4>2
    <3> QED  BY <1>7, <3>1, <3>2, <3>3, <3>4, <3>5 DEF Resolves
  <2>5. config' = config /\ IsConfig(config) /\ config.inputs \in Seq(AnyInput) /\ config.dirs \in Seq(AnyValue)
    BY <2>1 DEF Fixed, Base
  <2>6. IsConfig(config)' /\ (config.inputs \in Seq(AnyInput))' /\ (config.dirs \in Seq(AnyValue))'
    BY <1>3, <2>5 DEF IsConfig
  <2>7. pc' # "args" /\ pc' \in {"args", "inputs", "link", "failed", "overflow", "usage", "smoke"}
    BY <2>1
  <2>8. (stack \in Seq(Seq(Paths)))' /\ (units \in Seq(Unit))' /\ (i \in Nat \ {0})'
    BY <2>2, <2>4
  <2> QED  BY <1>2, <2>6, <2>7, <2>8, Zenon DEF Base
<1>8. CASE UNCHANGED vars
  <2>1. Fixed /\ pc' = pc /\ i' = i /\ stack' = stack /\ units' = units
    BY <1>8 DEF vars, Fixed
  <2>2. Paths' = Paths
    BY <2>1, FixedFacts
  <2>3. config' = config
    BY <2>1 DEF Fixed
  <2> QED  BY <1>1, <1>2, <1>3, <2>1, <2>2, <2>3 DEF Base, IsConfig
<1> QED  BY <1>5, <1>6, <1>7, <1>8 DEF Next, Resolves

\* In every state the configuration, the members still to do and the units found are made of what the invocation
\* has: its arguments, the files there, and the paths that the inputs are taken for (main.rs, linker.rs resolve_path).
THEOREM BaseInvariant == Spec => []Base
<1>1. Init => Base
  BY BaseInit
<1>2. Base /\ [Next]_vars => Base'
  BY BaseStep
<1> QED  BY <1>1, <1>2, PTL DEF Spec
-----------------------------------------------------------------------------
(***************************************************************************)
(* The calls of resolve_path are a chain of scripts, each a member of the  *)
(* one before: a chain longer than the number of scripts meets one twice.  *)
(***************************************************************************)

Scripts == {p \in Reached : disk[p].kind = "group"}

\* The scripts that the calls after the first are about.
Nested(chain, calls) ==
  /\ chain \in [1..(Len(calls) - 1) -> Scripts]
  /\ \A j \in 1..(Len(calls) - 1) : ToSet(calls[j + 1]) \subseteq LeadsTo(chain[j]) \cap DOMAIN disk
  /\ \A j \in 2..(Len(calls) - 1) : chain[j] \in LeadsTo(chain[j - 1])
  /\ calls # <<>> => ToSet(calls[1]) \cap DOMAIN disk \subseteq Reached
Chain == \E chain : Nested(chain, stack)

LEMMA ReachedFacts ==
  /\ Reached \subseteq DOMAIN disk
  /\ \A k \in DOMAIN config.inputs : PathOf(config.inputs[k]) \in DOMAIN disk => PathOf(config.inputs[k]) \in Reached
  /\ \A p \in Reached : LeadsTo(p) \cap DOMAIN disk \subseteq Reached
<1> DEFINE firsts == {PathOf(config.inputs[k]) : k \in DOMAIN config.inputs} \cap DOMAIN disk
           closed == {some \in SUBSET DOMAIN disk :
                        firsts \subseteq some /\ \A p \in some : LeadsTo(p) \cap DOMAIN disk \subseteq some}
<1>1. Reached = {p \in DOMAIN disk : \A some \in closed : p \in some}
  BY DEF Reached
<1>2. \A some \in closed : firsts \subseteq some /\ \A p \in some : LeadsTo(p) \cap DOMAIN disk \subseteq some
  OBVIOUS
<1>3. \A k \in DOMAIN config.inputs : PathOf(config.inputs[k]) \in DOMAIN disk => PathOf(config.inputs[k]) \in firsts
  OBVIOUS
<1> HIDE DEF firsts, closed
<1> QED  BY <1>1, <1>2, <1>3

\* The next member of the last call is reached, and is a member of the script of that call.
LEMMA NextReached ==
  ASSUME Base, NEW chain, Nested(chain, stack), stack # <<>>, Top # <<>>, Head(Top) \in DOMAIN disk
  PROVE  /\ Head(Top) \in Reached
         /\ Len(stack) > 1 => Head(Top) \in LeadsTo(chain[Len(stack) - 1])
<1> DEFINE n == Len(stack)
<1>1. Top = stack[n] /\ Top \in Seq(Paths) /\ n \in Nat \ {0} /\ Head(Top) = Top[1]
  <2>1. stack \in Seq(Seq(Paths))
    BY DEF Base
  <2> QED  BY <2>1, StackFacts
<1>2. Head(Top) \in ToSet(stack[n])
  <2>1. 1 \in DOMAIN Top
    BY <1>1
  <2> QED  BY <1>1, <2>1 DEF ToSet
<1> HIDE DEF n
<1>3. CASE n = 1
  BY <1>2, <1>3 DEF Nested, n
<1>4. CASE n # 1
  <2>1. n - 1 \in 1..(n - 1) /\ n - 1 + 1 = n
    BY <1>1, <1>4
  <2>2. Head(Top) \in LeadsTo(chain[n - 1]) \cap DOMAIN disk /\ chain[n - 1] \in Scripts
    BY <1>2, <2>1 DEF Nested, n
  <2>3. Head(Top) \in Reached
    BY <2>2, ReachedFacts DEF Scripts
  <2> QED  BY <2>2, <2>3 DEF n
<1> QED  BY <1>3, <1>4

LEMMA DeepIsCyclic ==
  ASSUME Base, NEW chain, Nested(chain, stack), stack # <<>>, Top # <<>>, Kind = "group", Len(stack) = StackDepth
  PROVE  Cyclic
<1> DEFINE n == StackDepth
           G == {f \in DOMAIN disk : disk[f].kind = "group"}
           c == [j \in 1..n |-> IF j = n THEN Head(Top) ELSE chain[j]]
<1>1. n \in Nat \ {0} /\ IsFiniteSet(G) /\ Cardinality(G) \in Nat /\ n > Cardinality(G)
  <2>1. n \in Nat \ {0} /\ n > Cardinality(G) /\ IsFiniteSet(DOMAIN disk)
    BY BaseFacts
  <2>2. G \in SUBSET DOMAIN disk
    OBVIOUS
  <2> HIDE DEF G
  <2> QED  BY <2>1, <2>2, FS_Subset, FS_CardinalityType
<1>2. Head(Top) \in Scripts /\ (n > 1 => Head(Top) \in LeadsTo(chain[n - 1]))
  <2>1. Head(Top) \in DOMAIN disk /\ disk[Head(Top)].kind = "group"
    BY DEF Kind
  <2> QED  BY <2>1, NextReached DEF Scripts
<1>3. c \in [1..n -> Scripts]
  <2>1. \A j \in 1..n : j # n => j \in 1..(n - 1)
    BY <1>1
  <2> QED  BY <1>2, <2>1 DEF Nested
<1>4. ASSUME NEW j \in 2..n PROVE c[j] \in LeadsTo(c[j - 1])
  <2>1. j - 1 \in 1..n /\ j \in 1..n /\ j - 1 # n
    BY <1>1
  <2>2. c[j - 1] = chain[j - 1]
    BY <2>1
  <2>3. CASE j = n
    BY <1>1, <1>2, <2>1, <2>2, <2>3
  <2>4. CASE j # n
    <3>1. j \in 2..(n - 1)
      BY <1>1, <2>4
    <3> QED  BY <2>1, <2>2, <2>4, <3>1 DEF Nested
  <2> QED  BY <2>3, <2>4
<1> HIDE DEF c
<1>5. PICK a, b \in 1..n : a # b /\ c[a] = c[b]
  <2>1. IsFiniteSet(1..n) /\ Cardinality(1..n) = n
    BY <1>1, FS_Interval
  <2>2. c \in [1..n -> G]
    BY <1>3, ReachedFacts DEF Scripts
  <2> HIDE DEF G
  <2> QED  BY <1>1, <2>1, <2>2, FS_PigeonHole
<1>6. PICK x, y \in 1..n : x < y /\ c[x] = c[y]
  <2>1. a < b \/ b < a
    BY <1>1, <1>5
  <2> QED  BY <1>5, <2>1
<1> DEFINE S == {c[j] : j \in x..(y - 1)}
<1>7. x..(y - 1) \subseteq 1..n /\ x \in x..(y - 1) /\ y - 1 \in x..(y - 1)
  BY <1>1, <1>6
<1>8. S \in (SUBSET Reached) \ {{}}
  <2>1. c[x] \in S
    BY <1>7
  <2>2. \A j \in x..(y - 1) : c[j] \in Reached
    BY <1>3, <1>7 DEF Scripts
  <2> QED  BY <2>1, <2>2
<1>9. ASSUME NEW p \in S PROVE LeadsTo(p) \cap S # {}
  <2>1. PICK j \in x..(y - 1) : p = c[j]
    OBVIOUS
  <2>2. j + 1 \in 2..n /\ j + 1 - 1 = j
    BY <1>1, <1>6
  <2>3. c[j + 1] \in LeadsTo(p)
    BY <1>4, <2>1, <2>2
  <2>4. c[j + 1] \in S
    <3>1. CASE j = y - 1
      <4>1. j + 1 = y
        BY <1>1, <3>1
      <4> QED  BY <1>6, <1>7, <4>1
    <3>2. CASE j # y - 1
      <4>1. j + 1 \in x..(y - 1)
        BY <1>1, <3>2
      <4> QED  BY <4>1
    <3> QED  BY <3>1, <3>2
  <2> QED  BY <2>3, <2>4
<1> QED  BY <1>8, <1>9 DEF Cyclic

LEMMA ChainFixed ==
  ASSUME Fixed, NEW chain, Nested(chain, stack')
  PROVE  Chain'
<1>1. disk' = disk /\ Reached' = Reached /\ \A p : LeadsTo(p)' = LeadsTo(p)
  BY FixedFacts DEF Fixed
<1>2. Scripts' = Scripts
  BY <1>1 DEF Scripts
<1>3. Nested(chain, stack)'
  BY <1>1, <1>2 DEF Nested
<1> QED  BY <1>3 DEF Chain

LEMMA NestedEmpty == \E chain : Nested(chain, <<>>)
<1> DEFINE chain == [j \in 1..(0 - 1) |-> <<>>]
<1>1. Len(<<>>) = 0 /\ 1..(0 - 1) = {} /\ 2..(0 - 1) = {}
  OBVIOUS
<1>2. chain \in [1..(0 - 1) -> Scripts]
  BY <1>1
<1> HIDE DEF chain
<1>3. Nested(chain, <<>>)
  BY <1>1, <1>2 DEF Nested
<1> QED  BY <1>3

\* A member is taken.
LEMMA NestedRest ==
  ASSUME Base, NEW chain, Nested(chain, stack), stack # <<>>, Top # <<>>
  PROVE  Nested(chain, Rest)
<1> DEFINE n == Len(stack)
<1>1. /\ n \in Nat \ {0} /\ Len(Rest) = n /\ Rest[n] = Tail(Top) /\ Top = stack[n] /\ Top \in Seq(Paths)
      /\ \A j \in 1..(n - 1) : Rest[j] = stack[j]
  <2>1. stack \in Seq(Seq(Paths))
    BY DEF Base
  <2> QED  BY <2>1, StackFacts
<1>2. \A x \in ToSet(Tail(Top)) : x \in ToSet(Top)
  <2> DEFINE t == Top
  <2>1. t \in Seq(Paths) /\ t # <<>>
    BY <1>1
  <2> HIDE DEF t
  <2>2. \A j \in 1..Len(Tail(t)) : Tail(t)[j] = t[j + 1] /\ j + 1 \in DOMAIN t
    BY <2>1
  <2>3. DOMAIN Tail(t) = 1..Len(Tail(t))
    BY <2>1
  <2>4. \A x \in ToSet(Tail(t)) : x \in ToSet(t)
    BY <2>2, <2>3 DEF ToSet
  <2> QED  BY <2>4 DEF t
<1>3. \A j \in 1..n : ToSet(Rest[j]) \subseteq ToSet(stack[j])
  <2> SUFFICES ASSUME NEW j \in 1..n PROVE ToSet(Rest[j]) \subseteq ToSet(stack[j])
    OBVIOUS
  <2>1. CASE j = n
    BY <1>1, <1>2, <2>1
  <2>2. CASE j # n
    <3>1. j \in 1..(n - 1)
      BY <1>1, <2>2
    <3> QED  BY <1>1, <3>1
  <2> QED  BY <2>1, <2>2
<1>4. 1 \in 1..n /\ \A j \in 1..(n - 1) : j + 1 \in 1..n
  BY <1>1
<1> HIDE DEF n
<1>5. chain \in [1..(n - 1) -> Scripts] /\ \A j \in 2..(n - 1) : chain[j] \in LeadsTo(chain[j - 1])
  BY DEF Nested, n
<1>6. \A j \in 1..(n - 1) : ToSet(stack[j + 1]) \subseteq LeadsTo(chain[j]) \cap DOMAIN disk
  BY DEF Nested, n
<1>7. \A j \in 1..(n - 1) : ToSet(Rest[j + 1]) \subseteq LeadsTo(chain[j]) \cap DOMAIN disk
  BY <1>3, <1>4, <1>6
<1>8. ToSet(Rest[1]) \cap DOMAIN disk \subseteq Reached
  BY <1>3, <1>4 DEF Nested
<1> QED  BY <1>1, <1>5, <1>7, <1>8 DEF Nested

\* A script is expanded.
LEMMA NestedMore ==
  ASSUME Base, NEW chain, Nested(chain, stack), stack # <<>>, Top # <<>>, Kind = "group"
  PROVE  \E more : Nested(more, Append(Rest, FilesOf(disk[Head(Top)].members)))
<1> DEFINE n == Len(stack)
           h == Head(Top)
           f == FilesOf(disk[h].members)
           calls == Append(Rest, f)
           more == [j \in 1..n |-> IF j = n THEN h ELSE chain[j]]
<1>1. n \in Nat \ {0} /\ Len(Rest) = n /\ Rest \in Seq(Seq(Paths))
  <2>1. stack \in Seq(Seq(Paths))
    BY DEF Base
  <2> QED  BY <2>1, StackFacts
<1>2. h \in Scripts /\ (n > 1 => h \in LeadsTo(chain[n - 1]))
  <2>1. h \in DOMAIN disk /\ disk[h].kind = "group"
    BY DEF Kind
  <2> QED  BY <2>1, NextReached DEF Scripts
<1>3. f \in Seq(DOMAIN disk) /\ ToSet(f) \subseteq LeadsTo(h) \cap DOMAIN disk
  <2>1. h \in DOMAIN disk /\ disk[h].kind = "group"
    BY DEF Kind
  <2>2. disk[h].members \in Seq(LinkArg)
    BY <2>1, BaseFacts
  <2>3. MembersOf(h) = ToSet(disk[h].members)
    BY <2>1 DEF MembersOf
  <2> HIDE DEF h
  <2> QED  BY <2>2, <2>3, FilesFacts DEF LeadsTo, IsFile
<1>4. Nested(chain, Rest)
  BY NestedRest
<1> HIDE DEF f, h
<1>5. Len(calls) = n + 1 /\ calls[n + 1] = f /\ \A j \in 1..n : calls[j] = Rest[j]
  <2>1. f \in Seq(Paths)
    <3>1. DOMAIN disk \subseteq Paths
      BY DEF Paths
    <3> QED  BY <1>3, <3>1
  <2> QED  BY <1>1, <2>1
<1>6. more \in [1..n -> Scripts] /\ more[n] = h /\ \A j \in 1..(n - 1) : more[j] = chain[j]
  <2>1. \A j \in 1..n : j # n => j \in 1..(n - 1)
    BY <1>1
  <2>2. \A j \in 1..(n - 1) : j # n /\ j \in 1..n
    BY <1>1
  <2>3. chain \in [1..(n - 1) -> Scripts]
    BY DEF Nested
  <2>4. n \in 1..n
    BY <1>1
  <2> HIDE DEF n
  <2> QED  BY <1>2, <2>1, <2>2, <2>3, <2>4
<1> HIDE DEF more, calls, n
<1>7. /\ \A j \in 1..(n - 1) : ToSet(Rest[j + 1]) \subseteq LeadsTo(chain[j]) \cap DOMAIN disk
      /\ \A j \in 2..(n - 1) : chain[j] \in LeadsTo(chain[j - 1])
      /\ ToSet(Rest[1]) \cap DOMAIN disk \subseteq Reached
  <2>1. Rest # <<>>
    BY <1>1
  <2> QED  BY <1>1, <1>4, <2>1 DEF Nested
<1>8. ASSUME NEW j \in 1..n PROVE ToSet(calls[j + 1]) \subseteq LeadsTo(more[j]) \cap DOMAIN disk
  <2>1. CASE j = n
    BY <1>3, <1>5, <1>6, <2>1
  <2>2. CASE j # n
    <3>1. j \in 1..(n - 1) /\ j + 1 \in 1..n
      BY <1>1, <2>2
    <3> QED  BY <1>5, <1>6, <1>7, <3>1
  <2> QED  BY <2>1, <2>2
<1>9. ASSUME NEW j \in 2..n PROVE more[j] \in LeadsTo(more[j - 1])
  <2>0. j - 1 \in 1..(n - 1)
    BY <1>1
  <2>1. CASE j = n
    BY <1>1, <1>2, <1>6, <2>0, <2>1
  <2>2. CASE j # n
    <3>1. j \in 2..(n - 1) /\ j \in 1..(n - 1)
      BY <1>1, <2>2
    <3> QED  BY <1>6, <1>7, <2>0, <3>1
  <2> QED  BY <2>1, <2>2
<1>10. ToSet(calls[1]) \cap DOMAIN disk \subseteq Reached
  <2>1. 1 \in 1..n
    BY <1>1
  <2> QED  BY <1>5, <1>7, <2>1
<1>11. Len(calls) - 1 = n
  BY <1>1, <1>5
<1>12. Nested(more, calls)
  BY <1>6, <1>8, <1>9, <1>10, <1>11, Zenon DEF Nested
<1> QED  BY <1>12 DEF calls, f, h

\* A call returns.
LEMMA NestedLess ==
  ASSUME Base, NEW chain, Nested(chain, stack), stack # <<>>
  PROVE  \E less : Nested(less, Front(stack))
<1> DEFINE n == Len(stack)
           s == Front(stack)
<1>1. n \in Nat \ {0} /\ Len(s) = n - 1 /\ \A j \in 1..(n - 1) : s[j] = stack[j]
  <2>1. stack \in Seq(Seq(Paths))
    BY DEF Base
  <2> QED  BY <2>1, FrontFacts
<1>2. CASE n = 1
  <2>1. s = <<>>
    <3>1. s \in Seq(Seq(Paths))
      <4>1. stack \in Seq(Seq(Paths))
        BY DEF Base
      <4> QED  BY <4>1, FrontFacts
    <3> HIDE DEF s
    <3> QED  BY <1>1, <1>2, <3>1
  <2> QED  BY <2>1, NestedEmpty
<1>3. CASE n # 1
  <2> DEFINE less == [j \in 1..(n - 2) |-> chain[j]]
  <2>1. \A j \in 1..(n - 2) : j \in 1..(n - 1) /\ j + 1 \in 1..(n - 1)
    BY <1>1
  <2>2. \A j \in 2..(n - 2) : j \in 2..(n - 1) /\ j \in 1..(n - 2) /\ j - 1 \in 1..(n - 2)
    BY <1>1
  <2>3. n - 1 - 1 = n - 2 /\ 1 \in 1..(n - 1)
    BY <1>1, <1>3
  <2>4. less \in [1..(n - 2) -> Scripts] /\ \A j \in 1..(n - 2) : less[j] = chain[j]
    BY <2>1 DEF Nested
  <2> HIDE DEF less
  <2>5. \A j \in 1..(n - 2) : ToSet(s[j + 1]) \subseteq LeadsTo(less[j]) \cap DOMAIN disk
    BY <1>1, <2>1, <2>4 DEF Nested
  <2>6. \A j \in 2..(n - 2) : less[j] \in LeadsTo(less[j - 1])
    BY <2>2, <2>4 DEF Nested
  <2>7. ToSet(s[1]) \cap DOMAIN disk \subseteq Reached
    BY <1>1, <2>3 DEF Nested
  <2> HIDE DEF s, n
  <2>8. Nested(less, s)
    BY <1>1, <2>3, <2>4, <2>5, <2>6, <2>7 DEF Nested
  <2> QED  BY <2>8 DEF s
<1> QED  BY <1>2, <1>3

LEMMA ChainStep == Base /\ Chain /\ [Next]_vars => Chain'
<1> SUFFICES ASSUME Base, Chain, [Next]_vars PROVE Chain'
  OBVIOUS
<1>1. PICK chain : Nested(chain, stack)
  BY DEF Chain
<1>2. CASE Flag \/ Value \/ GluedValue \/ Ignored \/ Input \/ Help \/ ArgsDone
  <2>1. stack' = <<>>
    <3>1. pc = "args" /\ stack' = stack
      BY <1>2, ArgSteps DEF ArgsDone
    <3> QED  BY <3>1 DEF Base
  <2>2. \A c : Nested(c, <<>>)' <=> c \in [1..(Len(<<>>) - 1) -> Scripts']
    <3>1. Len(<<>>) = 0 /\ 1..(0 - 1) = {} /\ 2..(0 - 1) = {}
      OBVIOUS
    <3> QED  BY <3>1 DEF Nested
  <2> DEFINE none == [j \in 1..(Len(<<>>) - 1) |-> <<>>]
  <2>3. none \in [1..(Len(<<>>) - 1) -> Scripts']
    <3>1. 1..(Len(<<>>) - 1) = {}
      OBVIOUS
    <3> QED  BY <3>1
  <2> HIDE DEF none
  <2>4. Nested(none, stack)'
    BY <2>1, <2>2, <2>3 DEF Nested
  <2> QED  BY <2>4 DEF Chain
<1>3. CASE Resolves
  <2>1. Fixed
    BY <1>3, ResolvesFixed
  <2>2. \E c : Nested(c, stack')
    <3>1. CASE stack' = stack
      BY <1>1, <3>1
    <3>2. CASE NextInput /\ stack' # stack
      <4>1. stack' = << <<PathOf(config.inputs[i])>> >> /\ i <= Len(config.inputs)
        BY <3>2 DEF NextInput, Ended
      <4> DEFINE p == PathOf(config.inputs[i])
                 s == << <<p>> >>
                 none == [j \in 1..0 |-> <<>>]
      <4>2. i \in DOMAIN config.inputs
        <5>1. i \in Nat \ {0} /\ config.inputs \in Seq(AnyInput)
          BY DEF Base
        <5> QED  BY <4>1, <5>1
      <4>3. ToSet(<<p>>) \cap DOMAIN disk \subseteq Reached
        <5>1. p \in DOMAIN disk => p \in Reached
          BY <4>2, ReachedFacts
        <5> HIDE DEF p
        <5> QED  BY <5>1 DEF ToSet
      <4> HIDE DEF p
      <4>4. Len(s) - 1 = 0 /\ s[1] = <<p>> /\ 1..0 = {} /\ 2..0 = {}
        OBVIOUS
      <4>5. none \in [1..0 -> Scripts]
        BY <4>4
      <4> HIDE DEF none, s
      <4>6. Nested(none, s)
        BY <4>3, <4>4, <4>5 DEF Nested
      <4> QED  BY <4>1, <4>6 DEF s, p
    <3>3. CASE TakeUnit
      <4>1. stack' = Rest /\ stack # <<>> /\ Top # <<>>
        BY <3>3 DEF TakeUnit, Take, AtMember
      <4> QED  BY <1>1, <4>1, NestedRest
    <3>4. CASE ExpandGroup /\ stack' # stack
      <4>1. /\ stack' = Append(Rest, FilesOf(disk[Head(Top)].members))
            /\ stack # <<>> /\ Top # <<>> /\ Kind = "group"
        BY <3>4 DEF ExpandGroup, AtMember, Ended
      <4> QED  BY <1>1, <4>1, NestedMore
    <3>5. CASE Return
      <4>1. stack' = Front(stack) /\ stack # <<>>
        BY <3>5 DEF Return
      <4> QED  BY <1>1, <4>1, NestedLess
    <3>6. CASE CannotLoad \/ InputsDone
      BY <3>1, <3>6 DEF CannotLoad, InputsDone, Ended
    <3> QED  BY <1>3, <3>1, <3>2, <3>3, <3>4, <3>5, <3>6 DEF Resolves
  <2> QED  BY <2>1, <2>2, ChainFixed
<1>4. CASE UNCHANGED vars
  <2>1. Fixed /\ stack' = stack
    BY <1>4 DEF vars, Fixed
  <2> QED  BY <1>1, <2>1, ChainFixed
<1> QED  BY <1>2, <1>3, <1>4 DEF Next, Resolves

LEMMA OverflowStep == Base /\ Chain /\ OverflowOnlyOfCycles /\ [Next]_vars => OverflowOnlyOfCycles'
<1> SUFFICES ASSUME Base, Chain, OverflowOnlyOfCycles, [Next]_vars, pc' = "overflow" PROVE Cyclic'
  BY DEF OverflowOnlyOfCycles
<1>1. Fixed => Cyclic' = Cyclic
  BY FixedFacts DEF Cyclic
<1>2. CASE ExpandGroup /\ pc = "inputs"
  <2>1. stack # <<>> /\ Top # <<>> /\ Kind = "group" /\ Len(stack) = StackDepth
    BY <1>2 DEF ExpandGroup, AtMember, Ended
  <2>2. Cyclic
    <3>1. PICK chain : Nested(chain, stack)
      BY DEF Chain
    <3> QED  BY <2>1, <3>1, DeepIsCyclic
  <2> QED  BY <1>1, <1>2, <2>2, ResolvesFixed DEF Resolves
<1>3. CASE UNCHANGED vars
  <2>1. Fixed /\ pc = "overflow"
    BY <1>3 DEF vars, Fixed
  <2> QED  BY <1>1, <2>1 DEF OverflowOnlyOfCycles
<1>4. CASE Flag \/ Value \/ GluedValue \/ Ignored \/ Input \/ Help
  BY <1>4, ArgSteps DEF CannotRead
<1>5. CASE ArgsDone \/ NextInput \/ TakeUnit \/ CannotLoad \/ Return \/ InputsDone
  BY <1>5 DEF ArgsDone, NextInput, TakeUnit, Take, AtMember, CannotLoad, Return, InputsDone, Ended
<1>6. ExpandGroup => pc = "inputs"
  BY DEF ExpandGroup, AtMember
<1> QED  BY <1>2, <1>3, <1>4, <1>5, <1>6 DEF Next

\* The recursion of resolve_path exhausts the stack only if a script reaches itself (linker.rs resolve_path,
\* libsearch.rs expand_group_script).
THEOREM OverflowNeedsACycle == Spec => []OverflowOnlyOfCycles
<1>1. Init => Chain /\ OverflowOnlyOfCycles
  <2> SUFFICES ASSUME Init PROVE Chain /\ OverflowOnlyOfCycles
    OBVIOUS
  <2>1. stack = <<>> /\ pc = "args"
    BY DEF Init
  <2> QED  BY <2>1, NestedEmpty DEF Chain, OverflowOnlyOfCycles
<1>2. Base /\ (Chain /\ OverflowOnlyOfCycles) /\ [Next]_vars => (Chain /\ OverflowOnlyOfCycles)'
  BY ChainStep, OverflowStep
<1> QED  BY <1>1, <1>2, BaseInvariant, PTL DEF Spec
-----------------------------------------------------------------------------
(***************************************************************************)
(* What the command line says, up to an argument.                          *)
(***************************************************************************)

LEMMA ArgIndex ==
  ASSUME argv \in Seq([opt : STRING, val : STRING]), NEW n \in DOMAIN argv
  PROVE  /\ n \in Nat \ {0} /\ n - 1 \in 0..Len(argv) /\ n \in 1..Len(argv)
         /\ Len(argv) \in Nat /\ DOMAIN argv = 1..Len(argv)
<1>1. Len(argv) \in Nat /\ DOMAIN argv = 1..Len(argv)
  OBVIOUS
<1> QED  BY <1>1

TakesNext(k) == argv[k].opt \in TakesValue /\ argv[k].val = ""
AfterOption(k) == TakesNext(k - 1)
ValueUnfolds(f) == f = [k \in 0..Len(argv) |-> k > 1 /\ ~f[k-1] /\ argv[k-1].opt \in TakesValue /\ argv[k-1].val = ""]

\* An argument is a value where the one before it is an option that takes one.
LEMMA IsValueIs ==
  ASSUME argv \in Seq([opt : STRING, val : STRING])
  PROVE  \A k \in DOMAIN argv : IsValue[k] <=> k > 1 /\ ~IsValue[k - 1] /\ AfterOption(k)
<1> DEFINE n == Len(argv)
           G == [x \in ((0 + 1)..n) \X BOOLEAN |-> x[1] > 1 /\ ~x[2] /\ AfterOption(x[1])]
<1>1. n \in Nat /\ 0 <= n /\ (0 + 1)..n = 1..n /\ DOMAIN argv = 1..n
  OBVIOUS
<1>2. G \in [((0 + 1)..n) \X BOOLEAN -> BOOLEAN]
  OBVIOUS
<1>3. PICK h : Solves(h, 0, n, BOOLEAN, FALSE, G)
  <2> HIDE DEF n, G
  <2> QED  BY <1>1, <1>2, Recursion
<1>4. ASSUME NEW k \in 1..n PROVE h[k] = (k > 1 /\ ~h[k - 1] /\ AfterOption(k))
  <2>1. k - 1 \in 0..n
    BY <1>1
  <2>2. h[k - 1] \in BOOLEAN /\ h[k] = G[<<k, h[k - 1]>>]
    BY <1>1, <1>3, <2>1 DEF Solves
  <2> QED  BY <1>1, <2>2
<1>5. ValueUnfolds(h)
  <2>1. h = [k \in 0..n |-> h[k]] /\ h[0] = FALSE
    BY <1>3 DEF Solves
  <2>2. \A k \in 0..n : k # 0 => k \in 1..n
    BY <1>1
  <2>3. \A k \in 0..n : h[k] = (k > 1 /\ ~h[k-1] /\ argv[k-1].opt \in TakesValue /\ argv[k-1].val = "")
    <3> SUFFICES ASSUME NEW k \in 0..n
                 PROVE  h[k] = (k > 1 /\ ~h[k-1] /\ argv[k-1].opt \in TakesValue /\ argv[k-1].val = "")
      OBVIOUS
    <3>1. CASE k = 0
      <4>1. ~(k > 1) /\ h[k] = FALSE
        BY <2>1, <3>1
      <4> QED  BY <4>1, Zenon
    <3>2. CASE k # 0
      <4>1. h[k] = (k > 1 /\ ~h[k - 1] /\ AfterOption(k))
        BY <1>4, <2>2, <3>2
      <4> QED  BY <4>1, Zenon DEF AfterOption, TakesNext
    <3> QED  BY <3>1, <3>2
  <2> HIDE DEF n
  <2> QED  BY <2>1, <2>3 DEF ValueUnfolds, n
<1>6. ValueUnfolds(IsValue)
  <2>1. IsValue = CHOOSE f : ValueUnfolds(f)
    BY Zenon DEF IsValue, ValueUnfolds
  <2> QED  BY <1>5, <2>1, Zenon
<1>7. \A k \in DOMAIN argv : k \in 0..Len(argv)
  BY <1>1
<1> QED  BY <1>6, <1>7 DEF ValueUnfolds, AfterOption, TakesNext

OptionPieces(opt) == [k \in DOMAIN argv |-> IF Given(opt, k) THEN <<ValueOf(k)>> ELSE <<>>]
InputPieces ==
  [k \in DOMAIN argv |->
    IF ~IsValue[k] /\ argv[k].opt = "" THEN <<File(argv[k].val)>>
    ELSE IF Given("-l", k) THEN <<Lib(ValueOf(k))>> ELSE <<>>]
\* The values of an option, and the inputs, up to the n-th argument.
SoFar(opt, n) == FlattenSeq(Before(OptionPieces(opt), n))
InputsSoFar(n) == FlattenSeq(Before(InputPieces, n))

LEMMA SoFarFacts ==
  ASSUME argv \in Seq([opt : STRING, val : STRING]), NEW opt
  PROVE  /\ SoFar(opt, 0) = <<>> /\ Values(opt) = SoFar(opt, Len(argv))
         /\ \A n \in 0..Len(argv) : SoFar(opt, n) \in Seq(AnyValue)
         /\ \A n \in DOMAIN argv :
              SoFar(opt, n) = IF Given(opt, n) THEN Append(SoFar(opt, n - 1), ValueOf(n)) ELSE SoFar(opt, n - 1)
<1> DEFINE s == OptionPieces(opt)
<1>1. DOMAIN argv = 1..Len(argv) /\ Len(argv) \in Nat
  OBVIOUS
<1>2. \A k \in DOMAIN argv : s[k] = IF Given(opt, k) THEN <<ValueOf(k)>> ELSE <<>>
  BY DEF OptionPieces
<1>3. \A k \in DOMAIN argv : s[k] \in Seq(AnyValue)
  <2>1. \A k \in DOMAIN argv : <<ValueOf(k)>> \in Seq(AnyValue)
    BY DEF AnyValue
  <2>2. <<>> \in Seq(AnyValue)
    OBVIOUS
  <2> HIDE DEF s
  <2> QED  BY <1>2, <2>1, <2>2
<1>4. DOMAIN s = 1..Len(argv)
  BY <1>1 DEF OptionPieces
<1>5. Values(opt) = FlattenSeq(s)
  BY DEF Values, OptionPieces
<1>6. s = [k \in 1..Len(argv) |-> s[k]]
  BY <1>1 DEF OptionPieces
<1> HIDE DEF s
<1>7. s \in Seq(Seq(AnyValue)) /\ Len(s) = Len(argv)
  BY <1>1, <1>3, <1>6
<1>8. /\ SoFar(opt, 0) = <<>> /\ Values(opt) = SoFar(opt, Len(argv))
      /\ \A n \in 0..Len(argv) : SoFar(opt, n) \in Seq(AnyValue)
      /\ \A n \in 1..Len(argv) : SoFar(opt, n) = SoFar(opt, n - 1) \o s[n]
  BY <1>5, <1>7, FlatBefore DEF SoFar, s
<1>9. ASSUME NEW n \in DOMAIN argv
      PROVE  SoFar(opt, n) = IF Given(opt, n) THEN Append(SoFar(opt, n - 1), ValueOf(n)) ELSE SoFar(opt, n - 1)
  <2>1. n \in 1..Len(argv) /\ n - 1 \in 0..Len(argv)
    BY <1>1
  <2> DEFINE b == SoFar(opt, n - 1)
             v == ValueOf(n)
  <2>2. SoFar(opt, n) = b \o s[n] /\ b \in Seq(AnyValue) /\ v \in AnyValue
    BY <1>8, <2>1 DEF AnyValue
  <2> HIDE DEF b, v
  <2>3. b \o <<>> = b /\ b \o <<v>> = Append(b, v)
    BY <2>2
  <2> QED  BY <1>2, <2>2, <2>3 DEF b, v
<1> QED  BY <1>8, <1>9

LEMMA InputsSoFarFacts ==
  ASSUME argv \in Seq([opt : STRING, val : STRING])
  PROVE  /\ InputsSoFar(0) = <<>> /\ InputsSaid = InputsSoFar(Len(argv))
         /\ \A n \in 0..Len(argv) : InputsSoFar(n) \in Seq(AnyInput)
         /\ \A n \in DOMAIN argv :
              InputsSoFar(n) =
                IF ~IsValue[n] /\ argv[n].opt = "" THEN Append(InputsSoFar(n - 1), File(argv[n].val))
                ELSE IF Given("-l", n) THEN Append(InputsSoFar(n - 1), Lib(ValueOf(n))) ELSE InputsSoFar(n - 1)
<1> DEFINE s == InputPieces
<1>1. DOMAIN argv = 1..Len(argv) /\ Len(argv) \in Nat
  OBVIOUS
<1>2. \A k \in DOMAIN argv :
        s[k] = IF ~IsValue[k] /\ argv[k].opt = "" THEN <<File(argv[k].val)>>
               ELSE IF Given("-l", k) THEN <<Lib(ValueOf(k))>> ELSE <<>>
  BY DEF InputPieces
<1>3. \A k \in DOMAIN argv : File(argv[k].val) \in AnyInput /\ Lib(ValueOf(k)) \in AnyInput
  BY DEF AnyInput, AnyValue
<1>4. \A k \in DOMAIN argv : s[k] \in Seq(AnyInput)
  <2>1. \A x \in AnyInput : <<x>> \in Seq(AnyInput)
    OBVIOUS
  <2>2. <<>> \in Seq(AnyInput)
    OBVIOUS
  <2> HIDE DEF s
  <2> QED  BY <1>2, <1>3, <2>1, <2>2
<1>5. InputsSaid = FlattenSeq(s)
  BY DEF InputsSaid, InputPieces
<1>6. s = [k \in 1..Len(argv) |-> s[k]]
  BY <1>1 DEF InputPieces
<1> HIDE DEF s
<1>7. s \in Seq(Seq(AnyInput)) /\ Len(s) = Len(argv)
  BY <1>1, <1>4, <1>6
<1>8. /\ InputsSoFar(0) = <<>> /\ InputsSaid = InputsSoFar(Len(argv))
      /\ \A n \in 0..Len(argv) : InputsSoFar(n) \in Seq(AnyInput)
      /\ \A n \in 1..Len(argv) : InputsSoFar(n) = InputsSoFar(n - 1) \o s[n]
  BY <1>5, <1>7, FlatBefore DEF InputsSoFar, s
<1>9. ASSUME NEW n \in DOMAIN argv
      PROVE  InputsSoFar(n) =
               IF ~IsValue[n] /\ argv[n].opt = "" THEN Append(InputsSoFar(n - 1), File(argv[n].val))
               ELSE IF Given("-l", n) THEN Append(InputsSoFar(n - 1), Lib(ValueOf(n))) ELSE InputsSoFar(n - 1)
  <2>1. n \in 1..Len(argv) /\ n - 1 \in 0..Len(argv)
    BY <1>1
  <2> DEFINE b == InputsSoFar(n - 1)
  <2>2. InputsSoFar(n) = b \o s[n] /\ b \in Seq(AnyInput)
    BY <1>8, <2>1
  <2> HIDE DEF b
  <2>3. b \o <<>> = b /\ \A x \in AnyInput : b \o <<x>> = Append(b, x)
    BY <2>2
  <2> QED  BY <1>2, <1>3, <2>2, <2>3 DEF b
<1> QED  BY <1>8, <1>9

StaticSoFar(n) == \E k \in 1..n : ~IsValue[k] /\ argv[k].opt = "-static"

\* The configuration is the one that the first n arguments say.
ConfigSaid(c, n) ==
  /\ c.out = LastOf(SoFar("-o", n), "a.out")
  /\ c.dirs = SoFar("-L", n)
  /\ c.sysroot = LastOf(SoFar("--sysroot", n), "")
  /\ c.entry = IF SoFar("-e", n) = <<>> THEN <<"_start">> ELSE <<Last(SoFar("-e", n))>>
  /\ c.inputs = InputsSoFar(n)
  /\ c.static = StaticSoFar(n)
  /\ \A v \in ToSet(SoFar("-T", n)) : IsFile(v)

LEMMA StaticMore ==
  ASSUME NEW n \in Nat \ {0}
  PROVE  StaticSoFar(n) = (StaticSoFar(n - 1) \/ (~IsValue[n] /\ argv[n].opt = "-static"))
<1>1. 1..n = (1..(n - 1)) \cup {n}
  OBVIOUS
<1> QED  BY <1>1, Zenon DEF StaticSoFar

LEMMA LastAppend ==
  ASSUME NEW X, NEW s \in Seq(X), NEW x \in X
  PROVE  /\ Append(s, x) # <<>> /\ Last(Append(s, x)) = x
         /\ \A d : LastOf(Append(s, x), d) = x
         /\ ToSet(Append(s, x)) = ToSet(s) \cup {x}
<1>1. Append(s, x) # <<>> /\ Last(Append(s, x)) = x
  BY DEF Last
<1>2. \A d : LastOf(Append(s, x), d) = x
  BY <1>1 DEF LastOf
<1>3. ToSet(Append(s, x)) = ToSet(s) \cup {x}
  <2>1. <<x>> \in Seq(X) /\ s \o <<x>> = Append(s, x)
    OBVIOUS
  <2>2. ToSet(<<x>>) = {x}
    BY DEF ToSet
  <2> DEFINE t == <<x>>
  <2> HIDE DEF t
  <2>3. t \in Seq(X)
    BY <2>1 DEF t
  <2>4. ToSet(s \o t) = ToSet(s) \cup ToSet(t)
    BY <2>3, ToSetConcat
  <2> QED  BY <2>1, <2>2, <2>4 DEF t
<1> QED  BY <1>1, <1>2, <1>3

\* An argument that says nothing of the configuration.
Silent(n) ==
  /\ \A opt \in {"-o", "-L", "--sysroot", "-e", "-T", "-l"} : ~Given(opt, n)
  /\ ~(~IsValue[n] /\ argv[n].opt \in {"", "-static"})

LEMMA SilentSaid ==
  ASSUME argv \in Seq([opt : STRING, val : STRING]), NEW n \in DOMAIN argv, NEW c, ConfigSaid(c, n - 1), Silent(n)
  PROVE  ConfigSaid(c, n)
<1>1. n \in Nat \ {0}
  BY ArgIndex
<1>2. \A opt \in {"-o", "-L", "--sysroot", "-e", "-T", "-l"} : SoFar(opt, n) = SoFar(opt, n - 1)
  BY SoFarFacts DEF Silent
<1>3. InputsSoFar(n) = InputsSoFar(n - 1)
  BY InputsSoFarFacts DEF Silent
<1>4. StaticSoFar(n) = StaticSoFar(n - 1)
  <2>1. ~(~IsValue[n] /\ argv[n].opt = "-static")
    BY DEF Silent
  <2> QED  BY <1>1, <2>1, StaticMore, Zenon DEF StaticSoFar
<1> QED  BY <1>2, <1>3, <1>4 DEF ConfigSaid

\* An option whose value is read.
LEMMA ReadSaid ==
  ASSUME argv \in Seq([opt : STRING, val : STRING]), NEW n \in DOMAIN argv, NEW c, IsConfig(c), ConfigSaid(c, n - 1),
         ~IsValue[n], HasValue(n), argv[n].opt \in ValueOptions, ~Unreadable(argv[n].opt, ValueOf(n))
  PROVE  ConfigSaid(Valued(c, argv[n].opt, ValueOf(n)), n)
<1> DEFINE o == argv[n].opt
           v == ValueOf(n)
           w == Valued(c, o, v)
<1>1. n \in Nat \ {0} /\ n - 1 \in 0..Len(argv)
  BY ArgIndex
<1>2. \A opt : Given(opt, n) <=> opt = o
  BY DEF Given
<1>3. /\ w.out = (IF o = "-o" THEN v ELSE c.out) /\ w.dirs = (IF o = "-L" THEN Append(c.dirs, v) ELSE c.dirs)
      /\ w.sysroot = (IF o = "--sysroot" THEN v ELSE c.sysroot)
      /\ w.entry = (IF o = "-e" THEN <<v>> ELSE c.entry) /\ w.static = c.static
      /\ w.inputs = (IF o = "-l" THEN Append(c.inputs, Lib(v)) ELSE c.inputs)
  <2>1. w = Made(IF o = "-o" THEN v ELSE c.out,
                 IF o = "-l" THEN Append(c.inputs, Lib(v)) ELSE c.inputs,
                 IF o = "-L" THEN Append(c.dirs, v) ELSE c.dirs,
                 IF o = "--sysroot" THEN v ELSE c.sysroot,
                 IF o = "-I" THEN v ELSE c.interp,
                 IF o = "-I" THEN FALSE ELSE c.noInterp,
                 c.shared, c.pie, c.static,
                 IF o = "-e" THEN <<v>> ELSE c.entry,
                 IF o = "-soname" THEN v ELSE c.soname,
                 IF o = "-T" THEN disk[v].lines ELSE c.script)
    BY ValuedIs
  <2> HIDE DEF w, o, v
  <2> QED  BY <2>1 DEF Made
<1>4. \A opt : /\ SoFar(opt, n) = (IF opt = o THEN Append(SoFar(opt, n - 1), v) ELSE SoFar(opt, n - 1))
               /\ SoFar(opt, n - 1) \in Seq(AnyValue)
  BY <1>1, <1>2, SoFarFacts
<1>5. v \in AnyValue
  BY DEF AnyValue
<1>6. o # "" /\ o # "-static"
  BY DEF ValueOptions
<1>7. InputsSoFar(n) = IF o = "-l" THEN Append(InputsSoFar(n - 1), Lib(v)) ELSE InputsSoFar(n - 1)
  BY <1>2, <1>6, InputsSoFarFacts
<1>8. StaticSoFar(n) = StaticSoFar(n - 1)
  <2>1. ~(~IsValue[n] /\ argv[n].opt = "-static")
    BY <1>6
  <2> QED  BY <1>1, <2>1, StaticMore, Zenon DEF StaticSoFar
<1>9. o = "-T" => IsFile(v)
  BY DEF Unreadable
<1> HIDE DEF o, v, w
<1>10. \A opt : SoFar(opt, n - 1) \in Seq(AnyValue) =>
                  LET more == Append(SoFar(opt, n - 1), v)
                  IN /\ more # <<>> /\ Last(more) = v /\ \A d : LastOf(more, d) = v
                     /\ ToSet(more) = ToSet(SoFar(opt, n - 1)) \cup {v}
  BY <1>5, LastAppend
<1>11. w.out = LastOf(SoFar("-o", n), "a.out")
  BY <1>3, <1>4, <1>10 DEF ConfigSaid
<1>12. w.dirs = SoFar("-L", n)
  BY <1>3, <1>4 DEF ConfigSaid
<1>13. w.sysroot = LastOf(SoFar("--sysroot", n), "")
  BY <1>3, <1>4, <1>10 DEF ConfigSaid
<1>14. w.entry = IF SoFar("-e", n) = <<>> THEN <<"_start">> ELSE <<Last(SoFar("-e", n))>>
  BY <1>3, <1>4, <1>10 DEF ConfigSaid
<1>15. w.inputs = InputsSoFar(n) /\ w.static = StaticSoFar(n)
  BY <1>3, <1>7, <1>8 DEF ConfigSaid
<1>16. ASSUME NEW x \in ToSet(SoFar("-T", n)) PROVE IsFile(x)
  <2>1. \A y \in ToSet(SoFar("-T", n - 1)) : IsFile(y)
    BY DEF ConfigSaid
  <2>2. CASE o = "-T"
    <3>1. x \in ToSet(SoFar("-T", n - 1)) \cup {v}
      BY <1>4, <1>10, <1>16, <2>2
    <3> QED  BY <1>9, <2>1, <2>2, <3>1
  <2>3. CASE o # "-T"
    <3>1. x \in ToSet(SoFar("-T", n - 1))
      BY <1>4, <1>16, <2>3
    <3> QED  BY <2>1, <3>1
  <2> QED  BY <2>2, <2>3
<1>17. ConfigSaid(w, n)
  BY <1>11, <1>12, <1>13, <1>14, <1>15, <1>16 DEF ConfigSaid
<1> QED  BY <1>17 DEF w, o, v

\* A flag.
LEMMA FlagSaid ==
  ASSUME argv \in Seq([opt : STRING, val : STRING]), NEW n \in DOMAIN argv, NEW c, IsConfig(c), ConfigSaid(c, n - 1),
         ~IsValue[n], argv[n].opt \in Flags
  PROVE  ConfigSaid(Flagged(c, argv[n].opt), n)
<1> DEFINE o == argv[n].opt
           w == Flagged(c, o)
<1>1. n \in Nat \ {0}
  BY ArgIndex
<1>2. o \notin {"-o", "-L", "--sysroot", "-e", "-T", "-l", ""}
  BY DEF Flags
<1>3. /\ w.out = c.out /\ w.inputs = c.inputs /\ w.dirs = c.dirs /\ w.sysroot = c.sysroot /\ w.entry = c.entry
      /\ w.static = IF o = "-static" THEN TRUE ELSE c.static
  <2>1. o \in Flags
    OBVIOUS
  <2> HIDE DEF o
  <2> QED  BY <2>1, FlaggedIs, ZenonT(60)
<1>4. \A opt \in {"-o", "-L", "--sysroot", "-e", "-T", "-l"} : ~Given(opt, n) /\ SoFar(opt, n) = SoFar(opt, n - 1)
  BY <1>2, SoFarFacts DEF Given
<1>5. InputsSoFar(n) = InputsSoFar(n - 1)
  BY <1>2, <1>4, InputsSoFarFacts
<1> HIDE DEF w, o
<1>6. w.static = StaticSoFar(n)
  <2>1. StaticSoFar(n) = (StaticSoFar(n - 1) \/ o = "-static") /\ c.static = StaticSoFar(n - 1)
    BY <1>1, StaticMore, Zenon DEF ConfigSaid, o
  <2>2. CASE o = "-static"
    BY <1>3, <2>1, <2>2
  <2>3. CASE o # "-static"
    <3>1. StaticSoFar(n) = StaticSoFar(n - 1)
      BY <2>1, <2>3, Zenon DEF StaticSoFar
    <3> QED  BY <1>3, <2>1, <2>3, <3>1
  <2> QED  BY <2>2, <2>3
<1>7. ConfigSaid(w, n)
  BY <1>3, <1>4, <1>5, <1>6 DEF ConfigSaid
<1> QED  BY <1>7 DEF w, o

\* An input.
LEMMA InputSaid ==
  ASSUME argv \in Seq([opt : STRING, val : STRING]), NEW n \in DOMAIN argv, NEW c, IsConfig(c), ConfigSaid(c, n - 1),
         ~IsValue[n], argv[n].opt = ""
  PROVE  ConfigSaid([c EXCEPT !.inputs = Append(@, File(argv[n].val))], n)
<1> DEFINE f == File(argv[n].val)
           w == [c EXCEPT !.inputs = Append(@, f)]
<1>1. n \in Nat \ {0}
  BY ArgIndex
<1>2. InputsSoFar(n) = Append(InputsSoFar(n - 1), f)
  BY InputsSoFarFacts
<1> HIDE DEF f
<1>3. /\ w.out = c.out /\ w.inputs = Append(c.inputs, f) /\ w.dirs = c.dirs /\ w.sysroot = c.sysroot
      /\ w.entry = c.entry /\ w.static = c.static
  BY DEF IsConfig, Made
<1>4. \A opt \in {"-o", "-L", "--sysroot", "-e", "-T"} : ~Given(opt, n) /\ SoFar(opt, n) = SoFar(opt, n - 1)
  BY SoFarFacts DEF Given
<1>5. StaticSoFar(n) = StaticSoFar(n - 1)
  <2>1. ~(~IsValue[n] /\ argv[n].opt = "-static")
    OBVIOUS
  <2> QED  BY <1>1, <2>1, StaticMore, Zenon DEF StaticSoFar
<1> HIDE DEF w
<1>6. ConfigSaid(w, n)
  BY <1>2, <1>3, <1>4, <1>5 DEF ConfigSaid
<1> QED  BY <1>6 DEF w, f

PlainLine == ~StrayValue /\ ~ValueMissing /\ ~GluedDropped

\* What depends on the invocation alone.
LEMMA LineFixed ==
  ASSUME argv' = argv, disk' = disk
  PROVE  /\ IsValue' = IsValue /\ (PlainLine' <=> PlainLine)
         /\ \A c, n : ConfigSaid(c, n)' <=> ConfigSaid(c, n)
<1>1. IsValue' = IsValue
  BY DEF IsValue
<1>2. \A k : HasValue(k)' = HasValue(k) /\ ValueOf(k)' = ValueOf(k)
  BY DEF HasValue, ValueOf
<1>3. PlainLine' <=> PlainLine
  <2>1. StrayValue' <=> StrayValue
    BY <1>1 DEF StrayValue, Stray
  <2>2. ValueMissing' <=> ValueMissing
    BY <1>1, <1>2 DEF ValueMissing
  <2>3. GluedDropped' <=> GluedDropped
    BY <1>1 DEF GluedDropped
  <2> QED  BY <2>1, <2>2, <2>3 DEF PlainLine
<1>4. \A opt, k : Given(opt, k)' = Given(opt, k)
  BY <1>1, <1>2 DEF Given
<1>5. \A opt : OptionPieces(opt)' = OptionPieces(opt)
  BY <1>2, <1>4 DEF OptionPieces
<1>6. InputPieces' = InputPieces
  BY <1>1, <1>2, <1>4 DEF InputPieces
<1>7. \A opt, n : SoFar(opt, n)' = SoFar(opt, n)
  BY <1>5 DEF SoFar
<1>8. \A n : InputsSoFar(n)' = InputsSoFar(n)
  BY <1>6 DEF InputsSoFar
<1>9. \A n : StaticSoFar(n)' = StaticSoFar(n)
  BY <1>1 DEF StaticSoFar
<1>10. \A v : IsFile(v)' = IsFile(v)
  BY DEF IsFile
<1>11. \A c, n : ConfigSaid(c, n)' <=> ConfigSaid(c, n)
  BY <1>7, <1>8, <1>9, <1>10 DEF ConfigSaid
<1> QED  BY <1>1, <1>3, <1>11

\* The next argument is not a value, and where it is, the one after it is not.
LEMMA NotValueNext ==
  ASSUME argv \in Seq([opt : STRING, val : STRING]), NEW n \in DOMAIN argv, n + 1 <= Len(argv),
         ~TakesNext(n)
  PROVE  ~IsValue[n + 1]
<1>1. n + 1 \in DOMAIN argv /\ n + 1 - 1 = n
  <2>1. DOMAIN argv = 1..Len(argv) /\ Len(argv) \in Nat /\ n \in Nat \ {0}
    BY ArgIndex
  <2> QED  BY <2>1
<1>2. IsValue[n + 1] => AfterOption(n + 1)
  BY <1>1, IsValueIs
<1> QED  BY <1>1, <1>2 DEF AfterOption

LEMMA ValueNext ==
  ASSUME argv \in Seq([opt : STRING, val : STRING]), NEW n \in DOMAIN argv, ~IsValue[n], HasValue(n),
         TakesNext(n)
  PROVE  /\ n + 1 \in DOMAIN argv /\ IsValue[n + 1] /\ n + 2 \in 1..(Len(argv) + 1)
         /\ n + 2 <= Len(argv) => ~IsValue[n + 2]
         /\ \A c : ConfigSaid(c, n) => ConfigSaid(c, n + 1)
<1>1. DOMAIN argv = 1..Len(argv) /\ Len(argv) \in Nat /\ n \in Nat \ {0}
  BY ArgIndex
<1>2. n < Len(argv)
  BY DEF HasValue, TakesNext
<1>3. n + 1 \in DOMAIN argv /\ n + 1 - 1 = n /\ n + 1 > 1 /\ n + 2 \in 1..(Len(argv) + 1)
  BY <1>1, <1>2
<1>4. IsValue[n + 1]
  <2>1. AfterOption(n + 1)
    BY <1>3 DEF AfterOption
  <2> QED  BY <1>3, <2>1, IsValueIs
<1>5. n + 2 <= Len(argv) => ~IsValue[n + 2]
  <2>1. n + 2 <= Len(argv) => n + 2 \in DOMAIN argv /\ n + 2 - 1 = n + 1
    BY <1>1
  <2> QED  BY <1>4, <2>1, IsValueIs
<1>6. ASSUME NEW c, ConfigSaid(c, n) PROVE ConfigSaid(c, n + 1)
  <2>1. Silent(n + 1)
    BY <1>4 DEF Silent, Given
  <2>2. ConfigSaid(c, n + 1 - 1)
    BY <1>3, <1>6
  <2> QED  BY <1>3, <2>1, <2>2, SilentSaid
<1> QED  BY <1>3, <1>4, <1>5, <1>6

LEMMA StrayIs ==
  ASSUME NEW opts, NEW k, k \in DOMAIN argv /\ IsValue[k] /\ argv[k - 1].opt \in {"-m", "-plugin"} /\ argv[k].opt \in opts
  PROVE  Stray(opts)
BY DEF Stray

\* What a plain command line is spared.
LEMMA PlainFacts ==
  ASSUME argv \in Seq([opt : STRING, val : STRING]), PlainLine, NEW n \in DOMAIN argv, ~IsValue[n]
  PROVE  /\ argv[n].opt \in TakesValue => HasValue(n)
         /\ argv[n].opt \in {"-m", "-plugin"} => argv[n].val # ""
         /\ argv[n].opt \in {"-o", "-e"} => argv[n].val = ""
<1>1. argv[n].opt \in TakesValue => HasValue(n)
  BY DEF PlainLine, ValueMissing
<1>2. argv[n].opt \in {"-o", "-e"} => argv[n].val = ""
  BY DEF PlainLine, GluedDropped
<1>3. ASSUME argv[n].opt \in {"-m", "-plugin"}, argv[n].val = "" PROVE FALSE
  <2>1. argv[n].opt \in TakesValue /\ TakesNext(n)
    BY <1>3 DEF TakesValue, TakesNext
  <2>2. n + 1 \in DOMAIN argv /\ IsValue[n + 1]
    BY <1>1, <2>1, ValueNext
  <2>3. n + 1 - 1 = n
    BY ArgIndex
  <2> DEFINE m == n + 1
             opts == {argv[k].opt : k \in DOMAIN argv}
  <2>4. m \in DOMAIN argv /\ IsValue[m] /\ argv[m - 1].opt \in {"-m", "-plugin"} /\ argv[m].opt \in opts
    <3>1. argv[m].opt \in opts
      BY <2>2, Zenon
    <3>2. argv[m - 1].opt = argv[n].opt
      <4>1. m - 1 = n
        BY <2>3
      <4> HIDE DEF m
      <4> QED  BY <4>1
    <3> QED  BY <1>3, <2>2, <3>1, <3>2, Zenon
  <2> HIDE DEF m, opts
  <2>5. Stray(opts)
    BY <2>4, StrayIs, Zenon
  <2>6. Stray({argv[k].opt : k \in DOMAIN argv})
    BY <2>5 DEF opts
  <2> QED  BY <2>6 DEF PlainLine, StrayValue
<1> QED  BY <1>1, <1>2, <1>3

\* The arguments read so far have said what the configuration holds.
ArgsAt(n, c) == n \in 1..(Len(argv) + 1) /\ (n <= Len(argv) => ~IsValue[n]) /\ ConfigSaid(c, n - 1)
ArgsSaid == PlainLine /\ pc = "args" => ArgsAt(i, config)

LEMMA ArgsNext ==
  ASSUME Base, PlainLine, i \in DOMAIN argv, ArgsAt(i, config), Reads \/ Passes \/ Sets \/ Adds
  PROVE  ArgsAt(i', config')
<1>1. argv \in Seq([opt : STRING, val : STRING]) /\ IsConfig(config)
  BY BaseFacts DEF Base
<1>2. DOMAIN argv = 1..Len(argv) /\ Len(argv) \in Nat /\ i \in Nat \ {0} /\ i \in 1..Len(argv)
  <2>1. DOMAIN argv = 1..Len(argv) /\ Len(argv) \in Nat
    BY <1>1
  <2> QED  BY <1>1, <2>1, ArgIndex
<1>3. ~IsValue[i] /\ ConfigSaid(config, i - 1)
  BY <1>2 DEF ArgsAt
<1>4. /\ argv[i].opt \in TakesValue => HasValue(i)
      /\ argv[i].opt \in {"-m", "-plugin"} => argv[i].val # ""
      /\ argv[i].opt \in {"-o", "-e"} => argv[i].val = ""
  BY <1>1, <1>3, PlainFacts
\* One argument is done, or two.
<1>5. ASSUME NEW c, ConfigSaid(c, i), ~TakesNext(i)
      PROVE  ArgsAt(i + 1, c)
  <2>1. i + 1 \in 1..(Len(argv) + 1) /\ i + 1 - 1 = i
    BY <1>2
  <2>2. i + 1 <= Len(argv) => ~IsValue[i + 1]
    BY <1>1, <1>5, NotValueNext
  <2> QED  BY <1>5, <2>1, <2>2 DEF ArgsAt
<1>6. ASSUME NEW c, ConfigSaid(c, i), TakesNext(i)
      PROVE  ArgsAt(i + 2, c)
  <2>1. /\ i + 2 \in 1..(Len(argv) + 1) /\ (i + 2 <= Len(argv) => ~IsValue[i + 2])
        /\ ConfigSaid(c, i + 1)
    <3>1. HasValue(i)
      BY <1>4, <1>6 DEF TakesNext
    <3> QED  BY <1>1, <1>3, <1>6, <3>1, ValueNext
  <2>2. i + 2 - 1 = i + 1
    BY <1>2
  <2> QED  BY <2>1, <2>2 DEF ArgsAt
<1>7. CASE Reads
  <2>1. ConfigSaid(config', i)
    BY <1>1, <1>3, <1>7, ReadSaid DEF Reads
  <2>2. argv[i].opt \in TakesValue
    BY <1>7 DEF Reads, TakesValue
  <2>3. CASE argv[i].val = ""
    <3>1. i' = i + 2
      BY <1>7, <2>3 DEF Reads
    <3> QED  BY <1>6, <2>1, <2>2, <2>3, <3>1 DEF TakesNext
  <2>4. CASE argv[i].val # ""
    <3>1. i' = i + 1
      BY <1>7, <2>4 DEF Reads
    <3> QED  BY <1>5, <2>1, <2>4, <3>1 DEF TakesNext
  <2> QED  BY <2>3, <2>4
<1>8. CASE Sets
  <2>1. ConfigSaid(config', i) /\ i' = i + 1
    BY <1>1, <1>3, <1>8, FlagSaid DEF Sets
  <2>2. argv[i].opt \notin TakesValue
    BY <1>8 DEF Sets, Flags, TakesValue, ValueOptions, SkipsValue
  <2> QED  BY <1>5, <2>1, <2>2 DEF TakesNext
<1>9. CASE Adds
  <2>1. ConfigSaid(config', i) /\ i' = i + 1
    BY <1>1, <1>3, <1>9, InputSaid DEF Adds
  <2>2. argv[i].opt \notin TakesValue
    BY <1>9 DEF Adds, TakesValue, ValueOptions, SkipsValue
  <2> QED  BY <1>5, <2>1, <2>2 DEF TakesNext
<1>10. CASE Passes
  <2>1. config' = config /\ argv[i].opt \notin {"", "-static"}
    BY <1>10 DEF Passes, Flags
  <2>2. Silent(i) => ConfigSaid(config', i)
    BY <1>1, <1>3, <2>1, SilentSaid
  <2>3. CASE ~HasValue(i) /\ i' = i + 1
    <3>1. Silent(i)
      BY <2>1, <2>3 DEF Silent, Given
    <3>2. argv[i].opt \notin TakesValue
      BY <1>4, <2>3
    <3> QED  BY <1>5, <2>2, <2>3, <3>1, <3>2 DEF TakesNext
  <2>4. CASE /\ argv[i].opt \notin ValueOptions
             /\ i' = IF argv[i].opt \in SkipsValue /\ argv[i].val = "" THEN i + 2 ELSE i + 1
    <3>1. Silent(i)
      BY <2>1, <2>4 DEF Silent, Given, ValueOptions
    <3>2. CASE argv[i].opt \in SkipsValue /\ argv[i].val = ""
      <4>1. argv[i].opt \in TakesValue /\ i' = i + 2
        BY <2>4, <3>2 DEF TakesValue
      <4> QED  BY <1>6, <2>2, <3>1, <3>2, <4>1 DEF TakesNext
    <3>3. CASE ~(argv[i].opt \in SkipsValue /\ argv[i].val = "")
      <4>1. i' = i + 1
        BY <2>4, <3>3
      <4>2. ~TakesNext(i)
        BY <1>4, <2>4, <3>3 DEF TakesValue, TakesNext
      <4> QED  BY <1>5, <2>2, <3>1, <4>1, <4>2
    <3> QED  BY <3>2, <3>3
  <2>5. CASE argv[i].opt \in ValueOptions \ Glued /\ argv[i].val # "" /\ i' = i + 1
    <3>1. argv[i].opt = "-I"
      BY <1>4, <2>5 DEF ValueOptions, Glued
    <3>2. Silent(i)
      BY <2>1, <3>1 DEF Silent, Given
    <3> QED  BY <1>5, <2>2, <2>5, <3>2 DEF TakesNext
  <2> QED  BY <1>10, <2>3, <2>4, <2>5 DEF Passes
<1> QED  BY <1>7, <1>8, <1>9, <1>10

LEMMA ArgsSaidInit == Init => ArgsSaid
<1> SUFFICES ASSUME Init PROVE ArgsAt(i, config)
  BY DEF ArgsSaid
<1>1. argv \in Seq([opt : STRING, val : STRING])
  BY BaseInit, BaseFacts
<1>2. i = 1 /\ config = Made("a.out", <<>>, <<>>, "", "", FALSE, FALSE, FALSE, FALSE, <<"_start">>, "", <<>>)
  BY DEF Init, Made
<1>3. 1 \in 1..(Len(argv) + 1) /\ (1 <= Len(argv) => 1 \in DOMAIN argv) /\ 1 - 1 = 0
  BY <1>1
<1>4. 1 <= Len(argv) => ~IsValue[1]
  BY <1>1, <1>3, IsValueIs
<1>5. (\A opt : SoFar(opt, 0) = <<>>) /\ InputsSoFar(0) = <<>>
  BY <1>1, SoFarFacts, InputsSoFarFacts
<1>6. StaticSoFar(0) = FALSE
  BY DEF StaticSoFar
<1>7. ToSet(<<>>) = {} /\ \A d : LastOf(<<>>, d) = d
  BY DEF ToSet, LastOf
<1>8. ConfigSaid(config, 0)
  BY <1>2, <1>5, <1>6, <1>7 DEF ConfigSaid, Made
<1> QED  BY <1>2, <1>3, <1>4, <1>8 DEF ArgsAt
-----------------------------------------------------------------------------
(***************************************************************************)
(* A library is found where the search order says.                         *)
(***************************************************************************)

LibPath(dir, name, n) == dir \o "/lib" \o name \o (IF n = 1 THEN ".so" ELSE ".a")
Places(dirs, name, static) ==
  {at \in (DOMAIN dirs) \X (1..2) : IsFile(LibPath(dirs[at[1]], name, at[2])) /\ (at[2] = 1 => ~static)}
FirstPlace(dirs, name, static) ==
  LET there == Places(dirs, name, static)
  IN IF there = {} THEN ""
     ELSE LET at == CHOOSE at \in there : \A other \in there : Earlier(at, other)
          IN LibPath(dirs[at[1]], name, at[2])

LEMMA LibSaidIs ==
  ASSUME NEW name
  PROVE  LibSaid(name) = FirstPlace(SearchDirs(Values("-L"), LastOf(Values("--sysroot"), "")), name, StaticSaid)
BY Zenon DEF LibSaid, FirstPlace, Places, LibPath

\* The path of what is not found.
NoPath == ""

LEMMA EarlierFacts ==
  ASSUME NEW a \in Nat, NEW b \in {1, 2}, NEW x \in Nat, NEW y \in {1, 2}
  PROVE  /\ Earlier(<<a, b>>, <<x, y>>) <=> a < x \/ (a = x /\ b <= y)
         /\ Earlier(<<a, b>>, <<x, y>>) /\ Earlier(<<x, y>>, <<a, b>>) => a = x /\ b = y
<1>1. Earlier(<<a, b>>, <<x, y>>) <=> a < x \/ (a = x /\ b <= y)
  BY DEF Earlier
<1>2. Earlier(<<x, y>>, <<a, b>>) <=> x < a \/ (a = x /\ y <= b)
  BY DEF Earlier
<1> QED  BY <1>1, <1>2

LEMMA FirstIsFirst ==
  ASSUME NoPath \notin DOMAIN disk, NEW V, NEW dirs \in Seq(V), NEW name, NEW static
  PROVE  FirstIn(dirs, name, static) = FirstPlace(dirs, name, static)
<1> DEFINE D == DOMAIN dirs
           found == [d \in DOMAIN dirs |-> InDir(dirs[d], name, static)]
           some == {d \in DOMAIN found : found[d] # NoPath}
           there == Places(dirs, name, static)
           PathAt(d, n) == LibPath(dirs[d], name, n)
           Is(d, n) == IsFile(PathAt(d, n)) /\ (n = 1 => ~static)
           first == CHOOSE d \in some : \A other \in some : d <= other
           place == CHOOSE at \in there : \A other \in there : Earlier(at, other)
<1>1. D \subseteq Nat
  <2>1. D = 1..Len(dirs) /\ Len(dirs) \in Nat
    OBVIOUS
  <2> QED  BY <2>1
<1>2. \A d \in D :
        found[d] = IF ~static /\ IsFile(PathAt(d, 1)) THEN PathAt(d, 1)
                   ELSE IF IsFile(PathAt(d, 2)) THEN PathAt(d, 2) ELSE NoPath
  <2>0. ~(2 = 1)
    OBVIOUS
  <2>1. \A dir : LibPath(dir, name, 1) = dir \o "/lib" \o name \o ".so" /\ LibPath(dir, name, 2) = dir \o "/lib" \o name \o ".a"
    BY <2>0, Zenon DEF LibPath
  <2>2. ASSUME NEW d \in D PROVE found[d] = InDir(dirs[d], name, static)
    OBVIOUS
  <2> QED  BY <2>1, <2>2, Zenon DEF InDir, NoPath
<1>3. /\ \A at \in there : \E a \in D, b \in {1, 2} : at = <<a, b>> /\ Is(a, b)
      /\ \A a \in D, b \in {1, 2} : Is(a, b) => <<a, b>> \in there
  <2>1. 1..2 = {1, 2}
    OBVIOUS
  <2>2. there = {at \in D \X {1, 2} : Is(at[1], at[2])}
    BY <2>1, Zenon DEF Places
  <2> HIDE DEF there, D, Is
  <2> QED  BY <2>2
<1>4. \A path : IsFile(path) => path # NoPath
  BY DEF IsFile
<1>5. FirstIn(dirs, name, static) = IF some = {} THEN NoPath ELSE found[first]
  BY Zenon DEF FirstIn, NoPath
<1>6. FirstPlace(dirs, name, static) = IF there = {} THEN NoPath ELSE PathAt(place[1], place[2])
  BY Zenon DEF FirstPlace, NoPath
<1>7. \A d : d \in some <=> d \in D /\ found[d] # NoPath
  OBVIOUS
<1> HIDE DEF D, found, there, PathAt
\* Where there is a library, the shared object goes first.
<1>8. ASSUME NEW a \in D, NEW b \in {1, 2}, Is(a, b) PROVE a \in some
  <2>1. CASE b = 1
    BY <1>2, <1>4, <1>7, <1>8, <2>1
  <2>2. CASE b = 2
    BY <1>2, <1>4, <1>7, <1>8, <2>2
  <2> QED  BY <2>1, <2>2
<1>9. ASSUME NEW d \in some
      PROVE  \E n \in {1, 2} : d \in D /\ Is(d, n) /\ found[d] = PathAt(d, n) /\ (n = 2 => ~Is(d, 1))
  <2>1. d \in D /\ found[d] # NoPath
    BY <1>7
  <2>2. CASE Is(d, 1)
    <3>1. found[d] = PathAt(d, 1)
      BY <1>2, <2>1, <2>2
    <3> QED  BY <2>1, <2>2, <3>1
  <2>3. CASE ~Is(d, 1)
    <3>1. IsFile(PathAt(d, 2)) /\ found[d] = PathAt(d, 2)
      BY <1>2, <2>1, <2>3
    <3> QED  BY <2>1, <2>3, <3>1
  <2> QED  BY <2>2, <2>3
<1> HIDE DEF some, Is
<1>10. CASE some = {}
  <2>1. there = {}
    BY <1>3, <1>8, <1>10
  <2> HIDE DEF place, first
  <2> QED  BY <1>5, <1>6, <1>10, <2>1
<1>11. CASE some # {}
  <2>1. some \in SUBSET Nat
    BY <1>1, <1>7
  <2>2. PICK d \in some : \A other \in some : d <= other
    BY <1>11, <2>1, Least
  <2>3. first = d
    <3>1. first \in some /\ \A other \in some : first <= other
      BY <2>2
    <3> HIDE DEF first
    <3>2. first <= d /\ d <= first /\ first \in Nat /\ d \in Nat
      BY <2>1, <2>2, <3>1
    <3> QED  BY <3>2
  <2>4. PICK n \in {1, 2} : d \in D /\ Is(d, n) /\ found[d] = PathAt(d, n) /\ (n = 2 => ~Is(d, 1))
    BY <1>9
  <2>5. <<d, n>> \in there /\ d \in Nat
    BY <1>3, <2>1, <2>4
  <2>6. ASSUME NEW other \in there PROVE Earlier(<<d, n>>, other)
    <3>1. PICK a \in D, b \in {1, 2} : other = <<a, b>> /\ Is(a, b)
      BY <1>3
    <3>2. a \in some /\ a \in Nat /\ d <= a
      BY <1>1, <1>8, <2>2, <3>1
    <3>3. a = d => n <= b
      BY <2>4, <3>1
    <3>4. d < a \/ (d = a /\ n <= b)
      BY <2>5, <3>2, <3>3
    <3>5. d \in Nat /\ a \in Nat
      BY <2>5, <3>2
    <3>6. Earlier(<<d, n>>, <<a, b>>) <=> d < a \/ (d = a /\ n <= b)
      BY DEF Earlier
    <3>7. Earlier(<<d, n>>, <<a, b>>)
      BY <3>4, <3>6
    <3> QED  BY <3>1, <3>7
  <2>7. place = <<d, n>>
    <3>1. place \in there /\ \A other \in there : Earlier(place, other)
      BY <2>5, <2>6
    <3> HIDE DEF place
    <3>2. PICK a \in D, b \in {1, 2} : place = <<a, b>>
      BY <1>3, <3>1
    <3>3. Earlier(<<a, b>>, <<d, n>>) /\ Earlier(<<d, n>>, <<a, b>>) /\ a \in Nat
      BY <1>1, <2>5, <2>6, <3>1, <3>2
    <3>4. a = d /\ b = n
      BY <2>5, <3>3, EarlierFacts
    <3> QED  BY <3>2, <3>4
  <2> HIDE DEF first, place
  <2>8. place[1] = d /\ place[2] = n
    BY <2>7
  <2>9. there # {}
    BY <2>5
  <2> QED  BY <1>5, <1>6, <1>11, <2>3, <2>4, <2>8, <2>9
<1> QED  BY <1>10, <1>11

\* With the configuration that the command line says, an input is the file that it says.
LEMMA PathIsSaid ==
  ASSUME argv \in Seq([opt : STRING, val : STRING]), NoPath \notin DOMAIN disk, ConfigSaid(config, Len(argv)),
         NEW input \in AnyInput
  PROVE  PathOf(input) = PathSaid(input)
<1>1. /\ config.dirs = Values("-L") /\ config.sysroot = LastOf(Values("--sysroot"), "")
      /\ config.static = StaticSoFar(Len(argv))
  BY SoFarFacts, Zenon DEF ConfigSaid
<1>2. StaticSoFar(Len(argv)) = StaticSaid
  <2>1. DOMAIN argv = 1..Len(argv)
    OBVIOUS
  <2> QED  BY <2>1, Zenon DEF StaticSoFar, StaticSaid
<1>3. ASSUME NEW name
      PROVE  FindLibrary(name, config.dirs, config.static, config.sysroot) = LibSaid(name)
  <2> DEFINE dirs == SearchDirs(config.dirs, config.sysroot)
             root == config.sysroot
             V == AnyValue \cup {root \o "/lib", root \o "/usr/lib"}
  <2>1. dirs \in Seq(V)
    <3> DEFINE more == IF root = "" THEN <<>> ELSE <<root \o "/lib", root \o "/usr/lib">>
    <3>1. dirs = config.dirs \o more
      BY Zenon DEF SearchDirs
    <3>2. more \in Seq(V)
      <4>1. <<>> \in Seq(V)
        OBVIOUS
      <4>2. <<root \o "/lib", root \o "/usr/lib">> \in Seq(V)
        <5>1. \A a, b : <<a, b>> \in Seq(AnyValue \cup {a, b})
          OBVIOUS
        <5> QED  BY <5>1, Zenon
      <4> HIDE DEF V
      <4> QED  BY <4>1, <4>2, Zenon
    <3>3. config.dirs \in Seq(V)
      <4>1. Len(argv) \in 0..Len(argv)
        OBVIOUS
      <4>2. config.dirs \in Seq(AnyValue)
        BY <4>1, SoFarFacts, Zenon DEF ConfigSaid
      <4>3. AnyValue \subseteq V
        BY Zenon
      <4> HIDE DEF V
      <4> QED  BY <4>2, <4>3
    <3> HIDE DEF more, dirs, V
    <3> QED  BY <3>1, <3>2, <3>3
  <2> HIDE DEF V
  <2>2. FirstIn(dirs, name, config.static) = FirstPlace(dirs, name, config.static)
    BY <2>1, FirstIsFirst, Zenon
  <2> QED  BY <1>1, <1>2, <2>2, LibSaidIs, Zenon DEF FindLibrary
<1>4. input.kind \in {"lib", "file"}
  BY DEF AnyInput, Lib, File
<1>5. CASE input.kind = "lib"
  BY <1>3, <1>5, Zenon DEF PathOf, PathSaid
<1>6. CASE input.kind = "file"
  BY <1>6, Zenon DEF PathOf, PathSaid
<1> QED  BY <1>4, <1>5, <1>6
-----------------------------------------------------------------------------
(***************************************************************************)
(* What each file stands for.                                              *)
(***************************************************************************)

Meanings == SUBSET Seq(Unit)
Row == [DOMAIN disk -> Meanings]
UnitKinds == {"object", "archive", "shared"}

\* The same, of the meanings with scripts nested one less deep.
PartsIn(p, row) ==
  [m \in DOMAIN disk[p].members |->
    IF PathSaid(disk[p].members[m]) \in DOMAIN disk THEN row[PathSaid(disk[p].members[m])] ELSE {}]
MeansOf(n, p, row) ==
  IF disk[p].kind \in UnitKinds THEN {<<[kind |-> disk[p].kind, path |-> p]>>}
  ELSE IF disk[p].kind = "group" /\ n > 0 THEN Together(PartsIn(p, row)) ELSE {}
RowOf(f, n) == [p \in DOMAIN disk |-> f[<<n, p>>]]

MeantBody(f, n, p) ==
  LET kind    == disk[p].kind
      members == disk[p].members
      Means(m) == LET path == PathSaid(m) IN IF path \in DOMAIN disk THEN f[<<n - 1, path>>] ELSE {}
  IN IF kind \in {"object", "archive", "shared"} THEN {<<[kind |-> kind, path |-> p]>>}
     ELSE IF kind = "group" /\ n > 0 THEN Together([m \in DOMAIN members |-> Means(members[m])])
     ELSE {}
MeantUnfolds(f) == f = [at \in (0..(StackDepth - 1)) \X DOMAIN disk |-> MeantBody(f, at[1], at[2])]

LEMMA MeantBodyIs ==
  ASSUME NEW f, NEW n, NEW p
  PROVE  MeantBody(f, n, p) = MeansOf(n, p, RowOf(f, n - 1))
<1>1. PartsIn(p, RowOf(f, n - 1)) =
        [m \in DOMAIN disk[p].members |->
          IF PathSaid(disk[p].members[m]) \in DOMAIN disk THEN f[<<n - 1, PathSaid(disk[p].members[m])>>] ELSE {}]
  <2>1. \A q \in DOMAIN disk : RowOf(f, n - 1)[q] = f[<<n - 1, q>>]
    BY DEF RowOf
  <2> QED  BY <2>1 DEF PartsIn
<1> QED  BY <1>1, Zenon DEF MeantBody, MeansOf, UnitKinds

LEMMA MeansOfType ==
  ASSUME \A q \in DOMAIN disk : disk[q].members \in Seq(LinkArg), NEW p \in DOMAIN disk, NEW n, NEW row \in Row
  PROVE  PartsIn(p, row) \in Seq(Meanings) /\ MeansOf(n, p, row) \in Meanings
<1>1. PartsIn(p, row) \in Seq(Meanings)
  <2> DEFINE s == disk[p].members
             Part(m) == IF PathSaid(s[m]) \in DOMAIN disk THEN row[PathSaid(s[m])] ELSE {}
  <2>1. DOMAIN s = 1..Len(s) /\ Len(s) \in Nat
    OBVIOUS
  <2>2. \A m : Part(m) \in Meanings
    BY DEF Row, Meanings
  <2>3. PartsIn(p, row) = [m \in DOMAIN s |-> Part(m)]
    BY DEF PartsIn
  <2> HIDE DEF s, Part
  <2> QED  BY <2>1, <2>2, <2>3
<1>2. CASE disk[p].kind \in UnitKinds
  <2> DEFINE u == [kind |-> disk[p].kind, path |-> p]
  <2>1. u \in Unit /\ MeansOf(n, p, row) = {<<u>>}
    BY <1>2 DEF MeansOf, Unit, UnitKinds
  <2> HIDE DEF u
  <2> QED  BY <1>1, <2>1 DEF Meanings
<1>3. CASE disk[p].kind \notin UnitKinds
  <2>1. MeansOf(n, p, row) \in {Together(PartsIn(p, row)), {}}
    BY <1>3 DEF MeansOf
  <2>2. Together(PartsIn(p, row)) \in Meanings
    BY <1>1, TogetherType DEF Meanings
  <2> QED  BY <1>1, <2>1, <2>2 DEF Meanings
<1> QED  BY <1>2, <1>3

LEMMA MeantIs ==
  ASSUME \A q \in DOMAIN disk : disk[q].members \in Seq(LinkArg), StackDepth \in Nat \ {0}
  PROVE  /\ \A n \in 0..(StackDepth - 1) : RowOf(Meant, n) \in Row
         /\ \A n \in 0..(StackDepth - 1), p \in DOMAIN disk :
              Meant[<<n, p>>] = MeansOf(n, p, RowOf(Meant, n - 1))
<1> DEFINE l == StackDepth - 1
           none == [p \in DOMAIN disk |-> {}]
           b == [p \in DOMAIN disk |-> MeansOf(0, p, none)]
           G == [x \in ((0 + 1)..l) \X Row |-> [p \in DOMAIN disk |-> MeansOf(x[1], p, x[2])]]
<1>1. l \in Nat /\ 0 <= l /\ (0 + 1)..l = 1..l
  OBVIOUS
<1>2. none \in Row
  BY DEF Row, Meanings
<1>3. b \in Row
  <2>1. \A p \in DOMAIN disk : MeansOf(0, p, none) \in Meanings
    <3> HIDE DEF none
    <3> QED  BY <1>2, MeansOfType
  <2> HIDE DEF none
  <2> QED  BY <2>1 DEF Row
<1>4. G \in [((0 + 1)..l) \X Row -> Row]
  <2>1. ASSUME NEW n \in (0 + 1)..l, NEW row \in Row PROVE [p \in DOMAIN disk |-> MeansOf(n, p, row)] \in Row
    <3>1. \A p \in DOMAIN disk : MeansOf(n, p, row) \in Meanings
      BY MeansOfType
    <3> HIDE DEF none, b, G
    <3> QED  BY <3>1 DEF Row
  <2>2. \A x \in ((0 + 1)..l) \X Row : [p \in DOMAIN disk |-> MeansOf(x[1], p, x[2])] \in Row
    <3> SUFFICES ASSUME NEW n \in (0 + 1)..l, NEW row \in Row PROVE [p \in DOMAIN disk |-> MeansOf(n, p, row)] \in Row
      OBVIOUS
    <3> QED  BY <2>1
  <2> HIDE DEF l
  <2> QED  BY <2>2
<1>5. PICK h : Solves(h, 0, l, Row, b, G)
  <2> HIDE DEF l, b, G
  <2> QED  BY <1>1, <1>3, <1>4, Recursion
<1> DEFINE g == [at \in (0..l) \X DOMAIN disk |-> h[at[1]][at[2]]]
<1>6. ASSUME NEW n \in 0..l, NEW p \in DOMAIN disk
      PROVE  h[n][p] = MeansOf(n, p, RowOf(g, n - 1))
  <2>1. CASE n = 0
    <3>1. ~(n > 0)
      BY <2>1
    <3>2. \A row : MeansOf(n, p, row) = MeansOf(n, p, none)
      BY <3>1, Zenon DEF MeansOf
    <3>3. h[n] = b
      BY <1>5, <2>1 DEF Solves
    <3> QED  BY <2>1, <3>2, <3>3
  <2>2. CASE n # 0
    <3>1. n \in 1..l /\ n - 1 \in 0..l
      BY <1>1, <2>2
    <3>2. h[n - 1] \in Row /\ h[n] = G[<<n, h[n - 1]>>]
      BY <1>1, <1>5, <3>1 DEF Solves
    <3>3. h[n][p] = MeansOf(n, p, h[n - 1])
      BY <1>1, <3>1, <3>2
    <3>4. RowOf(g, n - 1) = h[n - 1]
      <4>1. \A q \in DOMAIN disk : g[<<n - 1, q>>] = h[n - 1][q]
        BY <3>1
      <4> HIDE DEF g
      <4> QED  BY <3>2, <4>1 DEF RowOf, Row
    <3> QED  BY <3>3, <3>4
  <2> QED  BY <2>1, <2>2
<1>7. MeantUnfolds(g)
  <2>1. \A at \in (0..l) \X DOMAIN disk : h[at[1]][at[2]] = MeantBody(g, at[1], at[2])
    <3> SUFFICES ASSUME NEW n \in 0..l, NEW p \in DOMAIN disk PROVE h[n][p] = MeantBody(g, n, p)
      OBVIOUS
    <3> HIDE DEF g
    <3> QED  BY <1>6, MeantBodyIs
  <2>2. g = [at \in (0..l) \X DOMAIN disk |-> MeantBody(g, at[1], at[2])]
    BY <2>1
  <2> HIDE DEF g
  <2> QED  BY <2>2 DEF MeantUnfolds
<1>8. MeantUnfolds(Meant)
  <2>1. Meant = CHOOSE f : MeantUnfolds(f)
    BY Zenon DEF Meant, MeantUnfolds, MeantBody
  <2> QED  BY <1>7, <2>1, Zenon
<1>9. ASSUME NEW n \in 0..l, NEW p \in DOMAIN disk
      PROVE  Meant[<<n, p>>] = MeansOf(n, p, RowOf(Meant, n - 1))
  <2>1. Meant[<<n, p>>] = MeantBody(Meant, n, p)
    BY <1>8 DEF MeantUnfolds
  <2> QED  BY <2>1, MeantBodyIs
<1> DEFINE S == {n \in 0..l : RowOf(Meant, n) \in Row}
<1>10. 0 \in S
  <2>1. 0 \in 0..l
    BY <1>1
  <2>2. ASSUME NEW p \in DOMAIN disk PROVE Meant[<<0, p>>] \in Meanings
    <3>1. MeansOf(0, p, RowOf(Meant, 0 - 1)) = MeansOf(0, p, none)
      <4>1. ~(0 > 0)
        OBVIOUS
      <4> QED  BY <4>1, Zenon DEF MeansOf
    <3>2. MeansOf(0, p, none) \in Meanings
      <4> HIDE DEF none
      <4> QED  BY <1>2, MeansOfType
    <3> QED  BY <1>9, <2>1, <3>1, <3>2
  <2> QED  BY <2>1, <2>2 DEF RowOf, Row
<1>11. ASSUME NEW n \in (0 + 1)..l, n - 1 \in S PROVE n \in S
  <2>1. n \in 0..l /\ RowOf(Meant, n - 1) \in Row
    BY <1>1, <1>11
  <2>2. \A p \in DOMAIN disk : Meant[<<n, p>>] \in Meanings
    BY <1>9, <2>1, MeansOfType
  <2> QED  BY <2>1, <2>2 DEF RowOf, Row
<1>12. \A n \in 0..l : n \in S
  <2> HIDE DEF S, l
  <2> QED  BY <1>1, <1>10, <1>11, CountUp
<1> QED  BY <1>9, <1>12
-----------------------------------------------------------------------------
(***************************************************************************)
(* What is still to come: the answers of the members that the calls under  *)
(* way still have to do, the last call first, and of the inputs left.      *)
(***************************************************************************)

LEMMA TailIs ==
  ASSUME NEW X, NEW s \in Seq(X), s # <<>>
  PROVE  Tail(s) = [k \in 1..(Len(s) - 1) |-> s[k + 1]]
<1> DEFINE t == [k \in 1..(Len(s) - 1) |-> s[k + 1]]
<1>1. Len(s) - 1 \in Nat /\ \A k \in 1..(Len(s) - 1) : k + 1 \in 1..Len(s) /\ s[k + 1] \in X
  OBVIOUS
<1>2. t \in Seq(X) /\ Len(t) = Len(s) - 1
  BY <1>1
<1>3. Tail(s) \in Seq(X) /\ Len(Tail(s)) = Len(s) - 1 /\ \A k \in 1..(Len(s) - 1) : Tail(s)[k] = t[k]
  OBVIOUS
<1> DEFINE u == Tail(s)
<1> HIDE DEF t, u
<1>4. u \in Seq(X) /\ Len(u) = Len(t) /\ \A k \in 1..Len(t) : u[k] = t[k]
  BY <1>2, <1>3 DEF u
<1>5. u = t
  BY <1>2, <1>4
<1> QED  BY <1>5 DEF u, t

Answers(n, paths) == [m \in DOMAIN paths |-> Answer(n, paths[m])]

LEMMA AnswerType ==
  ASSUME Base, NEW n \in 0..(StackDepth - 1), NEW path
  PROVE  Answer(n, path) \in Meanings
<1>1. RowOf(Meant, n) \in Row
  BY BaseFacts, MeantIs
<1>2. path \in DOMAIN disk => Meant[<<n, path>>] \in Meanings
  BY <1>1 DEF RowOf, Row
<1> QED  BY <1>2 DEF Answer, Meanings

LEMMA AnswersType ==
  ASSUME Base, NEW n \in 0..(StackDepth - 1), NEW V, NEW paths \in Seq(V)
  PROVE  Answers(n, paths) \in Seq(Meanings) /\ Together(Answers(n, paths)) \in Meanings
<1> DEFINE s == Answers(n, paths)
<1>1. Answers(n, paths) \in Seq(Meanings)
  <2>1. \A m \in DOMAIN paths : Answer(n, paths[m]) \in Meanings
    BY AnswerType
  <2>2. DOMAIN paths = 1..Len(paths) /\ Len(paths) \in Nat
    OBVIOUS
  <2> QED  BY <2>1, <2>2 DEF Answers
<1> QED  BY <1>1, TogetherType DEF Meanings

\* The first path, then all others.
LEMMA AnswersTail ==
  ASSUME Base, NEW n \in 0..(StackDepth - 1), NEW V, NEW paths \in Seq(V), paths # <<>>
  PROVE  Together(Answers(n, paths)) = Then(Answer(n, Head(paths)), Together(Answers(n, Tail(paths))))
<1> DEFINE s == Answers(n, paths)
           t == Answers(n, Tail(paths))
<1>1. s \in Seq(Meanings)
  BY AnswersType
<1>2. /\ Len(paths) \in Nat \ {0} /\ DOMAIN paths = 1..Len(paths) /\ Head(paths) = paths[1]
      /\ DOMAIN Tail(paths) = 1..(Len(paths) - 1) /\ \A m \in 1..(Len(paths) - 1) : Tail(paths)[m] = paths[m + 1]
  OBVIOUS
<1>3. Len(s) = Len(paths) /\ \A m \in 1..Len(paths) : s[m] = Answer(n, paths[m])
  BY <1>2 DEF Answers
<1>4. t = [m \in 1..(Len(paths) - 1) |-> Answer(n, paths[m + 1])]
  BY <1>2 DEF Answers
<1> HIDE DEF s, t
<1>5. s # <<>> /\ Head(s) = Answer(n, Head(paths))
  <2>1. 1 \in 1..Len(paths)
    BY <1>2
  <2> QED  BY <1>1, <1>2, <1>3, <2>1
<1>6. Tail(s) = t
  <2>1. Tail(s) = [m \in 1..(Len(s) - 1) |-> s[m + 1]]
    BY <1>1, <1>5, TailIs
  <2>2. \A m \in 1..(Len(paths) - 1) : m + 1 \in 1..Len(paths)
    BY <1>2
  <2> QED  BY <1>3, <1>4, <2>1, <2>2
<1>7. Together(s) = Then(Head(s), Together(Tail(s)))
  BY <1>1, <1>5, TogetherTail DEF Meanings
<1> QED  BY <1>5, <1>6, <1>7 DEF s, t

LEMMA AnswersEmpty == \A n : Together(Answers(n, <<>>)) = {<<>>}
<1>1. \A n : Answers(n, <<>>) = <<>>
  BY DEF Answers
<1> QED  BY <1>1, TogetherEmpty

\* The paths of the inputs from the n-th on.
PathsLeft(n) == [k \in 1..(Len(InputsSaid) + 1 - n) |-> PathSaid(InputsSaid[n - 1 + k])]
AnyPath == {PathSaid(input) : input \in AnyInput}

LEMMA PathsLeftFacts ==
  ASSUME InputsSaid \in Seq(AnyInput), NEW n \in 1..(Len(InputsSaid) + 1)
  PROVE  /\ PathsLeft(n) \in Seq(AnyPath)
         /\ n = Len(InputsSaid) + 1 => PathsLeft(n) = <<>>
         /\ n <= Len(InputsSaid) =>
              /\ n \in DOMAIN InputsSaid /\ PathsLeft(n) # <<>> /\ Head(PathsLeft(n)) = PathSaid(InputsSaid[n])
              /\ Tail(PathsLeft(n)) = PathsLeft(n + 1)
<1> DEFINE l == Len(InputsSaid)
           s == PathsLeft(n)
<1>1. l \in Nat /\ n \in Nat /\ l + 1 - n \in Nat /\ \A k \in 1..l : InputsSaid[k] \in AnyInput
  OBVIOUS
<1>2. ASSUME NEW k \in 1..(l + 1 - n) PROVE PathSaid(InputsSaid[n - 1 + k]) \in AnyPath
  <2>1. n - 1 + k \in 1..l
    BY <1>1
  <2> QED  BY <1>1, <2>1 DEF AnyPath
<1>3. s \in Seq(AnyPath) /\ Len(s) = l + 1 - n /\ \A k \in 1..(l + 1 - n) : s[k] = PathSaid(InputsSaid[n - 1 + k])
  <2> HIDE DEF l
  <2> QED  BY <1>1, <1>2 DEF PathsLeft, l
<1> HIDE DEF s
<1>4. n = l + 1 => s = <<>>
  <2> HIDE DEF l
  <2> QED  BY <1>1, <1>3
<1>5. ASSUME n <= l
      PROVE  /\ n \in DOMAIN InputsSaid /\ s # <<>> /\ Head(s) = PathSaid(InputsSaid[n])
             /\ Tail(s) = PathsLeft(n + 1)
  <2>1. n \in DOMAIN InputsSaid /\ 1 \in 1..(l + 1 - n) /\ n - 1 + 1 = n
    BY <1>1, <1>5
  <2>2. s # <<>> /\ Head(s) = PathSaid(InputsSaid[n])
    <3> HIDE DEF l
    <3> QED  BY <1>1, <1>3, <2>1
  <2>3. Tail(s) = [k \in 1..(Len(s) - 1) |-> s[k + 1]]
    BY <1>3, <2>2, TailIs
  <2>4. Len(s) - 1 = l + 1 - (n + 1)
    BY <1>1, <1>3
  <2>5. ASSUME NEW k \in 1..(l + 1 - (n + 1)) PROVE s[k + 1] = PathSaid(InputsSaid[n + 1 - 1 + k])
    <3>1. k + 1 \in 1..(l + 1 - n) /\ n - 1 + (k + 1) = n + 1 - 1 + k
      BY <1>1
    <3>2. s[k + 1] = PathSaid(InputsSaid[n - 1 + (k + 1)])
      BY <1>3, <3>1
    <3> QED  BY <3>1, <3>2
  <2>6. PathsLeft(n + 1) = [k \in 1..(l + 1 - (n + 1)) |-> PathSaid(InputsSaid[n + 1 - 1 + k])]
    BY DEF PathsLeft
  <2>7. Tail(s) = [k \in 1..(l + 1 - (n + 1)) |-> s[k + 1]]
    BY <2>3, <2>4
  <2> HIDE DEF l
  <2>8. Tail(s) = PathsLeft(n + 1)
    BY <2>5, <2>6, <2>7
  <2> QED  BY <2>1, <2>2, <2>8
<1> QED  BY <1>3, <1>4, <1>5 DEF s

LEMMA ThenRight ==
  ASSUME NEW U, NEW A \in SUBSET Seq(U)
  PROVE  Then(A, {<<>>}) = A
<1>1. \A a \in Seq(U) : a \o <<>> = a
  OBVIOUS
<1> QED  BY <1>1 DEF Then

\* What is to come after each call, the inputs left being those from the n-th on.
Levels(A, n, calls) ==
  /\ A \in [0..Len(calls) -> Meanings]
  /\ A[0] = Together(Answers(StackDepth - 1, PathsLeft(n)))
  /\ \A j \in 1..Len(calls) : A[j] = Then(Together(Answers(StackDepth - j, calls[j])), A[j - 1])
Coming(A, n, calls, found) == Levels(A, n, calls) /\ MeantUnits = Then({found}, A[Len(calls)])

\* One member of the last call, and what comes after it.
LEMMA LevelsRest ==
  ASSUME Base, stack # <<>>, Top # <<>>, Len(stack) <= StackDepth, NEW n, NEW A, Levels(A, n, stack)
  PROVE  \E B : /\ Levels(B, n, Rest) /\ B[Len(stack)] \in Meanings
                /\ A[Len(stack)] = Then(Answer(StackDepth - Len(stack), Head(Top)), B[Len(stack)])
<1> DEFINE m == Len(stack)
           d == StackDepth - m
           X == Then(Together(Answers(d, Tail(Top))), A[m - 1])
           B == [j \in 0..m |-> IF j = m THEN X ELSE A[j]]
<1>1. /\ m \in Nat \ {0} /\ Top = stack[m] /\ Top \in Seq(Paths) /\ Tail(Top) \in Seq(Paths)
      /\ Len(Rest) = m /\ Rest[m] = Tail(Top) /\ \A j \in 1..(m - 1) : Rest[j] = stack[j]
  <2>1. stack \in Seq(Seq(Paths))
    BY DEF Base
  <2> QED  BY <2>1, StackFacts
<1>2. d \in 0..(StackDepth - 1) /\ m \in 1..m /\ m \in 0..m /\ m - 1 \in 0..m /\ m # 0
  <2>1. StackDepth \in Nat \ {0}
    BY BaseFacts
  <2> QED  BY <1>1, <2>1
<1>3. A \in [0..m -> Meanings] /\ A[m] = Then(Together(Answers(d, Top)), A[m - 1])
  BY <1>1, <1>2 DEF Levels
<1> HIDE DEF d
<1>4. Together(Answers(d, Top)) = Then(Answer(d, Head(Top)), Together(Answers(d, Tail(Top))))
  <2> DEFINE t == Top
  <2>1. t \in Seq(Paths) /\ t # <<>>
    BY <1>1
  <2> HIDE DEF t
  <2>2. Together(Answers(d, t)) = Then(Answer(d, Head(t)), Together(Answers(d, Tail(t))))
    BY <1>2, <2>1, AnswersTail
  <2> QED  BY <2>2 DEF t
<1>5. Answer(d, Head(Top)) \in Meanings /\ Together(Answers(d, Tail(Top))) \in Meanings /\ A[m - 1] \in Meanings
  BY <1>1, <1>2, <1>3, AnswerType, AnswersType
<1>6. X \in Meanings /\ A[m] = Then(Answer(d, Head(Top)), X)
  <2> DEFINE a == Answer(d, Head(Top))
             b == Together(Answers(d, Tail(Top)))
             c == A[m - 1]
  <2> HIDE DEF a, b, c
  <2>1. a \in SUBSET Seq(Unit) /\ b \in SUBSET Seq(Unit) /\ c \in SUBSET Seq(Unit)
    BY <1>5 DEF a, b, c, Meanings
  <2>2. Then(Then(a, b), c) = Then(a, Then(b, c)) /\ Then(b, c) \in SUBSET Seq(Unit)
    BY <2>1, ThenAssoc, ThenFacts
  <2> QED  BY <1>3, <1>4, <2>2, Zenon DEF a, b, c, Meanings
<1>7. B[m] = X
  BY <1>2
<1>8. B \in [0..m -> Meanings] /\ B[0] = A[0]
  <2>1. \A j \in 0..m : B[j] \in Meanings
    <3> HIDE DEF X
    <3> QED  BY <1>3, <1>6
  <2>2. 0 \in 0..m
    BY <1>1
  <2> QED  BY <1>2, <2>1, <2>2
<1>9. \A j \in 1..(m - 1) : B[j] = A[j] /\ B[j - 1] = A[j - 1] /\ j \in 1..m
  <2>1. \A j \in 1..(m - 1) : j \in 0..m /\ j - 1 \in 0..m /\ j # m /\ j - 1 # m /\ j \in 1..m
    BY <1>1
  <2> HIDE DEF X
  <2> QED  BY <2>1
<1>10. B[m - 1] = A[m - 1]
  <2>1. m - 1 # m
    BY <1>1
  <2> HIDE DEF X
  <2> QED  BY <1>2, <2>1
<1> HIDE DEF B
<1>11. ASSUME NEW j \in 1..m PROVE B[j] = Then(Together(Answers(StackDepth - j, Rest[j])), B[j - 1])
  <2>1. CASE j = m
    BY <1>1, <1>7, <1>10, <2>1 DEF d
  <2>2. CASE j # m
    <3>1. j \in 1..(m - 1)
      BY <1>1, <2>2
    <3> QED  BY <1>1, <1>9, <3>1 DEF Levels
  <2> QED  BY <2>1, <2>2
<1>12. Levels(B, n, Rest)
  BY <1>1, <1>8, <1>11 DEF Levels
<1>13. B[m] \in Meanings /\ A[m] = Then(Answer(d, Head(Top)), B[m])
  BY <1>6, <1>7
<1> QED  BY <1>12, <1>13 DEF d

\* One call more.
LEMMA LevelsMore ==
  ASSUME Base, NEW V, NEW calls \in Seq(Seq(V)), Len(calls) < StackDepth, NEW f \in Seq(V), NEW n, NEW A, Levels(A, n, calls)
  PROVE  \E B : /\ Levels(B, n, Append(calls, f))
                /\ B[Len(calls) + 1] = Then(Together(Answers(StackDepth - (Len(calls) + 1), f)), A[Len(calls)])
<1> DEFINE m == Len(calls)
           more == Append(calls, f)
           X == Then(Together(Answers(StackDepth - (m + 1), f)), A[m])
           B == [j \in 0..(m + 1) |-> IF j = m + 1 THEN X ELSE A[j]]
<1>1. m \in Nat /\ Len(more) = m + 1 /\ more[m + 1] = f /\ \A j \in 1..m : more[j] = calls[j]
  OBVIOUS
<1>2. StackDepth - (m + 1) \in 0..(StackDepth - 1)
  <2>1. StackDepth \in Nat \ {0}
    BY BaseFacts
  <2> QED  BY <1>1, <2>1
<1>3. A \in [0..m -> Meanings] /\ A[m] \in Meanings
  <2>1. m \in 0..m
    BY <1>1
  <2> QED  BY <2>1 DEF Levels
<1>4. X \in Meanings
  <2>1. Together(Answers(StackDepth - (m + 1), f)) \in Meanings
    BY <1>2, AnswersType
  <2> QED  BY <1>3, <2>1, ThenFacts DEF Meanings
<1> HIDE DEF X, more, m
<1>5. \A j \in 0..m : j \in 0..(m + 1) /\ j # m + 1 /\ B[j] = A[j]
  BY <1>1
<1>6. B[m + 1] = X
  <2>1. m + 1 \in 0..(m + 1)
    BY <1>1
  <2> QED  BY <2>1
<1>7. B \in [0..(m + 1) -> Meanings]
  <2>1. \A j \in 0..(m + 1) : j # m + 1 => j \in 0..m
    BY <1>1
  <2> QED  BY <1>3, <1>4, <2>1
<1> HIDE DEF B
<1>8. B[0] = A[0]
  <2>1. 0 \in 0..m
    BY <1>1
  <2> QED  BY <1>5, <2>1
<1>9. ASSUME NEW j \in 1..(m + 1) PROVE B[j] = Then(Together(Answers(StackDepth - j, more[j])), B[j - 1])
  <2>1. CASE j = m + 1
    <3>1. j - 1 = m /\ m \in 0..m
      BY <1>1, <2>1
    <3> QED  BY <1>1, <1>5, <1>6, <2>1, <3>1 DEF X
  <2>2. CASE j # m + 1
    <3>1. j \in 1..m /\ j \in 0..m /\ j - 1 \in 0..m
      BY <1>1, <2>2
    <3> QED  BY <1>1, <1>5, <3>1 DEF Levels, m
  <2> QED  BY <2>1, <2>2
<1>10. Levels(B, n, more)
  BY <1>1, <1>7, <1>8, <1>9 DEF Levels, m
<1> QED  BY <1>6, <1>10 DEF X, more, m

\* One call less.
LEMMA LevelsLess ==
  ASSUME Base, stack # <<>>, Top = <<>>, Len(stack) <= StackDepth, NEW n, NEW A, Levels(A, n, stack)
  PROVE  \E B : Levels(B, n, Front(stack)) /\ B[Len(Front(stack))] = A[Len(stack)]
<1> DEFINE m == Len(stack)
           less == Front(stack)
           B == [j \in 0..(m - 1) |-> A[j]]
<1>1. m \in Nat \ {0} /\ Len(less) = m - 1 /\ \A j \in 1..(m - 1) : less[j] = stack[j]
  <2>1. stack \in Seq(Seq(Paths))
    BY DEF Base
  <2> QED  BY <2>1, FrontFacts
<1>2. stack[m] = <<>>
  <2> HIDE DEF m
  <2> QED  BY DEF Top, Last, m
<1>3. A \in [0..m -> Meanings]
  BY DEF Levels
<1>4. A[m] = A[m - 1]
  <2>1. m \in 1..m /\ m - 1 \in 0..m
    BY <1>1
  <2>2. A[m] = Then(Together(Answers(StackDepth - m, <<>>)), A[m - 1]) /\ A[m - 1] \in Meanings
    BY <1>2, <1>3, <2>1 DEF Levels
  <2>3. A[m] = Then({<<>>}, A[m - 1])
    BY <2>2, AnswersEmpty
  <2> QED  BY <2>2, <2>3, ThenFacts DEF Meanings
<1> HIDE DEF m, less
<1>5. \A j \in 0..(m - 1) : j \in 0..m /\ B[j] = A[j]
  BY <1>1
<1>6. B \in [0..(m - 1) -> Meanings]
  BY <1>3, <1>5
<1> HIDE DEF B
<1>7. B[0] = A[0] /\ B[m - 1] = A[m]
  <2>1. 0 \in 0..(m - 1) /\ m - 1 \in 0..(m - 1)
    BY <1>1
  <2> QED  BY <1>4, <1>5, <2>1
<1>8. ASSUME NEW j \in 1..(m - 1) PROVE B[j] = Then(Together(Answers(StackDepth - j, less[j])), B[j - 1])
  <2>1. j \in 1..m /\ j \in 0..(m - 1) /\ j - 1 \in 0..(m - 1)
    BY <1>1
  <2> QED  BY <1>1, <1>5, <2>1 DEF Levels, m
<1>9. Levels(B, n, less)
  BY <1>1, <1>6, <1>7, <1>8 DEF Levels
<1> QED  BY <1>1, <1>7, <1>9 DEF m, less

\* No call under way: the next input.
LEMMA LevelsInput ==
  ASSUME Base, InputsSaid \in Seq(AnyInput), NEW n \in DOMAIN InputsSaid, NEW A, Levels(A, n, <<>>)
  PROVE  LET path == PathSaid(InputsSaid[n])
         IN /\ A[0] = Then(Answer(StackDepth - 1, path), Together(Answers(StackDepth - 1, PathsLeft(n + 1))))
            /\ \E B : Levels(B, n + 1, << <<path>> >>) /\ B[1] = A[0]
<1> DEFINE path == PathSaid(InputsSaid[n])
           d == StackDepth - 1
           X == Together(Answers(d, PathsLeft(n + 1)))
           none == [j \in 0..0 |-> X]
<1>1. n \in 1..(Len(InputsSaid) + 1) /\ n + 1 \in 1..(Len(InputsSaid) + 1) /\ n <= Len(InputsSaid)
  OBVIOUS
<1>2. d \in 0..(StackDepth - 1) /\ 0 < StackDepth
  <2>1. StackDepth \in Nat \ {0}
    BY BaseFacts
  <2> QED  BY <2>1
<1>3. A[0] = Then(Answer(d, path), X) /\ X \in Meanings
  <2>1. /\ PathsLeft(n) \in Seq(AnyPath) /\ PathsLeft(n) # <<>> /\ Head(PathsLeft(n)) = path
        /\ Tail(PathsLeft(n)) = PathsLeft(n + 1) /\ PathsLeft(n + 1) \in Seq(AnyPath)
    BY <1>1, PathsLeftFacts
  <2>2. A[0] = Together(Answers(d, PathsLeft(n)))
    BY DEF Levels
  <2> HIDE DEF d, path
  <2>3. Together(Answers(d, PathsLeft(n))) = Then(Answer(d, Head(PathsLeft(n))), Together(Answers(d, Tail(PathsLeft(n)))))
    BY <1>2, <2>1, AnswersTail
  <2>4. X \in Meanings
    BY <1>2, <2>1, AnswersType
  <2> QED  BY <2>1, <2>2, <2>3, <2>4
<1> HIDE DEF path, X
<1>4. Levels(none, n + 1, <<>>)
  <2>1. Len(<<>>) = 0 /\ 1..0 = {} /\ none[0] = X /\ none \in [0..0 -> Meanings]
    BY <1>3
  <2> HIDE DEF none
  <2> QED  BY <2>1 DEF Levels, X
<1>5. PICK B : /\ Levels(B, n + 1, Append(<<>>, <<path>>))
               /\ B[Len(<<>>) + 1] = Then(Together(Answers(StackDepth - (Len(<<>>) + 1), <<path>>)), none[Len(<<>>)])
  <2>1. <<>> \in Seq(Seq({path})) /\ <<path>> \in Seq({path}) /\ Len(<<>>) < StackDepth
    BY <1>2
  <2> HIDE DEF none
  <2> QED  BY <1>4, <2>1, LevelsMore
<1>6. Append(<<>>, <<path>>) = << <<path>> >> /\ Len(<<>>) + 1 = 1 /\ none[Len(<<>>)] = X /\ StackDepth - (0 + 1) = d
  <2>1. StackDepth \in Nat
    BY BaseFacts
  <2> QED  BY <2>1
<1>7. Together(Answers(d, <<path>>)) = Answer(d, path)
  <2>1. <<path>> \in Seq({path}) /\ <<path>> # <<>> /\ Head(<<path>>) = path /\ Tail(<<path>>) = <<>>
    OBVIOUS
  <2> HIDE DEF d
  <2>2. Together(Answers(d, <<path>>)) = Then(Answer(d, Head(<<path>>)), Together(Answers(d, Tail(<<path>>))))
    BY <1>2, <2>1, AnswersTail
  <2>3. Together(Answers(d, <<path>>)) = Then(Answer(d, path), {<<>>})
    BY <2>1, <2>2, AnswersEmpty
  <2>4. Answer(d, path) \in SUBSET Seq(Unit)
    BY <1>2, AnswerType DEF Meanings
  <2> QED  BY <2>3, <2>4, ThenRight
<1>8. B[1] = Then(Answer(d, path), X)
  <2>1. Len(<<>>) = 0
    OBVIOUS
  <2>2. B[1] = Then(Together(Answers(d, <<path>>)), X)
    BY <1>5, <1>6, <2>1
  <2> QED  BY <1>7, <2>2
<1> QED  BY <1>3, <1>5, <1>6, <1>8 DEF path, X

\* What the next member stands for.
LEMMA AnswerOfHead ==
  ASSUME Base, NEW d \in 0..(StackDepth - 1)
  PROVE  /\ Kind \in UnitKinds => Answer(d, Head(Top)) = {<<[kind |-> Kind, path |-> Head(Top)]>>}
         /\ Kind \in {"missing", "dir", "text"} => Answer(d, Head(Top)) = {}
         /\ Kind = "group" => Answer(d, Head(Top)) =
                                IF d > 0 THEN Together(PartsIn(Head(Top), RowOf(Meant, d - 1))) ELSE {}
<1> DEFINE h == Head(Top)
<1>1. CASE h \in DOMAIN disk
  <2>1. Kind = disk[h].kind /\ Answer(d, h) = Meant[<<d, h>>]
    BY <1>1 DEF Kind, Answer
  <2>2. Meant[<<d, h>>] = MeansOf(d, h, RowOf(Meant, d - 1))
    <3> HIDE DEF h
    <3> QED  BY <1>1, BaseFacts, MeantIs
  <2> HIDE DEF h
  <2>3. Kind \in UnitKinds => Answer(d, h) = {<<[kind |-> Kind, path |-> h]>>}
    BY <2>1, <2>2 DEF MeansOf
  <2>4. Kind \in {"missing", "dir", "text"} => Answer(d, h) = {}
    BY <2>1, <2>2 DEF MeansOf, UnitKinds
  <2>5. Kind = "group" => Answer(d, h) = IF d > 0 THEN Together(PartsIn(h, RowOf(Meant, d - 1))) ELSE {}
    BY <2>1, <2>2 DEF MeansOf, UnitKinds
  <2> QED  BY <2>3, <2>4, <2>5 DEF h
<1>2. CASE h \notin DOMAIN disk
  <2>1. Kind = "missing" /\ Answer(d, h) = {}
    BY <1>2 DEF Kind, Answer
  <2> QED  BY <2>1 DEF UnitKinds
<1> QED  BY <1>1, <1>2

\* A script whose members are found as other inputs are stands for its members in order.
LEMMA AnswerOfGroup ==
  ASSUME Base, ~GroupDiffers, NEW h \in Reached, disk[h].kind = "group", NEW d \in 0..(StackDepth - 1)
  PROVE  /\ \A m \in DOMAIN disk[h].members : ~NotFound(disk[h].members[m])
         /\ Together(Answers(d, FilesOf(disk[h].members))) = Together(PartsIn(h, RowOf(Meant, d)))
<1> DEFINE s == disk[h].members
           path(m) == PathSaid(s[m])
           t == [m \in DOMAIN s |-> path(m)]
           Piece(m) == IF IsFile(MemberPath(s[m], config)) THEN <<MemberPath(s[m], config)>> ELSE <<>>
           pieces == [m \in DOMAIN s |-> Piece(m)]
<1>1. h \in DOMAIN disk /\ s \in Seq(LinkArg)
  <2>1. h \in DOMAIN disk
    BY ReachedFacts
  <2> QED  BY <2>1, BaseFacts
<1>2. DOMAIN s = 1..Len(s) /\ Len(s) \in Nat
  BY <1>1
<1>3. \A m \in DOMAIN s : MemberPath(s[m], config) = path(m) /\ IsFile(path(m)) /\ path(m) \in DOMAIN disk
  <2>1. MembersOf(h) = ToSet(s)
    BY DEF MembersOf
  <2>2. \A m \in DOMAIN s : s[m] \in MembersOf(h)
    BY <2>1 DEF ToSet
  <2> HIDE DEF s
  <2> QED  BY <2>2 DEF GroupDiffers, IsFile
<1>4. ASSUME NEW m \in DOMAIN s PROVE ~NotFound(s[m])
  <2>1. MemberPath(s[m], config) \in DOMAIN disk
    BY <1>3
  <2>2. "" \notin DOMAIN disk
    BY BaseFacts
  <2> HIDE DEF s
  <2> QED  BY <2>1, <2>2, Zenon DEF NotFound
<1>5. \A m \in DOMAIN s : Piece(m) = <<path(m)>>
  BY <1>3, Zenon
<1>6. FilesOf(s) = FlattenSeq(pieces)
  BY Zenon DEF FilesOf
<1> HIDE DEF s, path, Piece
<1>7. pieces \in Seq(Seq(DOMAIN disk)) /\ Len(pieces) = Len(s) /\ \A m \in 1..Len(pieces) : pieces[m] = <<path(m)>>
  <2>1. \A m \in 1..Len(s) : <<path(m)>> \in Seq(DOMAIN disk)
    BY <1>2, <1>3
  <2>2. pieces = [m \in 1..Len(s) |-> <<path(m)>>]
    BY <1>2, <1>5
  <2> HIDE DEF pieces
  <2>3. pieces \in Seq(Seq(DOMAIN disk)) /\ Len(pieces) = Len(s)
    BY <1>2, <2>1, <2>2
  <2>4. \A m \in 1..Len(pieces) : pieces[m] = <<path(m)>>
    BY <2>2, <2>3
  <2> QED  BY <2>3, <2>4
<1>8. t \in Seq(DOMAIN disk) /\ Len(t) = Len(s) /\ \A m \in 1..Len(s) : t[m] = path(m)
  BY <1>2, <1>3
<1> HIDE DEF pieces
<1>9. FilesOf(s) = t
  <2>1. \A m \in 1..Len(pieces) : pieces[m] = <<t[m]>>
    BY <1>7, <1>8
  <2> HIDE DEF t
  <2> QED  BY <1>6, <1>7, <1>8, <2>1, FlatSingles
<1>10. Answers(d, t) = PartsIn(h, RowOf(Meant, d))
  <2>1. \A m \in DOMAIN s : Answer(d, t[m]) = Meant[<<d, path(m)>>] /\ RowOf(Meant, d)[path(m)] = Meant[<<d, path(m)>>]
    BY <1>2, <1>3, <1>8 DEF Answer, RowOf
  <2>2. Answers(d, t) = [m \in DOMAIN s |-> Answer(d, t[m])]
    BY <1>2, <1>8 DEF Answers
  <2>3. PartsIn(h, RowOf(Meant, d)) = [m \in DOMAIN s |-> IF path(m) \in DOMAIN disk THEN RowOf(Meant, d)[path(m)] ELSE {}]
    BY Zenon DEF PartsIn, path, s
  <2> HIDE DEF t
  <2>4. \A m \in DOMAIN s : Answer(d, t[m]) = IF path(m) \in DOMAIN disk THEN RowOf(Meant, d)[path(m)] ELSE {}
    BY <1>3, <2>1
  <2> QED  BY <2>2, <2>3, <2>4
<1> QED  BY <1>4, <1>9, <1>10 DEF s
-----------------------------------------------------------------------------
(***************************************************************************)
(* Each step of resolve_path keeps what is to come.                        *)
(***************************************************************************)

ResolvingAt(n, calls, found) ==
  /\ n \in 1..(Len(InputsSaid) + 1)
  /\ Len(calls) <= StackDepth
  /\ \E A : Coming(A, n, calls, found)
Resolved(how, found) ==
  \/ how = "link" /\ MeantUnits = {found}
  \/ how \in {"failed", "overflow"} /\ MeantUnits = {}

LEMMA SaidInputs ==
  ASSUME Base, ConfigSaid(config, Len(argv))
  PROVE  /\ config.inputs = InputsSaid /\ InputsSaid \in Seq(AnyInput)
         /\ \A n \in DOMAIN InputsSaid : PathOf(InputsSaid[n]) = PathSaid(InputsSaid[n])
<1>1. argv \in Seq([opt : STRING, val : STRING]) /\ NoPath \notin DOMAIN disk
  BY BaseFacts, Zenon DEF NoPath
<1>2. config.inputs = InputsSaid
  BY <1>1, InputsSoFarFacts, Zenon DEF ConfigSaid
<1>3. InputsSaid \in Seq(AnyInput)
  BY <1>2 DEF Base
<1>4. \A n \in DOMAIN InputsSaid : InputsSaid[n] \in AnyInput
  BY <1>3
<1>5. \A input \in AnyInput : PathOf(input) = PathSaid(input)
  BY <1>1, PathIsSaid
<1> QED  BY <1>2, <1>3, <1>4, <1>5

LEMMA NextInputStep ==
  ASSUME Base, ConfigSaid(config, Len(argv)), ResolvingAt(i, stack, units), NextInput
  PROVE  (pc' = "inputs" /\ ResolvingAt(i', stack', units')) \/ Resolved(pc', units)
<1>1. stack = <<>> /\ i <= Len(InputsSaid) /\ i \in 1..(Len(InputsSaid) + 1) /\ config.inputs = InputsSaid
  BY SaidInputs DEF NextInput, ResolvingAt
<1>2. i \in DOMAIN InputsSaid /\ InputsSaid \in Seq(AnyInput) /\ i + 1 \in 1..(Len(InputsSaid) + 1)
  <2>1. InputsSaid \in Seq(AnyInput)
    BY SaidInputs
  <2> QED  BY <1>1, <2>1
<1> DEFINE path == PathSaid(InputsSaid[i])
<1>3. PathOf(config.inputs[i]) = path
  BY <1>1, <1>2, SaidInputs
<1>4. PICK A : Levels(A, i, <<>>) /\ MeantUnits = Then({units}, A[0])
  <2>1. PICK A : Coming(A, i, <<>>, units)
    BY <1>1 DEF ResolvingAt
  <2>2. Len(<<>>) = 0
    OBVIOUS
  <2> QED  BY <2>1, <2>2 DEF Coming
<1>5. /\ A[0] = Then(Answer(StackDepth - 1, path), Together(Answers(StackDepth - 1, PathsLeft(i + 1))))
      /\ \E B : Levels(B, i + 1, << <<path>> >>) /\ B[1] = A[0]
  BY <1>2, <1>4, LevelsInput
<1>6. PICK B : Levels(B, i + 1, << <<path>> >>) /\ B[1] = A[0]
  BY <1>5
<1> HIDE DEF path
<1>7. CASE path = NoPath
  <2>1. pc' = "failed"
    BY <1>3, <1>7, Zenon DEF NextInput, Ended, NoPath
  <2>2. Answer(StackDepth - 1, path) = {}
    <3>1. NoPath \notin DOMAIN disk
      BY BaseFacts, Zenon DEF NoPath
    <3> QED  BY <1>7, <3>1 DEF Answer
  <2>3. A[0] = {}
    BY <1>5, <2>2 DEF Then
  <2>4. MeantUnits = {}
    BY <1>4, <2>3 DEF Then
  <2> QED  BY <2>1, <2>4 DEF Resolved
<1>8. CASE path # NoPath
  <2>1. stack' = << <<path>> >> /\ i' = i + 1 /\ pc' = "inputs" /\ units' = units
    BY <1>3, <1>8, Zenon DEF NextInput, NoPath
  <2>2. Len(<< <<path>> >>) = 1
    OBVIOUS
  <2>3. 1 <= StackDepth
    <3>1. StackDepth \in Nat \ {0}
      BY BaseFacts
    <3> QED  BY <3>1
  <2>4. Coming(B, i + 1, << <<path>> >>, units)
    BY <1>4, <1>6, <2>2 DEF Coming
  <2>5. ResolvingAt(i + 1, << <<path>> >>, units)
    BY <1>2, <2>2, <2>3, <2>4 DEF ResolvingAt
  <2> QED  BY <2>1, <2>5
<1> QED  BY <1>7, <1>8

\* The member that is next, as a level of the answer.
LEMMA MemberLevels ==
  ASSUME Base, ResolvingAt(i, stack, units), AtMember
  PROVE  /\ Len(stack) \in Nat \ {0} /\ Len(Rest) = Len(stack) /\ StackDepth - Len(stack) \in 0..(StackDepth - 1)
         /\ Head(Top) \in Paths /\ Len(stack) <= StackDepth
         /\ \E B : /\ Levels(B, i, Rest) /\ B[Len(stack)] \in Meanings
                   /\ MeantUnits = Then({units}, Then(Answer(StackDepth - Len(stack), Head(Top)), B[Len(stack)]))
<1>1. stack # <<>> /\ Top # <<>> /\ Len(stack) <= StackDepth /\ stack \in Seq(Seq(Paths))
  BY DEF AtMember, ResolvingAt, Base
<1>2. Len(stack) \in Nat \ {0} /\ Len(Rest) = Len(stack) /\ Head(Top) \in Paths
  BY <1>1, StackFacts
<1>3. StackDepth - Len(stack) \in 0..(StackDepth - 1)
  <2>1. StackDepth \in Nat \ {0}
    BY BaseFacts
  <2> QED  BY <1>1, <1>2, <2>1
<1>4. PICK A : Coming(A, i, stack, units)
  BY DEF ResolvingAt
<1>5. PICK B : /\ Levels(B, i, Rest) /\ B[Len(stack)] \in Meanings
               /\ A[Len(stack)] = Then(Answer(StackDepth - Len(stack), Head(Top)), B[Len(stack)])
  BY <1>1, <1>4, LevelsRest DEF Coming
<1>6. MeantUnits = Then({units}, Then(Answer(StackDepth - Len(stack), Head(Top)), B[Len(stack)]))
  BY <1>4, <1>5 DEF Coming
<1> QED  BY <1>1, <1>2, <1>3, <1>5, <1>6

LEMMA TakeUnitStep ==
  ASSUME Base, ResolvingAt(i, stack, units), TakeUnit
  PROVE  pc' = "inputs" /\ ResolvingAt(i', stack', units')
<1> DEFINE d == StackDepth - Len(stack)
           u == [kind |-> Kind, path |-> Head(Top)]
<1>1. AtMember /\ Kind \in UnitKinds /\ pc' = "inputs" /\ i' = i /\ stack' = Rest /\ units' = Append(units, u)
  BY DEF TakeUnit, Take, UnitKinds, AtMember
<1>2. Len(Rest) = Len(stack) /\ d \in 0..(StackDepth - 1) /\ Len(stack) <= StackDepth
  BY <1>1, MemberLevels
<1>3. PICK B : /\ Levels(B, i, Rest) /\ B[Len(stack)] \in Meanings
               /\ MeantUnits = Then({units}, Then(Answer(d, Head(Top)), B[Len(stack)]))
  BY <1>1, MemberLevels
<1>4. Answer(d, Head(Top)) = {<<u>>}
  <2> HIDE DEF d
  <2> QED  BY <1>1, <1>2, AnswerOfHead
<1>5. u \in Unit /\ units \in Seq(Unit)
  <2>1. Head(Top) \in DOMAIN disk
    BY <1>1 DEF Kind, UnitKinds
  <2> QED  BY <1>1, <2>1 DEF Unit, UnitKinds, Base
<1> HIDE DEF u, d
<1>6. MeantUnits = Then({Append(units, u)}, B[Len(stack)])
  <2> DEFINE C == B[Len(stack)]
  <2>1. C \in SUBSET Seq(Unit) /\ MeantUnits = Then({units}, Then({<<u>>}, C))
    BY <1>3, <1>4 DEF Meanings
  <2> HIDE DEF C
  <2>2. AppendsOne(units, u, C)
    BY <1>5, <2>1, ThenAppend
  <2> QED  BY <2>1, <2>2, Zenon DEF AppendsOne, C
<1>7. Coming(B, i, Rest, Append(units, u))
  BY <1>2, <1>3, <1>6 DEF Coming
<1>8. ResolvingAt(i, Rest, Append(units, u))
  BY <1>2, <1>7 DEF ResolvingAt
<1> QED  BY <1>1, <1>8

LEMMA CannotLoadStep ==
  ASSUME Base, ResolvingAt(i, stack, units), CannotLoad
  PROVE  Resolved(pc', units)
<1> DEFINE d == StackDepth - Len(stack)
<1>1. AtMember /\ Kind \in {"missing", "dir", "text"} /\ pc' = "failed"
  BY DEF CannotLoad, Ended
<1>2. d \in 0..(StackDepth - 1)
  BY <1>1, MemberLevels
<1>3. PICK B : MeantUnits = Then({units}, Then(Answer(d, Head(Top)), B[Len(stack)]))
  BY <1>1, MemberLevels
<1> HIDE DEF d
<1>4. Answer(d, Head(Top)) = {}
  BY <1>1, <1>2, AnswerOfHead
<1>5. \A X : Then({}, X) = {} /\ Then(X, {}) = {}
  BY DEF Then
<1>6. MeantUnits = {}
  BY <1>3, <1>4, <1>5
<1> QED  BY <1>1, <1>6 DEF Resolved

LEMMA ExpandGroupStep ==
  ASSUME Base, Chain, ~GroupDiffers, ResolvingAt(i, stack, units), ExpandGroup
  PROVE  (pc' = "inputs" /\ ResolvingAt(i', stack', units')) \/ Resolved(pc', units)
<1> DEFINE h == Head(Top)
           s == disk[h].members
           m == Len(stack)
           d == StackDepth - m
<1>1. AtMember /\ Kind = "group" /\ stack # <<>> /\ Top # <<>>
  BY DEF ExpandGroup, AtMember
<1>2. /\ m \in Nat \ {0} /\ Len(Rest) = m /\ d \in 0..(StackDepth - 1) /\ m <= StackDepth /\ StackDepth \in Nat \ {0}
  BY <1>1, MemberLevels, BaseFacts
<1>3. PICK B : /\ Levels(B, i, Rest) /\ B[m] \in Meanings
               /\ MeantUnits = Then({units}, Then(Answer(d, h), B[m]))
  BY <1>1, MemberLevels
<1>4. h \in DOMAIN disk /\ disk[h].kind = "group" /\ h \in Reached
  <2>1. h \in DOMAIN disk /\ disk[h].kind = "group"
    BY <1>1 DEF Kind
  <2>2. PICK chain : Nested(chain, stack)
    BY DEF Chain
  <2> QED  BY <1>1, <2>1, <2>2, NextReached
<1>5. Answer(d, h) = IF d > 0 THEN Together(PartsIn(h, RowOf(Meant, d - 1))) ELSE {}
  <2> HIDE DEF d
  <2> QED  BY <1>1, <1>2, AnswerOfHead
<1> HIDE DEF d
<1>6. \A k \in DOMAIN s : ~NotFound(s[k])
  <2>1. 0 \in 0..(StackDepth - 1)
    BY <1>2
  <2> QED  BY <1>4, <2>1, AnswerOfGroup
<1>7. s \in Seq(LinkArg)
  BY <1>4, BaseFacts
<1>8. CASE m = StackDepth
  <2>1. pc' = "overflow"
    BY <1>6, <1>8 DEF ExpandGroup, Ended
  <2>2. Answer(d, h) = {}
    <3>1. ~(d > 0)
      BY <1>2, <1>8 DEF d
    <3> QED  BY <1>5, <3>1
  <2>3. \A X : Then({}, X) = {} /\ Then(X, {}) = {}
    BY DEF Then
  <2>4. MeantUnits = {}
    BY <1>3, <2>2, <2>3
  <2> QED  BY <2>1, <2>4 DEF Resolved
<1>9. CASE m # StackDepth
  <2> DEFINE f == FilesOf(s)
  <2>1. stack' = Append(Rest, f) /\ pc' = "inputs" /\ i' = i /\ units' = units
    BY <1>6, <1>9 DEF ExpandGroup, AtMember
  <2>2. d > 0 /\ d - 1 \in 0..(StackDepth - 1) /\ m < StackDepth /\ StackDepth - (m + 1) = d - 1 /\ m + 1 <= StackDepth
    BY <1>2, <1>9 DEF d
  <2>3. Answer(d, h) = Together(Answers(d - 1, f))
    BY <1>4, <1>5, <2>2, AnswerOfGroup
  <2>4. f \in Seq(DOMAIN disk)
    BY <1>7, FilesFacts
  <2> DEFINE V == Paths \cup DOMAIN disk
  <2>5. f \in Seq(V) /\ Rest \in Seq(Seq(V))
    <3>1. stack \in Seq(Seq(Paths)) /\ DOMAIN disk \subseteq Paths
      BY DEF Base, Paths
    <3>2. Rest \in Seq(Seq(Paths))
      BY <1>1, <3>1, StackFacts
    <3>3. V = Paths
      BY <3>1
    <3> HIDE DEF f, V
    <3> QED  BY <2>4, <3>1, <3>2, <3>3
  <2> HIDE DEF f, V, m
  <2>6. PICK C : /\ Levels(C, i, Append(Rest, f))
                 /\ C[Len(Rest) + 1] = Then(Together(Answers(StackDepth - (Len(Rest) + 1), f)), B[Len(Rest)])
    BY <1>2, <1>3, <2>2, <2>5, LevelsMore
  <2>7. Len(Append(Rest, f)) = m + 1
    BY <1>2, <2>5
  <2>8. C[m + 1] = Then(Answer(d, h), B[m])
    BY <1>2, <2>2, <2>3, <2>6
  <2>9. Coming(C, i, Append(Rest, f), units)
    BY <1>3, <2>6, <2>7, <2>8 DEF Coming
  <2>10. ResolvingAt(i, Append(Rest, f), units)
    BY <2>2, <2>7, <2>9 DEF ResolvingAt
  <2> QED  BY <2>1, <2>10
<1> QED  BY <1>8, <1>9

LEMMA ReturnStep ==
  ASSUME Base, ResolvingAt(i, stack, units), Return
  PROVE  pc' = "inputs" /\ ResolvingAt(i', stack', units')
<1>1. /\ stack # <<>> /\ Top = <<>> /\ pc' = "inputs" /\ i' = i /\ stack' = Front(stack) /\ units' = units
  BY DEF Return
<1>2. Len(stack) <= StackDepth /\ i \in 1..(Len(InputsSaid) + 1)
  BY DEF ResolvingAt
<1>3. PICK A : Coming(A, i, stack, units)
  BY DEF ResolvingAt
<1>4. PICK B : Levels(B, i, Front(stack)) /\ B[Len(Front(stack))] = A[Len(stack)]
  BY <1>1, <1>2, <1>3, LevelsLess DEF Coming
<1>5. Coming(B, i, Front(stack), units)
  BY <1>3, <1>4 DEF Coming
<1>6. Len(Front(stack)) <= StackDepth
  <2>1. stack \in Seq(Seq(Paths)) /\ StackDepth \in Nat
    BY BaseFacts DEF Base
  <2>2. Len(Front(stack)) = Len(stack) - 1 /\ Len(stack) \in Nat
    BY <1>1, <2>1, FrontFacts
  <2> QED  BY <1>2, <2>1, <2>2
<1> QED  BY <1>1, <1>2, <1>5, <1>6 DEF ResolvingAt

LEMMA InputsDoneStep ==
  ASSUME Base, ConfigSaid(config, Len(argv)), ResolvingAt(i, stack, units), InputsDone
  PROVE  Resolved(pc', units)
<1>1. stack = <<>> /\ pc' = "link" /\ i = Len(InputsSaid) + 1 /\ InputsSaid \in Seq(AnyInput)
  <2>1. config.inputs = InputsSaid /\ InputsSaid \in Seq(AnyInput)
    BY SaidInputs
  <2> QED  BY <2>1 DEF InputsDone, Ended, ResolvingAt
<1>2. PICK A : Levels(A, i, <<>>) /\ MeantUnits = Then({units}, A[0])
  <2>1. PICK A : Coming(A, i, <<>>, units)
    BY <1>1 DEF ResolvingAt
  <2>2. Len(<<>>) = 0
    OBVIOUS
  <2> QED  BY <2>1, <2>2 DEF Coming
<1>3. A[0] = {<<>>}
  <2>1. PathsLeft(i) = <<>>
    <3>1. i \in 1..(Len(InputsSaid) + 1)
      BY DEF ResolvingAt
    <3> QED  BY <1>1, <3>1, PathsLeftFacts
  <2> QED  BY <1>2, <2>1, AnswersEmpty DEF Levels
<1>4. MeantUnits = {units}
  <2>1. {units} \in SUBSET Seq(Unit)
    BY DEF Base
  <2> QED  BY <1>2, <1>3, <2>1, ThenRight
<1> QED  BY <1>1, <1>4 DEF Resolved

LEMMA GivenValue ==
  ASSUME argv \in Seq([opt : STRING, val : STRING]), NEW opt, NEW n \in DOMAIN argv, Given(opt, n)
  PROVE  ValueOf(n) \in ToSet(Values(opt))
<1> DEFINE s == OptionPieces(opt)
<1>1. DOMAIN argv = 1..Len(argv) /\ Len(argv) \in Nat
  OBVIOUS
<1>2. \A k \in DOMAIN argv : s[k] = IF Given(opt, k) THEN <<ValueOf(k)>> ELSE <<>>
  BY DEF OptionPieces
<1>3. \A k \in DOMAIN argv : s[k] \in Seq(AnyValue)
  <2>1. \A k \in DOMAIN argv : <<ValueOf(k)>> \in Seq(AnyValue)
    BY DEF AnyValue
  <2>2. <<>> \in Seq(AnyValue)
    OBVIOUS
  <2> HIDE DEF s
  <2> QED  BY <1>2, <2>1, <2>2
<1>4. s = [k \in 1..Len(argv) |-> s[k]]
  BY <1>1 DEF OptionPieces
<1>5. Values(opt) = FlattenSeq(s)
  BY DEF Values, OptionPieces
<1> HIDE DEF s
<1>6. s \in Seq(Seq(AnyValue)) /\ Len(s) = Len(argv)
  BY <1>1, <1>3, <1>4
<1>7. ToSet(Values(opt)) = UNION {ToSet(s[j]) : j \in 1..Len(s)}
  BY <1>5, <1>6, FlatElements
<1>8. ValueOf(n) \in ToSet(s[n])
  <2> DEFINE v == ValueOf(n)
  <2>1. s[n] = <<v>>
    BY <1>2
  <2> HIDE DEF v
  <2>2. v \in ToSet(<<v>>)
    BY DEF ToSet
  <2> QED  BY <2>1, <2>2 DEF v
<1> QED  BY <1>1, <1>6, <1>7, <1>8

LEMMA CannotReadStep ==
  ASSUME Base, PlainLine, i \in DOMAIN argv, ArgsAt(i, config), CannotRead
  PROVE  Resolved(pc', units)
<1>1. argv \in Seq([opt : STRING, val : STRING])
  BY BaseFacts
<1>2. argv[i].opt = "-T" /\ ~IsFile(ValueOf(i)) /\ HasValue(i) /\ pc' = "failed"
  BY DEF CannotRead, Unreadable
<1>3. ~IsValue[i]
  <2>1. i <= Len(argv)
    BY <1>1
  <2> QED  BY <2>1 DEF ArgsAt
<1>4. ValueOf(i) \in ToSet(Values("-T"))
  <2>1. Given("-T", i)
    BY <1>2, <1>3 DEF Given
  <2> QED  BY <1>1, <2>1, GivenValue
<1>5. MeantUnits = {}
  BY <1>2, <1>4 DEF MeantUnits
<1> QED  BY <1>2, <1>5 DEF Resolved

\* With the scripts of -T there and no value missing, a command line means the answers of its inputs.
LEMMA MeantAtFirst ==
  ASSUME Base, PlainLine, ConfigSaid(config, Len(argv))
  PROVE  MeantUnits = Together(Answers(StackDepth - 1, PathsLeft(1)))
<1>1. argv \in Seq([opt : STRING, val : STRING])
  BY BaseFacts
<1>2. ~ValueMissing /\ ~\E v \in ToSet(Values("-T")) : ~IsFile(v)
  <2>1. SoFar("-T", Len(argv)) = Values("-T")
    BY <1>1, SoFarFacts
  <2> QED  BY <2>1 DEF PlainLine, ConfigSaid
<1>3. MeantUnits = Together([k \in DOMAIN InputsSaid |-> Answer(StackDepth - 1, PathSaid(InputsSaid[k]))])
  BY <1>2 DEF MeantUnits
<1>4. InputsSaid \in Seq(AnyInput)
  BY SaidInputs
<1> DEFINE l == Len(InputsSaid)
           d == StackDepth - 1
           p == PathsLeft(1)
<1>5. l \in Nat /\ DOMAIN InputsSaid = 1..l /\ l + 1 - 1 = l
  BY <1>4
<1> HIDE DEF l, d
<1>6. p = [k \in 1..l |-> PathSaid(InputsSaid[k])]
  <2>1. p = [k \in 1..(l + 1 - 1) |-> PathSaid(InputsSaid[1 - 1 + k])]
    BY DEF PathsLeft, l
  <2>2. \A k \in 1..l : 1 - 1 + k = k
    BY <1>5
  <2> HIDE DEF p
  <2> QED  BY <1>5, <2>1, <2>2
<1> HIDE DEF p
<1>7. Answers(d, p) = [k \in 1..l |-> Answer(d, PathSaid(InputsSaid[k]))]
  BY <1>6 DEF Answers
<1> QED  BY <1>3, <1>5, <1>7 DEF d, p, l

LEMMA ArgsDoneStep ==
  ASSUME Base, PlainLine, pc = "args", ArgsAt(i, config), ArgsDone
  PROVE  ConfigSaid(config', Len(argv)) /\ ResolvingAt(i', stack', units')
<1>1. argv \in Seq([opt : STRING, val : STRING]) /\ stack = <<>> /\ units = <<>> /\ IsConfig(config)
  BY BaseFacts DEF Base
<1>2. i - 1 = Len(argv)
  <2>1. i > Len(argv) /\ i \in 1..(Len(argv) + 1) /\ Len(argv) \in Nat
    BY <1>1 DEF ArgsDone, ArgsAt
  <2> QED  BY <2>1
<1>3. ConfigSaid(config, Len(argv))
  BY <1>2 DEF ArgsAt
<1>4. \A w : LET c == [config EXCEPT !.interp = w]
              IN /\ c.out = config.out /\ c.dirs = config.dirs /\ c.sysroot = config.sysroot /\ c.entry = config.entry
                 /\ c.inputs = config.inputs /\ c.static = config.static
  BY <1>1 DEF IsConfig, Made
<1>5. ConfigSaid(config', Len(argv))
  <2>1. /\ config'.out = config.out /\ config'.dirs = config.dirs /\ config'.sysroot = config.sysroot
        /\ config'.entry = config.entry /\ config'.inputs = config.inputs /\ config'.static = config.static
    BY <1>4 DEF ArgsDone
  <2> QED  BY <1>3, <2>1, Zenon DEF ConfigSaid
<1>6. i' = 1 /\ stack' = <<>> /\ units' = <<>>
  BY <1>1 DEF ArgsDone
<1> DEFINE X == Together(Answers(StackDepth - 1, PathsLeft(1)))
           A == [j \in 0..0 |-> X]
<1>7. 1 \in 1..(Len(InputsSaid) + 1) /\ InputsSaid \in Seq(AnyInput)
  <2>1. InputsSaid \in Seq(AnyInput)
    BY <1>3, SaidInputs
  <2> QED  BY <2>1
<1>8. StackDepth \in Nat \ {0}
  BY BaseFacts
<1>9. X \in Meanings
  <2>1. PathsLeft(1) \in Seq(AnyPath)
    BY <1>7, PathsLeftFacts
  <2>2. StackDepth - 1 \in 0..(StackDepth - 1)
    BY <1>8
  <2> QED  BY <2>1, <2>2, AnswersType
<1>10. MeantUnits = X
  BY <1>3, MeantAtFirst
<1>11. Levels(A, 1, <<>>) /\ A[0] = X
  <2> HIDE DEF X
  <2>1. Len(<<>>) = 0 /\ 1..0 = {} /\ A[0] = X /\ A \in [0..0 -> Meanings]
    BY <1>9
  <2> HIDE DEF A
  <2> QED  BY <2>1 DEF Levels, X
<1>12. MeantUnits = Then({<<>>}, X)
  BY <1>9, <1>10, ThenFacts DEF Meanings
<1> HIDE DEF A, X
<1>13. Coming(A, 1, <<>>, <<>>)
  <2>1. Len(<<>>) = 0
    OBVIOUS
  <2> QED  BY <1>11, <1>12, <2>1 DEF Coming
<1>14. ResolvingAt(1, <<>>, <<>>)
  <2>1. Len(<<>>) <= StackDepth
    BY <1>8
  <2> QED  BY <1>7, <1>13, <2>1 DEF ResolvingAt
<1> QED  BY <1>5, <1>6, <1>14
-----------------------------------------------------------------------------
(***************************************************************************)
(* The meaning of a command line depends on the invocation alone.          *)
(***************************************************************************)

SaidDirs == SearchDirs(Values("-L"), LastOf(Values("--sysroot"), ""))
SaidPlaces(name) == Places(SaidDirs, name, StaticSaid)
PlaceIn(there, dirs, name) ==
  IF there = {} THEN ""
  ELSE LET at == CHOOSE at \in there : \A other \in there : Earlier(at, other)
       IN LibPath(dirs[at[1]], name, at[2])

LEMMA PathFixed ==
  ASSUME argv' = argv, disk' = disk
  PROVE  /\ \A m : PathSaid(m)' = PathSaid(m)
         /\ InputsSaid' = InputsSaid /\ ValueMissing' = ValueMissing
         /\ \A opt : Values(opt)' = Values(opt)
<1>1. IsValue' = IsValue
  BY DEF IsValue
<1>2. \A k : HasValue(k)' = HasValue(k) /\ ValueOf(k)' = ValueOf(k)
  BY DEF HasValue, ValueOf
<1>3. \A opt, k : Given(opt, k)' = Given(opt, k)
  BY <1>1, <1>2 DEF Given
<1>4. \A opt : Values(opt)' = Values(opt)
  BY <1>2, <1>3 DEF Values
<1>5. InputsSaid' = InputsSaid
  BY <1>1, <1>2, <1>3 DEF InputsSaid
<1>6. ValueMissing' = ValueMissing
  BY <1>1, <1>2 DEF ValueMissing
<1>7. StaticSaid' = StaticSaid
  BY <1>1 DEF StaticSaid
<1>8. SaidDirs' = SaidDirs
  BY <1>4, Zenon DEF SaidDirs
<1>9. ASSUME NEW name PROVE LibSaid(name)' = LibSaid(name)
  <2>1. \A v : IsFile(v)' = IsFile(v)
    BY DEF IsFile
  <2>2. SaidPlaces(name)' = SaidPlaces(name)
    BY <1>7, <1>8, <2>1 DEF SaidPlaces, Places
  <2>3. LibSaid(name) = PlaceIn(SaidPlaces(name), SaidDirs, name)
    BY Zenon DEF LibSaid, PlaceIn, SaidPlaces, SaidDirs, Places, LibPath
  <2>4. LibSaid(name)' = PlaceIn(SaidPlaces(name)', SaidDirs', name)
    BY Zenon DEF LibSaid, PlaceIn, SaidPlaces, SaidDirs, Places, LibPath
  <2> QED  BY <1>8, <2>2, <2>3, <2>4
<1>10. \A m : PathSaid(m)' = PathSaid(m)
  BY <1>9 DEF PathSaid
<1> QED  BY <1>4, <1>5, <1>6, <1>10

LEMMA MeaningFixed ==
  ASSUME argv' = argv, disk' = disk
  PROVE  /\ MeantUnits' = MeantUnits /\ InputsSaid' = InputsSaid /\ Meanings' = Meanings
         /\ \A n, paths : Answers(n, paths)' = Answers(n, paths)
         /\ \A n : PathsLeft(n)' = PathsLeft(n)
<1>1. (\A m : PathSaid(m)' = PathSaid(m)) /\ InputsSaid' = InputsSaid /\ ValueMissing' = ValueMissing
  BY PathFixed
<1>2. \A n : PathsLeft(n)' = PathsLeft(n)
  BY <1>1 DEF PathsLeft
<1>3. Meanings' = Meanings
  BY DEF Meanings, Unit
<1>4. Meant' = Meant
  <2>1. Meant = CHOOSE f : MeantUnfolds(f)
    BY Zenon DEF Meant, MeantUnfolds, MeantBody
  <2>2. Meant' = CHOOSE f : MeantUnfolds(f)'
    BY Zenon DEF Meant, MeantUnfolds, MeantBody
  <2>3. \A f, n, p : MeantBody(f, n, p)' = MeantBody(f, n, p)
    BY <1>1, ZenonT(60) DEF MeantBody
  <2>4. \A f : MeantUnfolds(f)' = MeantUnfolds(f)
    BY <2>3 DEF MeantUnfolds
  <2> QED  BY <2>1, <2>2, <2>4
<1>5. \A n, path : Answer(n, path)' = Answer(n, path)
  BY <1>4 DEF Answer
<1>6. \A n, paths : Answers(n, paths)' = Answers(n, paths)
  BY <1>5 DEF Answers
<1>7. MeantUnits' = MeantUnits
  <2>1. Values("-T")' = Values("-T")
    BY PathFixed
  <2>2. \A v : IsFile(v)' = IsFile(v)
    BY DEF IsFile
  <2> QED  BY <1>1, <1>5, <2>1, <2>2 DEF MeantUnits
<1> QED  BY <1>1, <1>2, <1>3, <1>6, <1>7

LEMMA GroupFixed ==
  ASSUME Fixed
  PROVE  GroupDiffers' <=> GroupDiffers
<1>1. argv' = argv /\ disk' = disk /\ config' = config /\ Reached' = Reached
  BY FixedFacts DEF Fixed
<1>2. \A m : PathSaid(m)' = PathSaid(m)
  BY <1>1, PathFixed
<1>3. \A v : IsFile(v)' = IsFile(v)
  BY <1>1 DEF IsFile
<1>4. \A p : MembersOf(p)' = MembersOf(p)
  BY <1>1 DEF MembersOf
<1>5. \A m : MemberPath(m, config)' = MemberPath(m, config)
  BY FixedFacts
<1> QED  BY <1>1, <1>2, <1>3, <1>4, <1>5 DEF GroupDiffers

\* Whatever is to come stays to come, where only the calls and the units found change.
LEMMA ResolvingFixed ==
  ASSUME argv' = argv, disk' = disk
  PROVE  /\ ResolvingAt(i', stack', units') => ResolvingAt(i, stack, units)'
         /\ Resolved(pc', units') => Resolved(pc, units)'
<1>1. /\ MeantUnits' = MeantUnits /\ InputsSaid' = InputsSaid /\ Meanings' = Meanings
      /\ \A n, paths : Answers(n, paths)' = Answers(n, paths)
      /\ \A n : PathsLeft(n)' = PathsLeft(n)
  BY MeaningFixed
<1>2. ASSUME NEW A, NEW n, NEW calls PROVE Levels(A, n, calls)' <=> Levels(A, n, calls)
  <2>1. Together(Answers(StackDepth - 1, PathsLeft(n)))' = Together(Answers(StackDepth - 1, PathsLeft(n)))
    <3>1. Answers(StackDepth - 1, PathsLeft(n))' = Answers(StackDepth - 1, PathsLeft(n))
      BY <1>1
    <3> QED  BY <3>1
  <2>2. \A j : Together(Answers(StackDepth - j, calls[j]))' = Together(Answers(StackDepth - j, calls[j]))
    <3>1. \A j : Answers(StackDepth - j, calls[j])' = Answers(StackDepth - j, calls[j])
      BY <1>1
    <3> QED  BY <3>1
  <2> QED  BY <1>1, <2>1, <2>2 DEF Levels
<1>3. ResolvingAt(i', stack', units') => ResolvingAt(i, stack, units)'
  BY <1>1, <1>2 DEF ResolvingAt, Coming
<1>4. Resolved(pc', units') => Resolved(pc, units)'
  BY <1>1 DEF Resolved
<1> QED  BY <1>3, <1>4

\* What a plain command line leads to, at each stage.
ResolvedSaid ==
  PlainLine =>
    /\ pc = "args" => ArgsAt(i, config)
    /\ pc \in {"inputs", "link"} => ConfigSaid(config, Len(argv))
    /\ ~GroupDiffers /\ pc = "inputs" => ResolvingAt(i, stack, units)
    /\ ~GroupDiffers /\ pc \in {"link", "failed", "overflow"} => Resolved(pc, units)

LEMMA ResolvedSaidInit == Init => ResolvedSaid
<1> SUFFICES ASSUME Init PROVE ResolvedSaid
  OBVIOUS
<1>1. pc = "args"
  BY DEF Init
<1> QED  BY <1>1, ArgsSaidInit DEF ResolvedSaid, ArgsSaid

LEMMA LineStays == Base /\ [Next]_vars => argv' = argv /\ disk' = disk
<1> SUFFICES ASSUME Base, [Next]_vars PROVE argv' = argv /\ disk' = disk
  OBVIOUS
<1>1. CASE Flag \/ Value \/ GluedValue \/ Ignored \/ Input \/ Help
  BY <1>1, ArgSteps
<1>2. CASE ArgsDone
  BY <1>2 DEF ArgsDone
<1>3. CASE Resolves
  BY <1>3, ResolvesFixed DEF Fixed
<1>4. CASE UNCHANGED vars
  BY <1>4 DEF vars
<1> QED  BY <1>1, <1>2, <1>3, <1>4 DEF Next, Resolves

LEMMA ResolvedSaidStep == Base /\ Chain /\ ResolvedSaid /\ [Next]_vars => ResolvedSaid'
<1> SUFFICES ASSUME Base, Chain, ResolvedSaid, [Next]_vars
             PROVE  ResolvedSaid'
  OBVIOUS
<1>1. argv' = argv /\ disk' = disk
  BY LineStays
<1> SUFFICES ASSUME PlainLine
             PROVE  (/\ pc = "args" => ArgsAt(i, config)
                     /\ pc \in {"inputs", "link"} => ConfigSaid(config, Len(argv))
                     /\ ~GroupDiffers /\ pc = "inputs" => ResolvingAt(i, stack, units)
                     /\ ~GroupDiffers /\ pc \in {"link", "failed", "overflow"} => Resolved(pc, units))'
  <2>1. PlainLine' <=> PlainLine
    BY <1>1, LineFixed
  <2> QED  BY <2>1 DEF ResolvedSaid
<1>2. IsValue' = IsValue /\ \A c, n : ConfigSaid(c, n)' <=> ConfigSaid(c, n)
  BY <1>1, LineFixed
<1>3. /\ ResolvingAt(i', stack', units') => ResolvingAt(i, stack, units)'
      /\ Resolved(pc', units') => Resolved(pc, units)'
  BY <1>1, ResolvingFixed
<1>4. ArgsAt(i', config') => ArgsAt(i, config)'
  BY <1>1, <1>2 DEF ArgsAt
<1>5. ConfigSaid(config', Len(argv)) => ConfigSaid(config, Len(argv))'
  BY <1>1, <1>2
<1>6. CASE Flag \/ Value \/ GluedValue \/ Ignored \/ Input \/ Help
  <2>1. i \in DOMAIN argv /\ pc = "args" /\ units' = units
    BY <1>6, ArgSteps
  <2>2. ArgsAt(i, config)
    BY <2>1 DEF ResolvedSaid
  <2>3. CASE pc' = "args" /\ (Reads \/ Passes \/ Sets \/ Adds)
    <3>1. ArgsAt(i', config')
      BY <2>1, <2>2, <2>3, ArgsNext
    <3> QED  BY <1>4, <2>3, <3>1
  <2>4. CASE CannotRead
    <3>1. Resolved(pc', units') /\ pc' = "failed"
      BY <2>1, <2>2, <2>4, CannotReadStep DEF CannotRead
    <3> QED  BY <1>3, <3>1
  <2>5. CASE pc' = "usage"
    BY <2>5
  <2> QED  BY <1>6, <2>3, <2>4, <2>5, ArgSteps
<1>7. CASE ArgsDone
  <2>1. pc = "args" /\ pc' \in {"smoke", "inputs"}
    BY <1>7 DEF ArgsDone
  <2>2. ConfigSaid(config', Len(argv)) /\ ResolvingAt(i', stack', units')
    <3>1. ArgsAt(i, config)
      BY <2>1 DEF ResolvedSaid
    <3> QED  BY <1>7, <2>1, <3>1, ArgsDoneStep
  <2> QED  BY <1>3, <1>5, <2>1, <2>2
<1>8. CASE Resolves
  <2>1. Fixed /\ pc = "inputs" /\ pc' \in {"inputs", "link", "failed", "overflow"}
    BY <1>8, ResolvesFixed
  <2>2. ConfigSaid(config, Len(argv)) /\ config' = config
    BY <2>1 DEF ResolvedSaid, Fixed
  <2>3. ConfigSaid(config, Len(argv))'
    BY <1>5, <2>2
  <2>4. ASSUME ~GroupDiffers
        PROVE  (pc' = "inputs" /\ ResolvingAt(i', stack', units')) \/ Resolved(pc', units')
    <3>1. ResolvingAt(i, stack, units)
      BY <2>1, <2>4 DEF ResolvedSaid
    <3>2. CASE NextInput
      <4>1. (pc' = "inputs" /\ ResolvingAt(i', stack', units')) \/ Resolved(pc', units)
        BY <2>2, <3>1, <3>2, NextInputStep
      <4>2. units' = units
        BY <3>2 DEF NextInput, Ended
      <4> QED  BY <4>1, <4>2
    <3>3. CASE TakeUnit
      BY <3>1, <3>3, TakeUnitStep
    <3>4. CASE CannotLoad
      <4>1. Resolved(pc', units) /\ units' = units
        BY <3>1, <3>4, CannotLoadStep DEF CannotLoad, Ended
      <4> QED  BY <4>1
    <3>5. CASE ExpandGroup
      <4>1. (pc' = "inputs" /\ ResolvingAt(i', stack', units')) \/ Resolved(pc', units)
        BY <2>4, <3>1, <3>5, ExpandGroupStep
      <4>2. units' = units
        BY <3>5 DEF ExpandGroup, Ended
      <4> QED  BY <4>1, <4>2
    <3>6. CASE Return
      BY <3>1, <3>6, ReturnStep
    <3>7. CASE InputsDone
      <4>1. Resolved(pc', units) /\ units' = units
        BY <2>2, <3>1, <3>7, InputsDoneStep DEF InputsDone, Ended
      <4> QED  BY <4>1
    <3> QED  BY <1>8, <3>2, <3>3, <3>4, <3>5, <3>6, <3>7 DEF Resolves
  <2>5. GroupDiffers' <=> GroupDiffers
    BY <2>1, GroupFixed
  <2>6. \A found : ~Resolved("inputs", found)
    BY DEF Resolved
  <2>7. ~GroupDiffers' /\ pc' = "inputs" => ResolvingAt(i, stack, units)'
    BY <1>3, <2>4, <2>5, <2>6
  <2>8. ~GroupDiffers' /\ pc' \in {"link", "failed", "overflow"} => Resolved(pc, units)'
    BY <1>3, <2>4, <2>5
  <2> QED  BY <2>1, <2>3, <2>7, <2>8
<1>9. CASE UNCHANGED vars
  <2>1. pc' = pc /\ i' = i /\ config' = config /\ stack' = stack /\ units' = units /\ Fixed
    BY <1>9 DEF vars, Fixed
  <2>2. GroupDiffers' <=> GroupDiffers
    BY <2>1, GroupFixed
  <2>3. pc' = "args" => ArgsAt(i, config)'
    BY <1>4, <2>1 DEF ResolvedSaid
  <2>4. pc' \in {"inputs", "link"} => ConfigSaid(config, Len(argv))'
    BY <1>5, <2>1 DEF ResolvedSaid
  <2>5. ~GroupDiffers' /\ pc' = "inputs" => ResolvingAt(i, stack, units)'
    BY <1>3, <2>1, <2>2 DEF ResolvedSaid
  <2>6. ~GroupDiffers' /\ pc' \in {"link", "failed", "overflow"} => Resolved(pc, units)'
    BY <1>3, <2>1, <2>2 DEF ResolvedSaid
  <2> QED  BY <2>3, <2>4, <2>5, <2>6
<1> QED  BY <1>6, <1>7, <1>8, <1>9 DEF Next, Resolves

LEMMA SaidIsSo ==
  ASSUME Base, ResolvedSaid
  PROVE  UnitsAsWritten
<1> SUFFICES ASSUME AtEnd, PlainLine, ~EntryDropped, ~GroupDiffers
             PROVE  Outcome = OutcomeSaid
  BY DEF UnitsAsWritten, PlainLine
<1>1. pc \in {"link", "failed", "overflow"} /\ Resolved(pc, units)
  BY DEF AtEnd, ResolvedSaid
<1> DEFINE out == LastOf(Values("-o"), "a.out")
           entry == IF Values("-e") = <<>> THEN EntrySaid ELSE <<Last(Values("-e"))>>
<1>2. OutcomeSaid = {[units |-> u, out |-> out, entry |-> entry] : u \in MeantUnits}
  BY DEF OutcomeSaid
<1>3. CASE pc = "link"
  <2>1. MeantUnits = {units}
    BY <1>1, <1>3 DEF Resolved
  <2>2. config.out = out /\ config.entry = entry
    <3>1. argv \in Seq([opt : STRING, val : STRING])
      BY BaseFacts
    <3>2. ConfigSaid(config, Len(argv))
      BY <1>3 DEF ResolvedSaid
    <3>3. \A opt : SoFar(opt, Len(argv)) = Values(opt)
      BY <3>1, SoFarFacts
    <3>4. config.out = out
      BY <3>2, <3>3, Zenon DEF ConfigSaid
    <3>5. config.entry = IF Values("-e") = <<>> THEN <<"_start">> ELSE <<Last(Values("-e"))>>
      <4>1. config.entry = IF SoFar("-e", Len(argv)) = <<>> THEN <<"_start">> ELSE <<Last(SoFar("-e", Len(argv)))>>
        BY <3>2, Zenon DEF ConfigSaid
      <4>2. SoFar("-e", Len(argv)) = Values("-e")
        BY <3>3
      <4> QED  BY <4>1, <4>2
    <3>6. Values("-e") = <<>> => EntrySaid = <<"_start">>
      BY DEF EntryDropped
    <3> QED  BY <3>4, <3>5, <3>6
  <2> HIDE DEF out, entry
  <2>3. Outcome = {[units |-> units, out |-> out, entry |-> entry]}
    BY <1>3, <2>2 DEF Outcome
  <2> QED  BY <1>2, <2>1, <2>3
<1>4. CASE pc # "link"
  <2>1. MeantUnits = {} /\ Outcome = {}
    BY <1>1, <1>4 DEF Resolved, Outcome
  <2> HIDE DEF out, entry
  <2> QED  BY <1>2, <2>1
<1> QED  BY <1>3, <1>4

\* The inputs are those that the command line says, each library the first one of the search order and each script
\* replaced by its members in order, under the output name and entry symbol it says, and where it says none the link
\* fails, for every invocation that uses none of the forms that are read otherwise (main.rs, libsearch.rs, linker.rs
\* resolve_path).
THEOREM InputsAreAsWritten == Spec => []UnitsAsWritten
<1>1. Init => Chain /\ ResolvedSaid
  <2> SUFFICES ASSUME Init PROVE Chain /\ ResolvedSaid
    OBVIOUS
  <2>1. stack = <<>>
    BY DEF Init
  <2> QED  BY <2>1, NestedEmpty, ResolvedSaidInit DEF Chain
<1>2. Base /\ (Chain /\ ResolvedSaid) /\ [Next]_vars => (Chain /\ ResolvedSaid)'
  BY ChainStep, ResolvedSaidStep
<1>3. Base /\ (Chain /\ ResolvedSaid) => UnitsAsWritten
  BY SaidIsSo
<1> QED  BY <1>1, <1>2, <1>3, BaseInvariant, PTL DEF Spec
-----------------------------------------------------------------------------
(***************************************************************************)
(* Linker scripts: where an input section goes.                            *)
(***************************************************************************)

LEMMA PrefixOfFront ==
  ASSUME NEW X, NEW s \in Seq(X), NEW t \in Seq(X), s # <<>>, IsPrefix(s, t)
  PROVE  IsPrefix(Front(s), t)
<1> DEFINE f == Front(s)
<1>1. Len(s) \in Nat \ {0} /\ Len(s) <= Len(t) /\ \A j \in 1..Len(s) : s[j] = t[j]
  BY DEF IsPrefix
<1>2. f \in Seq(X) /\ Len(f) = Len(s) - 1 /\ \A j \in 1..(Len(s) - 1) : f[j] = s[j]
  BY FrontFacts
<1> HIDE DEF f
<1>3. Len(f) <= Len(t) /\ \A j \in 1..Len(f) : f[j] = t[j]
  BY <1>1, <1>2
<1> QED  BY <1>2, <1>3 DEF IsPrefix, f

\* What a pattern without a star before it says of a name.
LEMMA SaidWhole ==
  ASSUME NEW X, NEW name \in Seq(X), NEW pat, ~pat.lead
  PROVE  SaidFor(pat, name) <=> IF pat.star THEN IsPrefix(pat.name, name) ELSE pat.name = name
<1>1. SubSeq(name, 1, Len(name)) = name
  OBVIOUS
<1> QED  BY <1>1 DEF SaidFor

\* What an unstarred pattern says of a name the starred one says too.
LEMMA SaidStarred ==
  ASSUME NEW X, NEW name \in Seq(X), NEW pat,
         IF pat.star THEN IsPrefix(pat.name, name) ELSE pat.name = name
  PROVE  SaidFor(pat, name)
<1>1. SubSeq(name, 1, Len(name)) = name /\ 1 \in 1..(Len(name) + 1)
  OBVIOUS
<1> QED  BY <1>1 DEF SaidFor

\* However the output sections of a script are read, as long as they are the said ones under dotted names with the
\* patterns that are taken, an input section goes where the script says, but for three kinds of names: those without the
\* dot of a ".*", those whose output section has a name without a dot, and those of which it speaks only in patterns
\* that are not taken (script.rs section_pattern_match, map_input_section).
THEOREM OnlyNamedFormsMisplace ==
  ASSUME NEW X, NEW name \in Seq(X), NEW parsed, NEW said,
         DOMAIN said \subseteq Nat,
         \A s \in DOMAIN said : \A pat \in said[s].patterns :
           pat \in [t : {"pat"}, lead : BOOLEAN, name : Seq(X), star : BOOLEAN],
         ReadAs(parsed, said),
         MapInputSection(parsed, name) # SaidPlace(said, name)
  PROVE  DotIgnored(said, name) \/ NotTaken(said, name) \/ Undotted(said, name)
<1> SUFFICES ASSUME ~DotIgnored(said, name), ~NotTaken(said, name), ~Undotted(said, name)
             PROVE  MapInputSection(parsed, name) = SaidPlace(said, name)
  OBVIOUS
<1> DEFINE Pats == [t : {"pat"}, lead : BOOLEAN, name : Seq(X), star : BOOLEAN]
           read == Matching(parsed, name)
           speaking == Speaking(said, name)
<1>1. DOMAIN parsed = DOMAIN said /\ read \subseteq DOMAIN said /\ speaking \subseteq DOMAIN said
  BY DEF ReadAs, Matching, Speaking
<1>2. read \subseteq speaking
  <2> SUFFICES ASSUME NEW s \in read PROVE s \in speaking
    OBVIOUS
  <2>1. PICK p \in parsed[s].patterns : PatternMatch(p, name)
    BY DEF Matching
  <2>2. PICK q \in said[s].patterns : p = Unstarred(q) /\ Taken(p)
    BY <1>1 DEF ReadAs
  <2>3. q \in Pats
    BY <1>1
  <2>4. p.name = q.name /\ p.star = q.star /\ q.name \in Seq(X) /\ q.name # <<>>
    BY <2>2, <2>3 DEF Unstarred, Taken
  <2>5. ~(q.star /\ Last(q.name) = "." /\ IsPrefix(Front(q.name), name) /\ ~IsPrefix(q.name, name))
    BY <1>1, <2>4 DEF DotIgnored
  <2>6. IF q.star THEN IsPrefix(q.name, name) ELSE q.name = name
    BY <2>1, <2>4, <2>5, Zenon DEF PatternMatch
  <2>7. SaidFor(q, name)
    BY <2>6, SaidStarred
  <2> QED  BY <1>1, <2>7 DEF Speaking
<1>3. ASSUME NEW s \in speaking, \A t \in speaking : s <= t PROVE s \in read
  <2>1. PICK q \in said[s].patterns : SaidFor(q, name) /\ Taken(q)
    BY <1>3 DEF NotTaken
  <2>2. q \in Pats /\ ~q.lead /\ q.name # <<>> /\ q.name \in Seq(X)
    BY <1>1, <2>1 DEF Taken
  <2>3. q \in parsed[s].patterns
    BY <1>1, <2>1 DEF ReadAs
  <2>4. IF q.star THEN IsPrefix(q.name, name) ELSE q.name = name
    BY <2>1, <2>2, SaidWhole
  <2>5. IsPrefix(q.name, name) => IsPrefix(Front(q.name), name)
    <3> DEFINE n == q.name
    <3>1. n \in Seq(X) /\ n # <<>>
      BY <2>2
    <3> HIDE DEF n
    <3>2. IsPrefix(n, name) => IsPrefix(Front(n), name)
      BY <3>1, PrefixOfFront
    <3> QED  BY <3>2 DEF n
  <2>6. PatternMatch(q, name)
    BY <2>4, <2>5, Zenon DEF PatternMatch
  <2> QED  BY <1>1, <2>3, <2>6 DEF Matching
<1>4. CASE speaking = {}
  <2>1. read = {}
    BY <1>2, <1>4
  <2> QED  BY <1>4, <2>1, Zenon DEF MapInputSection, SaidPlace
<1>5. CASE speaking # {}
  <2>1. speaking \in SUBSET Nat
    BY <1>1
  <2>2. PICK s \in speaking : \A t \in speaking : s <= t
    <3> HIDE DEF speaking
    <3> QED  BY <1>5, <2>1, Least
  <2>3. s \in read
    BY <1>3, <2>2
  <2>4. \A some \in SUBSET speaking : s \in some =>
          (CHOOSE r \in some : \A t \in some : r <= t) = s
    <3> HIDE DEF speaking
    <3> TAKE some \in SUBSET speaking
    <3> HAVE s \in some
    <3> DEFINE c == CHOOSE r \in some : \A t \in some : r <= t
    <3>1. c \in some /\ \A t \in some : c <= t
      BY <2>2, Zenon
    <3>2. c <= s /\ s <= c /\ c \in Nat /\ s \in Nat
      BY <2>1, <2>2, <3>1
    <3> HIDE DEF c
    <3>3. c = s
      BY <3>2
    <3> QED  BY <3>3 DEF c
  <2>5. MapInputSection(parsed, name) = parsed[s].name
    <3>1. read # {} /\ (CHOOSE r \in read : \A t \in read : r <= t) = s
      BY <1>2, <2>3, <2>4
    <3> QED  BY <3>1, Zenon DEF MapInputSection, First
  <2>6. SaidPlace(said, name) = said[s].name
    <3>1. (CHOOSE r \in speaking : \A t \in speaking : r <= t) = s
      BY <2>2, <2>4
    <3> QED  BY <1>5, <3>1, Zenon DEF SaidPlace, First
  <2>7. parsed[s].name = Dotted(said[s].name) /\ s \in DOMAIN said
    BY <1>1 DEF ReadAs
  <2>8. Dotted(said[s].name) = said[s].name
    BY <2>6, <2>7, Zenon DEF Undotted
  <2> QED  BY <2>5, <2>6, <2>7, <2>8
<1> QED  BY <1>4, <1>5
=============================================================================
