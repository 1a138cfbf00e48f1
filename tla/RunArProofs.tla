----------------------------- MODULE RunArProofs -----------------------------
(***************************************************************************)
(* Proofs about RunAr: oxide-ar on one archive, for any number of          *)
(* invocations, any command lines and any archives.                        *)
(***************************************************************************)
EXTENDS RunAr, FiniteSetTheorems, WellFoundedInduction, TLAPS

-----------------------------------------------------------------------------
(***************************************************************************)
(* Counting up, and functions defined by counting up.                      *)
(***************************************************************************)

\* Every non-empty set of naturals has a least element.
LEMMA Least ==
  ASSUME NEW T \in SUBSET Nat, T # {}
  PROVE  \E m \in T : \A x \in T : m <= x
<1> DEFINE R == {ss \in Nat \X Nat : ss[1] < ss[2]}
<1>1. IsWellFoundedOn(R, Nat)
  BY NatLessThanWellFounded, Zenon DEF OpToRel
<1>2. PICK m \in T : \A y \in T : <<y, m>> \notin R
  <2> HIDE DEF R
  <2> QED  BY <1>1, WFMin, Zenon
<1>3. \A y \in T : ~(y < m)
  BY <1>2
<1> QED  BY <1>3

\* What holds of 0 and passes from each number to the next holds up to n.
LEMMA CountUp ==
  ASSUME NEW n \in Nat, NEW S, 0 \in S, \A i \in 1..n : i - 1 \in S => i \in S
  PROVE  \A i \in 0..n : i \in S
<1> DEFINE T == (0..n) \ S
<1> SUFFICES ASSUME T # {} PROVE FALSE
  OBVIOUS
<1>1. PICK m \in T : \A x \in T : m <= x
  <2>1. T \in SUBSET Nat
    OBVIOUS
  <2> HIDE DEF T
  <2> QED  BY <2>1, Least
<1>2. m \in 1..n /\ m - 1 \notin T
  BY <1>1
<1> QED  BY <1>1, <1>2

\* h iterates a step n times.
IsStep(step, n, V) == step \in [V \X (1..n) -> V]
Iterates(h, n, V, base, step) ==
  h \in [0..n -> V] /\ h[0] = base /\ \A i \in 1..n : h[i] = step[<<h[i - 1], i>>]

\* A step can be iterated.
LEMMA Iterate ==
  ASSUME NEW n \in Nat, NEW V, NEW base \in V, NEW step, IsStep(step, n, V)
  PROVE  \E h : Iterates(h, n, V, base, step)
<1> USE DEF IsStep
<1> DEFINE Solves(h, m) ==
      h \in [0..m -> V] /\ h[0] = base /\ \A i \in 1..m : h[i] = step[<<h[i - 1], i>>]
           S == {m \in 0..n : \E h : Solves(h, m)}
<1>1. 0 \in S
  <2>1. Solves([i \in 0..0 |-> base], 0)
    OBVIOUS
  <2> HIDE DEF Solves
  <2> QED  BY <2>1
<1>2. ASSUME NEW m \in 1..n, m - 1 \in S
      PROVE  m \in S
  <2>1. PICK h : Solves(h, m - 1)
    BY <1>2
  <2> DEFINE g == [i \in 0..m |-> IF i = m THEN step[<<h[m - 1], m>>] ELSE h[i]]
  <2>2. h[m - 1] \in V
    BY <2>1
  <2>3. \A i \in 0..(m - 1) : g[i] = h[i]
    OBVIOUS
  <2>4. g[m] = step[<<h[m - 1], m>>] /\ g[m] \in V
    BY <2>2
  <2>5. g \in [0..m -> V] /\ g[0] = base
    BY <2>1, <2>2
  <2>6. ASSUME NEW i \in 1..m PROVE g[i] = step[<<g[i - 1], i>>]
    <3>1. CASE i = m
      <4>1. m - 1 \in 0..(m - 1)
        OBVIOUS
      <4>2. g[m - 1] = h[m - 1]
        BY <2>3, <4>1
      <4> HIDE DEF g
      <4> QED  BY <2>4, <3>1, <4>2
    <3>2. CASE i # m
      <4>1. i \in 1..(m - 1) /\ i \in 0..(m - 1) /\ i - 1 \in 0..(m - 1)
        BY <3>2
      <4> HIDE DEF g
      <4> QED  BY <2>1, <2>3, <4>1
    <3> QED  BY <3>1, <3>2
  <2> HIDE DEF g
  <2>7. Solves(g, m)
    BY <2>5, <2>6
  <2> HIDE DEF Solves
  <2> QED  BY <2>7
<1> HIDE DEF S
<1>3. \A i \in 0..n : i \in S
  BY <1>1, <1>2, CountUp
<1> USE DEF S
<1> QED  BY SMTT(30), <1>3 DEF Iterates
-----------------------------------------------------------------------------
(***************************************************************************)
(* Only: the members of some names.                                        *)
(***************************************************************************)

\* One element more or not.
Selects(f, ms, names) ==
  /\ f \in [0..Len(ms) -> Seq(Member)] /\ f[0] = <<>>
  /\ \A i \in 1..Len(ms) :
       f[i] = IF ms[i].name \in names THEN Append(f[i - 1], ms[i]) ELSE f[i - 1]

\* The recursion of Only has a solution.
LEMMA OnlySelects ==
  ASSUME NEW ms \in Seq(Member), NEW names
  PROVE  \E f : Selects(f, ms, names) /\ Only(ms, names) = f[Len(ms)]
<1> DEFINE n == Len(ms)
           V == Seq(Member)
           step == [x \in V \X (1..n) |-> IF ms[x[2]].name \in names THEN Append(x[1], ms[x[2]]) ELSE x[1]]
           Unfolds(f) == f = [i \in 0..Len(ms) |->
                                IF i = 0 THEN <<>>
                                ELSE IF ms[i].name \in names THEN Append(f[i - 1], ms[i]) ELSE f[i - 1]]
<1>1. n \in Nat /\ \A i \in 1..n : ms[i] \in Member
  OBVIOUS
<1>2. <<>> \in V /\ IsStep(step, n, V)
  BY <1>1 DEF IsStep
<1>3. PICK h : Iterates(h, n, V, <<>>, step)
  <2>1. n \in Nat
    BY <1>1
  <2> HIDE DEF V, step, n
  <2> QED  BY <1>2, <2>1, Iterate
<1> USE DEF Iterates
<1>4. ASSUME NEW i \in 1..n
      PROVE  h[i] = IF ms[i].name \in names THEN Append(h[i - 1], ms[i]) ELSE h[i - 1]
  <2>1. h[i - 1] \in V
    BY <1>3
  <2> QED  BY <1>3, <2>1
<1> HIDE DEF step
<1>5. Unfolds(h)
  <2>1. DOMAIN h = 0..Len(ms) /\ h[0] = <<>>
    BY <1>3
  <2>2. \A i \in 0..Len(ms) : i # 0 => i \in 1..n
    BY <1>1
  <2>3. h = [i \in 0..Len(ms) |-> h[i]]
    BY <1>3
  <2> QED  BY <1>4, <2>1, <2>2, <2>3
<1> DEFINE f == CHOOSE f : Unfolds(f)
<1>6. Only(ms, names) = f[Len(ms)]
  BY DEF Only
<1>7. Unfolds(f)
  <2> HIDE DEF Unfolds
  <2> QED  BY <1>5
<1> HIDE DEF f
<1> DEFINE S == {i \in 0..n : f[i] = h[i]}
<1>8. \A i \in 0..n : i \in S
  <2>1. 0 \in S
    BY <1>1, <1>3, <1>7
  <2>2. ASSUME NEW i \in 1..n, i - 1 \in S PROVE i \in S
    <3>1. i \in 0..Len(ms) /\ i # 0 /\ f[i - 1] = h[i - 1]
      BY <1>1, <2>2
    <3>2. f[i] = IF ms[i].name \in names THEN Append(f[i - 1], ms[i]) ELSE f[i - 1]
      BY <1>7, <3>1
    <3> QED  BY <1>4, <3>1, <3>2
  <2> HIDE DEF S, n
  <2> QED  BY <1>1, <2>1, <2>2, CountUp
<1>9. f[Len(ms)] = h[Len(ms)]
  BY <1>1, <1>8
<1>10. Selects(h, ms, names)
  BY <1>3, <1>4 DEF Selects
<1> QED  BY <1>6, <1>9, <1>10

\* The first members are the same, or of names that are not taken.
Agree(ms, ns, n, names) ==
  /\ n \in Nat /\ n <= Len(ms) /\ n <= Len(ns)
  /\ \A i \in 1..n : ms[i] = ns[i] \/ (ms[i].name \notin names /\ ns[i].name \notin names)

\* What Only takes from the first members depends on what it takes of them.
LEMMA SelectsSame ==
  ASSUME NEW names, NEW ms \in Seq(Member), NEW ns \in Seq(Member), NEW f, NEW g,
         Selects(f, ms, names), Selects(g, ns, names),
         NEW n, Agree(ms, ns, n, names)
  PROVE  f[n] = g[n]
<1> USE DEF Agree
<1> DEFINE S == {i \in 0..n : f[i] = g[i]}
<1>1. 0 \in S
  BY DEF Selects
<1>2. ASSUME NEW i \in 1..n, i - 1 \in S PROVE i \in S
  <2>1. i \in 1..Len(ms) /\ i \in 1..Len(ns) /\ f[i - 1] = g[i - 1]
    BY <1>2
  <2>2. f[i] = g[i]
    BY <2>1 DEF Selects
  <2> QED  BY <2>2
<1>3. \A i \in 0..n : i \in S
  <2> HIDE DEF S
  <2> QED  BY <1>1, <1>2, CountUp
<1> QED  BY <1>3

\* One more member.
LEMMA OnlyAppend ==
  ASSUME NEW ms \in Seq(Member), NEW m \in Member, NEW names
  PROVE  Only(Append(ms, m), names) =
           IF m.name \in names THEN Append(Only(ms, names), m) ELSE Only(ms, names)
<1> DEFINE ns == Append(ms, m)
<1>1. /\ ns \in Seq(Member) /\ Len(ns) = Len(ms) + 1 /\ ns[Len(ms) + 1] = m
      /\ \A i \in 1..Len(ms) : ns[i] = ms[i]
  OBVIOUS
<1>2. PICK f : Selects(f, ms, names) /\ Only(ms, names) = f[Len(ms)]
  BY OnlySelects
<1> HIDE DEF ns
<1>3. PICK g : Selects(g, ns, names) /\ Only(ns, names) = g[Len(ns)]
  BY <1>1, OnlySelects
<1>4. f[Len(ms)] = g[Len(ms)]
  <2>1. Len(ms) \in Nat /\ Len(ms) <= Len(ms) /\ Len(ms) <= Len(ns)
    BY <1>1
  <2>2. \A i \in 1..Len(ms) : ms[i] = ns[i] \/ (ms[i].name \notin names /\ ns[i].name \notin names)
    BY <1>1
  <2>3. Agree(ms, ns, Len(ms), names)
    BY <2>1, <2>2 DEF Agree
  <2> QED  BY <1>1, <1>2, <1>3, <2>3, SelectsSame
<1>5. g[Len(ns)] = IF m.name \in names THEN Append(g[Len(ms)], m) ELSE g[Len(ms)]
  BY <1>1, <1>3 DEF Selects
<1> QED  BY <1>2, <1>3, <1>4, <1>5 DEF ns

\* No member.
LEMMA OnlyEmpty ==
  ASSUME NEW names
  PROVE  Only(<<>>, names) = <<>>
<1>1. <<>> \in Seq(Member) /\ Len(<<>>) = 0
  OBVIOUS
<1> DEFINE none == <<>>
<1> HIDE DEF none
<1>2. PICK f : Selects(f, <<>>, names) /\ Only(<<>>, names) = f[Len(<<>>)]
  BY <1>1, OnlySelects
<1> QED  BY <1>1, <1>2 DEF Selects

\* Only takes members, not more than there are, and not more of a name.
LEMMA OnlyTakes ==
  ASSUME NEW ms \in Seq(Member), NEW names
  PROVE  /\ Only(ms, names) \in Seq(Member) /\ Len(Only(ms, names)) <= Len(ms)
         /\ \A n \in Names : Cardinality(Named(Only(ms, names), n)) <= Cardinality(Named(ms, n))
<1>1. PICK f : Selects(f, ms, names) /\ Only(ms, names) = f[Len(ms)]
  BY OnlySelects
<1>2. Only(ms, names) \in Seq(Member) /\ Len(Only(ms, names)) <= Len(ms)
  <2> DEFINE S == {i \in 0..Len(ms) : Len(f[i]) <= i}
  <2>1. 0 \in S
    BY <1>1 DEF Selects
  <2>2. ASSUME NEW i \in 1..Len(ms), i - 1 \in S PROVE i \in S
    <3>1. f[i - 1] \in Seq(Member) /\ Len(f[i - 1]) <= i - 1 /\ ms[i] \in Member
      BY <1>1, <2>2 DEF Selects
    <3>2. f[i] = Append(f[i - 1], ms[i]) \/ f[i] = f[i - 1]
      BY <1>1 DEF Selects
    <3> QED  BY <3>1, <3>2
  <2>3. \A i \in 0..Len(ms) : i \in S
    <3>1. Len(ms) \in Nat
      OBVIOUS
    <3> HIDE DEF S
    <3> QED  BY <2>1, <2>2, <3>1, CountUp
  <2> QED  BY <1>1, <2>3 DEF Selects
<1>3. ASSUME NEW n \in Names
      PROVE  Cardinality(Named(Only(ms, names), n)) <= Cardinality(Named(ms, n))
  <2> DEFINE Before(i) == {j \in 1..i : ms[j].name = n}
             S == {i \in 0..Len(ms) : Cardinality(Named(f[i], n)) <= Cardinality(Before(i))}
  <2>1. 0 \in S
    <3>1. Named(f[0], n) = {} /\ Before(0) = {}
      BY <1>1 DEF Selects, Named
    <3>2. Len(ms) \in Nat /\ Cardinality({}) = 0
      BY FS_EmptySet
    <3>3. Cardinality(Named(f[0], n)) <= Cardinality(Before(0))
      <4> HIDE DEF Before
      <4>1. Cardinality(Named(f[0], n)) = 0 /\ Cardinality(Before(0)) = 0
        BY <3>1, <3>2, Zenon
      <4> QED  BY <4>1
    <3> QED  BY <3>2, <3>3
  <2>2. ASSUME NEW i \in 1..Len(ms), i - 1 \in S PROVE i \in S
    <3>1. f[i - 1] \in Seq(Member) /\ ms[i] \in Member
      BY <1>1 DEF Selects
    <3>2. IsFiniteSet(Named(f[i - 1], n)) /\ IsFiniteSet(Before(i - 1))
      <4>1. IsFiniteSet(1..Len(f[i - 1])) /\ IsFiniteSet(1..(i - 1))
        <5>1. Len(f[i - 1]) \in Nat
          BY <3>1
        <5> QED  BY <5>1, FS_Interval
      <4>2. Named(f[i - 1], n) \subseteq 1..Len(f[i - 1])
        BY <3>1 DEF Named
      <4> QED  BY <4>1, <4>2, FS_Subset
    <3>3. Before(i) = IF ms[i].name = n THEN Before(i - 1) \cup {i} ELSE Before(i - 1)
      OBVIOUS
    <3>4. \/ f[i] = f[i - 1]
          \/ f[i] = Append(f[i - 1], ms[i])
      BY <1>1 DEF Selects
    <3>5. f[i] = Append(f[i - 1], ms[i]) =>
            Named(f[i], n) = IF ms[i].name = n THEN Named(f[i - 1], n) \cup {Len(f[i - 1]) + 1}
                             ELSE Named(f[i - 1], n)
      BY <3>1 DEF Named
    <3>6. i \notin Before(i - 1) /\ Len(f[i - 1]) + 1 \notin Named(f[i - 1], n)
      BY <3>1 DEF Named
    <3>7. Cardinality(Before(i)) =
            IF ms[i].name = n THEN Cardinality(Before(i - 1)) + 1 ELSE Cardinality(Before(i - 1))
      <4> HIDE DEF Before
      <4> QED  BY <3>2, <3>3, <3>6, FS_AddElement
    <3>8. \/ Cardinality(Named(f[i], n)) = Cardinality(Named(f[i - 1], n))
          \/ /\ ms[i].name = n
             /\ Cardinality(Named(f[i], n)) = Cardinality(Named(f[i - 1], n)) + 1
      BY <3>2, <3>4, <3>5, <3>6, FS_AddElement
    <3>9. Cardinality(Named(f[i - 1], n)) \in Nat /\ Cardinality(Before(i - 1)) \in Nat
      BY <3>2, FS_CardinalityType
    <3> HIDE DEF Before
    <3> QED  BY <2>2, <3>7, <3>8, <3>9
  <2>3. \A i \in 0..Len(ms) : i \in S
    <3>1. Len(ms) \in Nat
      OBVIOUS
    <3> HIDE DEF S
    <3> QED  BY <2>1, <2>2, <3>1, CountUp
  <2>4. Before(Len(ms)) = Named(ms, n)
    BY DEF Named
  <2> HIDE DEF Before
  <2> QED  BY <1>1, <2>3, <2>4
<1> QED  BY <1>2, <1>3

\* Taking fewer names of what was taken.
LEMMA OnlyOnly ==
  ASSUME NEW ms \in Seq(Member), NEW all, NEW names, names \subseteq all
  PROVE  Only(Only(ms, all), names) = Only(ms, names)
<1>1. PICK f : Selects(f, ms, all) /\ Only(ms, all) = f[Len(ms)]
  BY OnlySelects
<1>2. PICK g : Selects(g, ms, names) /\ Only(ms, names) = g[Len(ms)]
  BY OnlySelects
<1> DEFINE S == {i \in 0..Len(ms) : Only(f[i], names) = g[i]}
<1>3. 0 \in S
  BY <1>1, <1>2, OnlyEmpty DEF Selects
<1>4. ASSUME NEW i \in 1..Len(ms), i - 1 \in S PROVE i \in S
  <2>1. f[i - 1] \in Seq(Member) /\ ms[i] \in Member /\ Only(f[i - 1], names) = g[i - 1]
    BY <1>1, <1>4 DEF Selects
  <2>2. f[i] = IF ms[i].name \in all THEN Append(f[i - 1], ms[i]) ELSE f[i - 1]
    BY <1>1 DEF Selects
  <2>3. g[i] = IF ms[i].name \in names THEN Append(g[i - 1], ms[i]) ELSE g[i - 1]
    BY <1>2 DEF Selects
  <2>4. Only(Append(f[i - 1], ms[i]), names) =
          IF ms[i].name \in names THEN Append(Only(f[i - 1], names), ms[i]) ELSE Only(f[i - 1], names)
    BY ZenonT(30), <2>1, OnlyAppend
  <2>5. Only(f[i], names) = g[i]
    BY <2>1, <2>2, <2>3, <2>4
  <2> QED  BY <2>5
<1>5. \A i \in 0..Len(ms) : i \in S
  <2>1. Len(ms) \in Nat
    OBVIOUS
  <2> HIDE DEF S
  <2> QED  BY <1>3, <1>4, <2>1, CountUp
<1> QED  BY <1>1, <1>2, <1>5
-----------------------------------------------------------------------------
(***************************************************************************)
(* ReplaceOrAdd, for one file and for all files of a command line.         *)
(***************************************************************************)

\* The greatest of some positions.
LEMMA MaxOf ==
  ASSUME NEW n \in Nat, NEW s \in SUBSET (1..n), s # {}
  PROVE  Max(s) \in s /\ \A x \in s : x <= Max(s)
<1> DEFINE D == {n - x : x \in s}
<1>1. D \in SUBSET Nat /\ D # {}
  <2>1. \A x \in s : n - x \in Nat
    OBVIOUS
  <2>2. PICK x \in s : TRUE
    OBVIOUS
  <2> QED  BY <2>1, <2>2
<1>2. PICK d \in D : \A x \in D : d <= x
  <2> HIDE DEF D
  <2> QED  BY <1>1, Least
<1>3. PICK m \in s : d = n - m
  OBVIOUS
<1>4. \A x \in s : n - x \in D
  OBVIOUS
<1>5. \A x \in s : m >= x
  <2>1. \A x \in s : x \in Nat
    OBVIOUS
  <2> HIDE DEF D
  <2> QED  BY <1>2, <1>3, <1>4, <2>1
<1>6. Max(s) \in s /\ \A x \in s : Max(s) >= x
  BY <1>5 DEF Max
<1>7. \A x \in s : x \in Nat
  OBVIOUS
<1> QED  BY <1>6, <1>7

\* The first of the members of a name.
LEMMA MinNamed ==
  ASSUME NEW ms \in Seq(Member), NEW n, Named(ms, n) # {}
  PROVE  /\ Min(Named(ms, n)) \in DOMAIN ms
         /\ ms[Min(Named(ms, n))].name = n
<1>1. Named(ms, n) \in SUBSET Nat
  BY DEF Named
<1>2. PICK m \in Named(ms, n) : \A x \in Named(ms, n) : m <= x
  BY <1>1, Least
<1>3. Min(Named(ms, n)) \in Named(ms, n)
  BY <1>2 DEF Min
<1> QED  BY <1>3 DEF Named

\* One file: a new member at the end, or another one of the same name.
LEMMA ReplaceOrAddCases ==
  ASSUME NEW ms \in Seq(Member), NEW a \in Paths
  PROVE  /\ NewMember(a) \in Member /\ NewMember(a).name = Base[a]
         /\ ReplaceOrAdd(ms, a) \in Seq(Member)
         /\ \/ Named(ms, Base[a]) = {} /\ ReplaceOrAdd(ms, a) = Append(ms, NewMember(a))
            \/ \E i \in DOMAIN ms : /\ ms[i].name = Base[a]
                                   /\ ReplaceOrAdd(ms, a) = [ms EXCEPT ![i] = NewMember(a)]
<1>1. NewMember(a) \in Member /\ NewMember(a).name = Base[a]
  BY BaseAssumption DEF NewMember, Member
<1>2. CASE Named(ms, Base[a]) = {}
  BY <1>1, <1>2 DEF ReplaceOrAdd
<1>3. CASE Named(ms, Base[a]) # {}
  <2> DEFINE i == Min(Named(ms, Base[a]))
  <2>1. i \in DOMAIN ms /\ ms[i].name = Base[a]
    BY <1>3, MinNamed
  <2>2. ReplaceOrAdd(ms, a) = [ms EXCEPT ![i] = NewMember(a)]
    BY <1>3 DEF ReplaceOrAdd
  <2> HIDE DEF i
  <2>3. [ms EXCEPT ![i] = NewMember(a)] \in Seq(Member)
    BY <1>1, <2>1
  <2> QED  BY <1>1, <2>1, <2>2, <2>3
<1> QED  BY <1>2, <1>3

\* FoldLeft as recursion over the sets of positions, the last position first.
Folds(g, n, base, paths) ==
  g = [s \in SUBSET (1..n) |->
         IF s = {} THEN base ELSE ReplaceOrAdd(g[s \ {Max(s)}], paths[Max(s)])]

\* The recursion of FoldLeft has a solution.
LEMMA FoldsExists ==
  ASSUME NEW base, NEW paths, NEW n \in Nat
  PROVE  \E g : Folds(g, n, base, paths)
<1> DEFINE S == {m \in 0..n : \E g : Folds(g, m, base, paths)}
<1>1. 0 \in S
  <2> DEFINE g == [s \in SUBSET (1..0) |-> base]
  <2>1. \A s \in SUBSET (1..0) : s = {}
    OBVIOUS
  <2>2. g = [s \in SUBSET (1..0) |->
               IF s = {} THEN base ELSE ReplaceOrAdd(g[s \ {Max(s)}], paths[Max(s)])]
    BY <2>1, Zenon
  <2> HIDE DEF g
  <2>3. Folds(g, 0, base, paths)
    BY <2>2 DEF Folds
  <2> QED  BY <2>3
<1>2. ASSUME NEW m \in 1..n, m - 1 \in S PROVE m \in S
  <2>1. PICK g : Folds(g, m - 1, base, paths)
    BY <1>2
  <2> DEFINE f == [s \in SUBSET (1..m) |->
                     IF m \in s THEN ReplaceOrAdd(g[s \ {m}], paths[m]) ELSE g[s]]
             Unfolded(s) == IF s = {} THEN base ELSE ReplaceOrAdd(f[s \ {Max(s)}], paths[Max(s)])
  <2>2. \A s \in SUBSET (1..(m - 1)) :
          s \in SUBSET (1..m) /\ m \notin s
    OBVIOUS
  <2>3. \A s \in SUBSET (1..(m - 1)) : f[s] = g[s]
    BY <2>2
  <2>4. ASSUME NEW s \in SUBSET (1..m) PROVE f[s] = Unfolded(s)
    <3>1. CASE m \in s
      <4>1. Max(s) \in s /\ \A x \in s : x <= Max(s)
        BY <3>1, MaxOf
      <4>2. Max(s) = m
        <5>1. Max(s) \in 1..m /\ m <= Max(s)
          BY <3>1, <4>1
        <5> QED  BY <5>1
      <4>3. s \ {m} \in SUBSET (1..(m - 1))
        OBVIOUS
      <4>4. f[s] = ReplaceOrAdd(g[s \ {m}], paths[m])
        BY <3>1
      <4>5. f[s \ {m}] = g[s \ {m}]
        BY <2>3, <4>3
      <4> HIDE DEF f
      <4> QED  BY <3>1, <4>2, <4>4, <4>5
    <3>2. CASE m \notin s
      <4>1. s \in SUBSET (1..(m - 1))
        BY <3>2
      <4>2. f[s] = g[s]
        BY <2>3, <4>1
      <4>3. g[s] = IF s = {} THEN base ELSE ReplaceOrAdd(g[s \ {Max(s)}], paths[Max(s)])
        BY <2>1, <4>1, Zenon DEF Folds
      <4>4. f[s \ {Max(s)}] = g[s \ {Max(s)}]
        <5>1. s \ {Max(s)} \in SUBSET (1..(m - 1))
          BY <4>1
        <5> HIDE DEF f
        <5> QED  BY <2>3, <5>1
      <4> HIDE DEF f
      <4> QED  BY <4>2, <4>3, <4>4
    <3> QED  BY <3>1, <3>2
  <2>5. f = [s \in SUBSET (1..m) |-> f[s]]
    OBVIOUS
  <2> HIDE DEF f
  <2>6. f = [s \in SUBSET (1..m) |-> Unfolded(s)]
    <3> HIDE DEF Unfolded
    <3> QED  BY <2>4, <2>5
  <2>7. Folds(f, m, base, paths)
    BY <2>6, Zenon DEF Folds
  <2> QED  BY <2>7
<1>3. \A i \in 0..n : i \in S
  <2> HIDE DEF S
  <2> QED  BY <1>1, <1>2, CountUp
<1> QED  BY <1>3

\* add_file for one path after the other.
Replaces(h, base, paths) ==
  /\ h \in [0..Len(paths) -> Seq(Member)] /\ h[0] = base
  /\ \A i \in 1..Len(paths) : h[i] = ReplaceOrAdd(h[i - 1], paths[i])

\* The fold goes through the paths in their order.
LEMMA FoldReplaces ==
  ASSUME NEW base \in Seq(Member), NEW paths \in Seq(Paths)
  PROVE  \E h : Replaces(h, base, paths) /\ FoldLeft(ReplaceOrAdd, base, paths) = h[Len(paths)]
<1> DEFINE n == Len(paths)
           D == DOMAIN paths
           Unfolds(g) == g = [s \in SUBSET D |->
                                IF s = {} THEN base ELSE ReplaceOrAdd(g[s \ {Max(s)}], paths[Max(s)])]
           g == CHOOSE g : Unfolds(g)
           h == [i \in 0..n |-> g[1..i]]
<1>1. n \in Nat /\ D = 1..n /\ \A i \in 1..n : paths[i] \in Paths
  OBVIOUS
<1>2. FoldLeft(ReplaceOrAdd, base, paths) = g[D]
  BY Zenon DEF FoldLeft, MapThenFoldSet
<1>3. Unfolds(g)
  <2>1. \E f : Folds(f, n, base, paths)
    BY <1>1, FoldsExists
  <2>2. \E f : Unfolds(f)
    <3> HIDE DEF D, n
    <3> QED  BY <1>1, <2>1, Zenon DEF Folds
  <2> HIDE DEF Unfolds
  <2> QED  BY <2>2
<1> HIDE DEF g, D
<1>4. \A s \in SUBSET (1..n) :
        g[s] = IF s = {} THEN base ELSE ReplaceOrAdd(g[s \ {Max(s)}], paths[Max(s)])
  BY <1>1, <1>3, Zenon
<1>5. ASSUME NEW i \in 1..n PROVE g[1..i] = ReplaceOrAdd(g[1..(i - 1)], paths[i])
  <2>1. 1..i \in SUBSET (1..n) /\ 1..i # {} /\ i \in 1..i
    <3>1. i \in 1..i /\ \A x \in 1..i : x \in 1..n
      BY <1>1
    <3> QED  BY <3>1, Zenon
  <2>2. Max(1..i) \in 1..i /\ \A x \in 1..i : x <= Max(1..i)
    BY <1>1, <2>1, MaxOf
  <2>3. Max(1..i) = i
    BY <2>1, <2>2
  <2>4. (1..i) \ {i} = 1..(i - 1)
    OBVIOUS
  <2> QED  BY <1>4, <2>1, <2>3, <2>4, Zenon
<1>6. g[1..0] = base
  <2>1. 1..0 \in SUBSET (1..n) /\ 1..0 = {}
    OBVIOUS
  <2> QED  BY <1>4, <2>1, Zenon
<1> DEFINE S == {i \in 0..n : g[1..i] \in Seq(Member)}
<1>7. \A i \in 0..n : i \in S
  <2>1. 0 \in S
    BY <1>1, <1>6
  <2>2. ASSUME NEW i \in 1..n, i - 1 \in S PROVE i \in S
    <3>1. g[1..(i - 1)] \in Seq(Member) /\ paths[i] \in Paths
      BY <1>1, <2>2
    <3>2. ReplaceOrAdd(g[1..(i - 1)], paths[i]) \in Seq(Member)
      BY <3>1, ReplaceOrAddCases, Zenon
    <3>3. g[1..i] \in Seq(Member)
      BY <1>5, <3>2, Zenon
    <3> QED  BY <3>3
  <2> HIDE DEF S, n
  <2> QED  BY <1>1, <2>1, <2>2, CountUp
<1>8. Replaces(h, base, paths)
  <2>1. h \in [0..n -> Seq(Member)]
    BY <1>7
  <2>2. h[0] = base
    BY <1>1, <1>6
  <2>3. ASSUME NEW i \in 1..n PROVE h[i] = ReplaceOrAdd(h[i - 1], paths[i])
    <3>1. i \in 0..n /\ i - 1 \in 0..n
      OBVIOUS
    <3>2. h[i] = g[1..i] /\ h[i - 1] = g[1..(i - 1)]
      BY <3>1
    <3> QED  BY <1>5, <3>2
  <2> QED  BY <2>1, <2>2, <2>3 DEF Replaces
<1>9. h[Len(paths)] = g[D]
  BY <1>1
<1> QED  BY <1>2, <1>8, <1>9

\* What every replacement keeps, all of them keep.
LEMMA ReplaceKeeps ==
  ASSUME NEW base \in Seq(Member), NEW paths \in Seq(Paths), NEW S, base \in S,
         \A ms \in Seq(Member), a \in ToSet(paths) : ms \in S => ReplaceOrAdd(ms, a) \in S
  PROVE  /\ FoldLeft(ReplaceOrAdd, base, paths) \in Seq(Member)
         /\ FoldLeft(ReplaceOrAdd, base, paths) \in S
<1>1. PICK h : Replaces(h, base, paths) /\ FoldLeft(ReplaceOrAdd, base, paths) = h[Len(paths)]
  BY FoldReplaces
<1>2. Len(paths) \in Nat
  OBVIOUS
<1> DEFINE T == {i \in 0..Len(paths) : h[i] \in S}
<1>3. 0 \in T
  BY <1>1 DEF Replaces
<1>4. ASSUME NEW i \in 1..Len(paths), i - 1 \in T PROVE i \in T
  <2>1. h[i - 1] \in Seq(Member) /\ h[i - 1] \in S /\ h[i] = ReplaceOrAdd(h[i - 1], paths[i])
    BY <1>1, <1>4 DEF Replaces
  <2>2. paths[i] \in ToSet(paths)
    BY DEF ToSet
  <2>3. h[i] \in S
    BY <2>1, <2>2
  <2> QED  BY <2>3
<1>5. \A i \in 0..Len(paths) : i \in T
  <2> HIDE DEF T
  <2> QED  BY <1>2, <1>3, <1>4, CountUp
<1> QED  BY <1>1, <1>2, <1>5 DEF Replaces
-----------------------------------------------------------------------------
(***************************************************************************)
(* What a command line does to the members.                                *)
(***************************************************************************)

\* Arguments are paths, and the names of members are among their names.
LEMMA Arguments ==
  ASSUME NEW o \in Ops
  PROVE  /\ o.args \in Seq(Paths) /\ Files(o) \in Seq(Paths)
         /\ ToSet(Files(o)) \subseteq ToSet(o.args) /\ ToSet(o.args) \subseteq Paths
         /\ MemberNames(o) \subseteq {Base[a] : a \in ToSet(o.args)}
<1>1. o.args \in Seq(Paths)
  BY OpsAssumption
<1>3. Files(o) \in Seq(Paths) /\ ToSet(Files(o)) \subseteq ToSet(o.args)
  <2>1. CASE Files(o) = <<>>
    <3>1. <<>> \in Seq(Paths) /\ ToSet(<<>>) = {}
      BY DEF ToSet
    <3> QED  BY <2>1, <3>1, Zenon
  <2>2. CASE Files(o) = o.args
    BY <1>1, <2>2
  <2> QED  BY <2>1, <2>2 DEF Files
<1>4. ToSet(o.args) \subseteq Paths
  BY <1>1 DEF ToSet
<1>5. MemberNames(o) \subseteq {Base[a] : a \in ToSet(o.args)}
  BY DEF MemberNames
<1> QED  BY <1>1, <1>3, <1>4, <1>5

\* The stages of Changed.
KeptBy(ms, o) == IF Has(o, {"d"}) THEN Delete(ms, MemberNames(o)) ELSE ms
ReplacedBy(ms, o) ==
  IF Has(o, {"r"}) THEN FoldLeft(ReplaceOrAdd, KeptBy(ms, o), Files(o)) ELSE KeptBy(ms, o)

\* Changed goes through them.
LEMMA Stages ==
  ASSUME NEW ms, NEW o
  PROVE  Changed(ms, o) = IF Has(o, {"q"}) THEN AppendFiles(ReplacedBy(ms, o), Files(o)) ELSE ReplacedBy(ms, o)
BY Zenon DEF Changed, KeptBy, ReplacedBy

\* They are members again.
LEMMA StageTypes ==
  ASSUME NEW ms \in Seq(Member), NEW o \in Ops
  PROVE  /\ KeptBy(ms, o) \in Seq(Member) /\ ReplacedBy(ms, o) \in Seq(Member)
         /\ Changed(ms, o) \in Seq(Member)
<1>1. KeptBy(ms, o) \in Seq(Member)
  BY OnlyTakes DEF KeptBy, Delete
<1>2. Files(o) \in Seq(Paths)
  BY Arguments
<1>3. ReplacedBy(ms, o) \in Seq(Member)
  <2>1. PICK h : Replaces(h, KeptBy(ms, o), Files(o))
                 /\ FoldLeft(ReplaceOrAdd, KeptBy(ms, o), Files(o)) = h[Len(Files(o))]
    BY <1>1, <1>2, FoldReplaces
  <2>2. h[Len(Files(o))] \in Seq(Member)
    BY <1>2, <2>1 DEF Replaces
  <2> QED  BY <1>1, <2>1, <2>2 DEF ReplacedBy
<1>4. [i \in DOMAIN Files(o) |-> NewMember(Files(o)[i])] \in Seq(Member)
  <2>1. \A i \in 1..Len(Files(o)) : NewMember(Files(o)[i]) \in Member
    BY <1>2, ReplaceOrAddCases, BaseAssumption DEF NewMember, Member
  <2>2. Len(Files(o)) \in Nat /\ DOMAIN Files(o) = 1..Len(Files(o))
    BY <1>2
  <2> QED  BY <2>1, <2>2
<1>5. AppendFiles(ReplacedBy(ms, o), Files(o)) \in Seq(Member)
  BY <1>3, <1>4 DEF AppendFiles
<1> QED  BY <1>1, <1>3, <1>5, Stages

\* The greater of 1 and another number.
LEMMA MaxWithOne ==
  ASSUME NEW c \in Nat
  PROVE  Max({1, c}) \in Nat /\ 1 <= Max({1, c}) /\ c <= Max({1, c})
<1> DEFINE m == IF c >= 1 THEN c ELSE 1
<1>1. m \in {1, c} /\ \A x \in {1, c} : m >= x
  OBVIOUS
<1>2. Max({1, c}) \in {1, c} /\ \A x \in {1, c} : Max({1, c}) >= x
  BY <1>1 DEF Max
<1> QED  BY <1>2

\* A sequence has finitely many members of a name.
LEMMA NamedFinite ==
  ASSUME NEW ms \in Seq(Member), NEW n
  PROVE  IsFiniteSet(Named(ms, n)) /\ Cardinality(Named(ms, n)) \in Nat
<1>1. Len(ms) \in Nat /\ Named(ms, n) \subseteq 1..Len(ms)
  BY DEF Named
<1>2. IsFiniteSet(1..Len(ms))
  BY <1>1, FS_Interval
<1> QED  BY <1>1, <1>2, FS_Subset, FS_CardinalityType

\* One replacement does not make two of a name.
LEMMA ReplaceUnique ==
  ASSUME NEW ms \in Seq(Member), NEW a \in Paths, NEW n \in Names, NEW c \in Nat, 1 <= c,
         Cardinality(Named(ms, n)) <= c
  PROVE  Cardinality(Named(ReplaceOrAdd(ms, a), n)) <= c
<1>1. NewMember(a).name = Base[a]
  BY ReplaceOrAddCases
<1>2. CASE Named(ms, Base[a]) = {} /\ ReplaceOrAdd(ms, a) = Append(ms, NewMember(a))
  <2>1. CASE n = Base[a]
    <3>1. Named(ReplaceOrAdd(ms, a), n) = {Len(ms) + 1}
      BY <1>1, <1>2, <2>1 DEF Named
    <3>2. Cardinality(Named(ReplaceOrAdd(ms, a), n)) = 1
      BY <3>1, FS_Singleton, Zenon
    <3> QED  BY <3>2
  <2>2. CASE n # Base[a]
    <3>1. Named(ReplaceOrAdd(ms, a), n) = Named(ms, n)
      BY <1>1, <1>2, <2>2 DEF Named
    <3> QED  BY <3>1, Zenon
  <2> QED  BY <2>1, <2>2
<1>3. CASE \E i \in DOMAIN ms : /\ ms[i].name = Base[a]
                              /\ ReplaceOrAdd(ms, a) = [ms EXCEPT ![i] = NewMember(a)]
  <2>1. PICK i \in DOMAIN ms : /\ ms[i].name = Base[a]
                              /\ ReplaceOrAdd(ms, a) = [ms EXCEPT ![i] = NewMember(a)]
    BY <1>3
  <2>2. Named(ReplaceOrAdd(ms, a), n) = Named(ms, n)
    BY <1>1, <2>1 DEF Named
  <2> QED  BY <2>2, Zenon
<1> QED  BY <1>2, <1>3, ReplaceOrAddCases, Zenon

\* Without q, no name gets a second member.
LEMMA ChangedUnique ==
  ASSUME NEW ms \in Seq(Member), NEW o \in Ops, "q" \notin o.key, NEW n \in Names
  PROVE  Cardinality(Named(Changed(ms, o), n)) <= Max({1, Cardinality(Named(ms, n))})
<1> DEFINE c == Max({1, Cardinality(Named(ms, n))})
           S == {x \in Seq(Member) : Cardinality(Named(x, n)) <= c}
<1>1. c \in Nat /\ 1 <= c /\ Cardinality(Named(ms, n)) <= c
  BY NamedFinite, MaxWithOne
<1> HIDE DEF c
<1>2. KeptBy(ms, o) \in S
  <2>1. KeptBy(ms, o) \in Seq(Member)
    BY StageTypes
  <2>2. Cardinality(Named(KeptBy(ms, o), n)) <= Cardinality(Named(ms, n))
    <3>1. Cardinality(Named(Only(ms, Names \ MemberNames(o)), n)) <= Cardinality(Named(ms, n))
      BY OnlyTakes
    <3>2. Cardinality(Named(ms, n)) <= Cardinality(Named(ms, n))
      BY NamedFinite
    <3> QED  BY <3>1, <3>2 DEF KeptBy, Delete
  <2>3. Cardinality(Named(KeptBy(ms, o), n)) \in Nat /\ Cardinality(Named(ms, n)) \in Nat
    BY <2>1, NamedFinite
  <2>4. Cardinality(Named(KeptBy(ms, o), n)) <= c
    BY <1>1, <2>2, <2>3
  <2> QED  BY <2>1, <2>4
<1>3. ASSUME NEW x \in Seq(Member), NEW a \in ToSet(Files(o)), x \in S
      PROVE  ReplaceOrAdd(x, a) \in S
  <2>1. a \in Paths
    BY Arguments
  <2>2. Cardinality(Named(ReplaceOrAdd(x, a), n)) <= c
    BY <1>1, <1>3, <2>1, ReplaceUnique
  <2>3. ReplaceOrAdd(x, a) \in Seq(Member)
    BY <2>1, ReplaceOrAddCases
  <2> QED  BY <2>2, <2>3
<1>4. ReplacedBy(ms, o) \in S
  <2>1. KeptBy(ms, o) \in Seq(Member) /\ Files(o) \in Seq(Paths)
    BY StageTypes, Arguments
  <2>2. FoldLeft(ReplaceOrAdd, KeptBy(ms, o), Files(o)) \in S
    <3> HIDE DEF S
    <3> QED  BY <1>2, <1>3, <2>1, ReplaceKeeps
  <2> QED  BY <1>2, <2>2 DEF ReplacedBy
<1>5. Changed(ms, o) = ReplacedBy(ms, o)
  BY Stages DEF Has
<1> QED  BY <1>4, <1>5 DEF c

\* Members of other names, put behind the others, are not among the names.
LEMMA OnlyConcat ==
  ASSUME NEW ms \in Seq(Member), NEW ns \in Seq(Member), NEW names,
         \A i \in 1..Len(ns) : ns[i].name \notin names
  PROVE  Only(ms \o ns, names) = Only(ms, names)
<1> DEFINE all == ms \o ns
<1>1. /\ all \in Seq(Member) /\ Len(all) = Len(ms) + Len(ns)
      /\ Len(ms) \in Nat /\ Len(ns) \in Nat
      /\ \A i \in 1..Len(ms) : all[i] = ms[i]
      /\ \A i \in 1..Len(ns) : all[Len(ms) + i] = ns[i]
  OBVIOUS
<1>2. PICK f : Selects(f, ms, names) /\ Only(ms, names) = f[Len(ms)]
  BY OnlySelects
<1> HIDE DEF all
<1>3. PICK g : Selects(g, all, names) /\ Only(all, names) = g[Len(all)]
  BY <1>1, OnlySelects
<1>4. f[Len(ms)] = g[Len(ms)]
  <2>1. Len(ms) \in Nat /\ Len(ms) <= Len(ms) /\ Len(ms) <= Len(all)
    BY <1>1
  <2>2. \A i \in 1..Len(ms) : ms[i] = all[i] \/ (ms[i].name \notin names /\ all[i].name \notin names)
    BY <1>1
  <2>3. all \in Seq(Member) /\ Selects(f, ms, names) /\ Selects(g, all, names)
    BY <1>1, <1>2, <1>3
  <2>4. Agree(ms, all, Len(ms), names)
    BY <2>1, <2>2 DEF Agree
  <2> QED  BY <2>3, <2>4, SelectsSame
<1> DEFINE S == {i \in 0..Len(ns) : g[Len(ms) + i] = g[Len(ms)]}
<1>5. \A i \in 0..Len(ns) : i \in S
  <2>1. 0 \in S
    BY <1>1
  <2>2. ASSUME NEW i \in 1..Len(ns), i - 1 \in S PROVE i \in S
    <3>1. Len(ms) + i \in 1..Len(all) /\ all[Len(ms) + i].name \notin names
      BY SMTT(30), <1>1
    <3>2. g[Len(ms) + i] = g[Len(ms) + i - 1]
      BY <1>3, <3>1 DEF Selects
    <3>3. g[Len(ms) + (i - 1)] = g[Len(ms)] /\ Len(ms) + (i - 1) = Len(ms) + i - 1
      BY <1>1, <2>2
    <3> QED  BY <3>2, <3>3
  <2> HIDE DEF S
  <2> QED  BY <1>1, <2>1, <2>2, CountUp
<1>6. g[Len(all)] = g[Len(ms)]
  BY <1>1, <1>5
<1> QED  BY <1>2, <1>3, <1>4, <1>6 DEF all

\* A replacement changes only members of the file's name.
LEMMA ReplaceOthers ==
  ASSUME NEW ms \in Seq(Member), NEW a \in Paths, NEW names, Base[a] \notin names
  PROVE  Only(ReplaceOrAdd(ms, a), names) = Only(ms, names)
<1>1. NewMember(a).name = Base[a] /\ NewMember(a) \in Member
  BY ReplaceOrAddCases
<1>2. CASE Named(ms, Base[a]) = {} /\ ReplaceOrAdd(ms, a) = Append(ms, NewMember(a))
  BY <1>1, <1>2, OnlyAppend
<1>3. CASE \E i \in DOMAIN ms : /\ ms[i].name = Base[a]
                              /\ ReplaceOrAdd(ms, a) = [ms EXCEPT ![i] = NewMember(a)]
  <2>1. PICK i \in DOMAIN ms : /\ ms[i].name = Base[a]
                              /\ ReplaceOrAdd(ms, a) = [ms EXCEPT ![i] = NewMember(a)]
    BY <1>3
  <2> DEFINE ns == ReplaceOrAdd(ms, a)
  <2>2. ns \in Seq(Member) /\ Len(ns) = Len(ms) /\ Len(ms) \in Nat /\ Len(ms) <= Len(ms)
    BY <2>1, ReplaceOrAddCases
  <2>3. \A j \in 1..Len(ms) : ns[j] = ms[j] \/ (ns[j].name \notin names /\ ms[j].name \notin names)
    BY <1>1, <2>1
  <2> HIDE DEF ns
  <2>4. PICK f : Selects(f, ms, names) /\ Only(ms, names) = f[Len(ms)]
    BY OnlySelects
  <2>5. PICK g : Selects(g, ns, names) /\ Only(ns, names) = g[Len(ns)]
    BY <2>2, OnlySelects
  <2>6. g[Len(ms)] = f[Len(ms)]
    <3>1. Agree(ns, ms, Len(ms), names)
      BY <2>2, <2>3 DEF Agree
    <3> QED  BY <2>2, <2>4, <2>5, <3>1, SelectsSame
  <2> QED  BY <2>2, <2>4, <2>5, <2>6 DEF ns
<1> QED  BY <1>2, <1>3, ReplaceOrAddCases, Zenon

\* The members that are not named by an argument stay, in their order.
LEMMA ChangedOthers ==
  ASSUME NEW ms \in Seq(Member), NEW o \in Ops
  PROVE  LET names == {Base[a] : a \in ToSet(o.args)}
         IN  Untouched(Changed(ms, o), names) = Untouched(ms, names)
<1> DEFINE names == {Base[a] : a \in ToSet(o.args)}
           rest == Names \ names
           S == {x \in Seq(Member) : Only(x, rest) = Only(ms, rest)}
<1>1. \A a \in ToSet(Files(o)) : a \in Paths /\ Base[a] \notin rest
  BY Arguments
<1>2. MemberNames(o) \subseteq names
  BY Arguments
<1>3. KeptBy(ms, o) \in Seq(Member) /\ ReplacedBy(ms, o) \in Seq(Member) /\ Files(o) \in Seq(Paths)
  BY StageTypes, Arguments
<1>4. KeptBy(ms, o) \in S
  <2>1. rest \subseteq Names \ MemberNames(o)
    BY <1>2
  <2> HIDE DEF rest
  <2>2. Only(Only(ms, Names \ MemberNames(o)), rest) = Only(ms, rest)
    BY <2>1, OnlyOnly
  <2> QED  BY <1>3, <2>2 DEF KeptBy, Delete
<1> HIDE DEF rest
<1>5. ReplacedBy(ms, o) \in S
  <2>1. ASSUME NEW x \in Seq(Member), NEW a \in ToSet(Files(o)), x \in S
        PROVE  ReplaceOrAdd(x, a) \in S
    <3>1. a \in Paths /\ Base[a] \notin rest
      BY <1>1
    <3>2. ReplaceOrAdd(x, a) \in Seq(Member) /\ Only(ReplaceOrAdd(x, a), rest) = Only(x, rest)
      BY <3>1, ReplaceOrAddCases, ReplaceOthers
    <3> QED  BY <2>1, <3>2
  <2>2. FoldLeft(ReplaceOrAdd, KeptBy(ms, o), Files(o)) \in S
    <3> HIDE DEF S
    <3> QED  BY <1>3, <1>4, <2>1, ReplaceKeeps
  <2> QED  BY <1>4, <2>2 DEF ReplacedBy
<1>6. AppendFiles(ReplacedBy(ms, o), Files(o)) \in S
  <2> DEFINE ns == [i \in DOMAIN Files(o) |-> NewMember(Files(o)[i])]
  <2>1. ns \in Seq(Member) /\ Len(ns) = Len(Files(o))
    <3>1. \A i \in 1..Len(Files(o)) : NewMember(Files(o)[i]) \in Member
      BY <1>3, ReplaceOrAddCases, BaseAssumption DEF NewMember, Member
    <3>2. Len(Files(o)) \in Nat /\ DOMAIN Files(o) = 1..Len(Files(o))
      BY <1>3
    <3> QED  BY <3>1, <3>2
  <2>2. \A i \in 1..Len(ns) : ns[i].name \notin rest
    <3>1. \A i \in DOMAIN Files(o) : ns[i].name = Base[Files(o)[i]] /\ Files(o)[i] \in ToSet(Files(o))
      BY DEF NewMember, ToSet
    <3>2. DOMAIN Files(o) = 1..Len(ns)
      BY <1>3, <2>1
    <3> HIDE DEF ns
    <3> QED  BY <1>1, <3>1, <3>2
  <2>3. AppendFiles(ReplacedBy(ms, o), Files(o)) = ReplacedBy(ms, o) \o ns
    BY DEF AppendFiles
  <2> HIDE DEF ns
  <2>4. Only(ReplacedBy(ms, o) \o ns, rest) = Only(ReplacedBy(ms, o), rest)
    BY <1>3, <2>1, <2>2, OnlyConcat
  <2>5. ReplacedBy(ms, o) \o ns \in Seq(Member)
    BY <1>3, <2>1
  <2> QED  BY <1>5, <2>3, <2>4, <2>5
<1>7. Changed(ms, o) \in S
  BY <1>5, <1>6, Stages
<1> QED  BY <1>7 DEF Untouched, rest

\* Replacing leaves every member in its place.
LEMMA ChangedInPlace ==
  ASSUME NEW ms \in Seq(Member), NEW o \in Ops, o.key \cap {"d", "q"} = {}
  PROVE  \A i \in DOMAIN ms : Changed(ms, o)[i].name = ms[i].name
<1> DEFINE S == {x \in Seq(Member) :
                   /\ Len(ms) <= Len(x)
                   /\ \A i \in 1..Len(ms) : x[i].name = ms[i].name}
<1>1. KeptBy(ms, o) = ms /\ Changed(ms, o) = ReplacedBy(ms, o) /\ Files(o) \in Seq(Paths)
  BY Stages, Arguments DEF KeptBy, Has
<1>2. ms \in S
  OBVIOUS
<1>3. ASSUME NEW x \in Seq(Member), NEW a \in ToSet(Files(o)), x \in S
      PROVE  ReplaceOrAdd(x, a) \in S
  <2>1. a \in Paths
    BY Arguments
  <2>2. ReplaceOrAdd(x, a) \in Seq(Member) /\ NewMember(a) \in Member /\ NewMember(a).name = Base[a]
    BY <2>1, ReplaceOrAddCases
  <2>3. CASE ReplaceOrAdd(x, a) = Append(x, NewMember(a))
    <3>1. Len(ms) \in Nat /\ Len(x) \in Nat /\ Len(Append(x, NewMember(a))) = Len(x) + 1
      BY <2>2
    <3>2. \A i \in 1..Len(ms) : i \in 1..Len(x)
      BY <1>3, <3>1
    <3>3. \A i \in 1..Len(x) : Append(x, NewMember(a))[i] = x[i]
      BY <2>2
    <3>4. \A i \in 1..Len(ms) : ReplaceOrAdd(x, a)[i].name = ms[i].name
      BY <1>3, <2>3, <3>2, <3>3
    <3>5. Len(ms) <= Len(ReplaceOrAdd(x, a))
      BY <1>3, <2>3, <3>1
    <3> QED  BY <2>2, <3>4, <3>5
  <2>4. CASE \E i \in DOMAIN x : /\ x[i].name = Base[a]
                               /\ ReplaceOrAdd(x, a) = [x EXCEPT ![i] = NewMember(a)]
    BY <1>3, <2>2, <2>4
  <2> QED  BY <2>1, <2>3, <2>4, ReplaceOrAddCases, Zenon
<1>4. ReplacedBy(ms, o) \in S
  <2>1. FoldLeft(ReplaceOrAdd, ms, Files(o)) \in S
    <3> HIDE DEF S
    <3> QED  BY <1>1, <1>2, <1>3, ReplaceKeeps
  <2> QED  BY <1>1, <1>2, <2>1 DEF ReplacedBy
<1> QED  BY <1>1, <1>4
-----------------------------------------------------------------------------
(***************************************************************************)
(* The inductive invariant: what an invocation that nobody interfered with *)
(* believes about the archive is so.                                       *)
(***************************************************************************)

\* While an invocation runs it has a command line, has not reported anything
\* and has not written.
Running ==
  \A p \in Procs : pc[p] # "idle" => op[p] \in Ops /\ result[p] = "none" /\ p \notin wrote

\* What exists() said still holds.
LookValid ==
  \A p \in Procs : pc[p] \notin {"idle", "start"} /\ p \notin stale =>
                     existed[p] = (archive # NoFile)

\* The members read are those of the archive.
SnapValid ==
  \A p \in Procs : pc[p] = "write" /\ p \notin stale =>
                     snap[p] = IF archive = NoFile THEN <<>> ELSE archive.members

IInv == TypeOK /\ Running /\ FailedChangesNothing /\ LookValid /\ SnapValid

\* Which sequences a MemberSeqs holds.
LEMMA Bounded ==
  ASSUME NEW ms
  PROVE  ms \in MemberSeqs <=> ms \in Seq(Member) /\ Len(ms) <= MaxMembers
<1>1. ASSUME ms \in MemberSeqs PROVE ms \in Seq(Member) /\ Len(ms) <= MaxMembers
  <2>1. PICK n \in 0..MaxMembers : ms \in [1..n -> Member]
    BY <1>1, Zenon DEF MemberSeqs, BoundedSeq, SeqOf
  <2>2. n \in Nat /\ n <= MaxMembers
    BY <2>1, MaxMembersAssumption
  <2>3. ms \in Seq(Member) /\ Len(ms) = n
    BY <2>1, <2>2
  <2> QED  BY <2>2, <2>3
<1>2. ASSUME ms \in Seq(Member), Len(ms) <= MaxMembers PROVE ms \in MemberSeqs
  <2>1. Len(ms) \in 0..MaxMembers
    BY <1>2, MaxMembersAssumption
  <2>2. ms \in [1..Len(ms) -> Member]
    BY <1>2
  <2> QED  BY <2>1, <2>2, Zenon DEF MemberSeqs, BoundedSeq, SeqOf
<1> QED  BY <1>1, <1>2

\* The empty list, what Only takes, and all but the first.
LEMMA BoundedParts ==
  /\ <<>> \in MemberSeqs
  /\ \A ms \in MemberSeqs : \A names : Only(ms, names) \in MemberSeqs
  /\ \A ms \in MemberSeqs : ms # <<>> =>
       Head(ms) \in Member /\ Tail(ms) \in MemberSeqs
<1>1. <<>> \in MemberSeqs
  <2>1. <<>> \in Seq(Member) /\ Len(<<>>) <= MaxMembers
    BY MaxMembersAssumption
  <2> QED  BY <2>1, Bounded
<1>2. ASSUME NEW ms \in MemberSeqs, NEW names
      PROVE  Only(ms, names) \in MemberSeqs
  <2>1. ms \in Seq(Member) /\ Len(ms) <= MaxMembers
    BY Bounded
  <2>2. Only(ms, names) \in Seq(Member) /\ Len(Only(ms, names)) <= Len(ms)
    BY <2>1, OnlyTakes
  <2>3. Len(ms) \in Nat /\ Len(Only(ms, names)) \in Nat
    BY <2>1, <2>2
  <2>4. Len(Only(ms, names)) <= MaxMembers
    BY <2>1, <2>2, <2>3, MaxMembersAssumption
  <2> QED  BY <2>2, <2>4, Bounded
<1>3. ASSUME NEW ms \in MemberSeqs, ms # <<>>
      PROVE  Head(ms) \in Member /\ Tail(ms) \in MemberSeqs
  <2>1. ms \in Seq(Member) /\ Len(ms) <= MaxMembers
    BY Bounded
  <2>2. /\ Head(ms) \in Member /\ Tail(ms) \in Seq(Member)
        /\ Len(Tail(ms)) = Len(ms) - 1 /\ Len(ms) \in Nat
    BY <1>3, <2>1
  <2>3. Len(Tail(ms)) <= MaxMembers
    BY <2>1, <2>2, MaxMembersAssumption
  <2> QED  BY <2>2, <2>3, Bounded
<1> QED  BY <1>1, <1>2, <1>3

\* Nothing runs yet.
LEMMA InitIInv == Init => IInv
<1> SUFFICES ASSUME Init PROVE IInv
  OBVIOUS
<1>1. TypeOK
  BY BoundedParts, InitialAssumption DEF Init, TypeOK
<1> QED  BY <1>1 DEF Init, IInv, Running, FailedChangesNothing, LookValid, SnapValid

\* An exit forgets what the invocation knew.
LEMMA ExitInv ==
  ASSUME IInv, NEW p \in Procs, NEW how \in {"ok", "err"}, Exit(p, how), pc[p] # "idle",
         UNCHANGED <<archive, cwd, missing, wrote, stale>>
  PROVE  IInv'
<1>1. TypeOK'
  BY BoundedParts DEF IInv, TypeOK, Exit, Goto, IsArchive
<1> USE DEF IInv, TypeOK, Exit, Goto
<1>2. Running'
  BY DEF Running
<1>3. FailedChangesNothing'
  BY DEF Running, FailedChangesNothing
<1>4. LookValid' /\ SnapValid'
  BY DEF LookValid, SnapValid
<1> QED  BY <1>1, <1>2, <1>3, <1>4

\* The write: the new archive is one, and everybody else knows an old one.
LEMMA CommitInv ==
  ASSUME IInv, NEW p \in Procs, Commit(p)
  PROVE  IInv'
<1>1. archive'.members = Changed(snap[p], op[p]) /\ Len(Changed(snap[p], op[p])) <= MaxMembers
  BY Zenon DEF Commit
<1>2. archive'.members \in MemberSeqs
  <2>1. snap[p] \in Seq(Member) /\ op[p] \in Ops
    BY Bounded DEF IInv, TypeOK, Running, Commit
  <2> QED  BY <1>1, <2>1, StageTypes, Bounded
<1>3. /\ Exit(p, "ok") /\ UNCHANGED <<cwd, missing>>
      /\ wrote' = wrote \cup {p} /\ stale' = stale \cup (Procs \ {p})
  BY DEF Commit
<1>4. TypeOK'
  BY <1>2, <1>3, BoundedParts DEF IInv, TypeOK, Exit, Goto
<1> USE DEF IInv, TypeOK, Exit, Goto
<1>5. Running'
  BY <1>3 DEF Running
<1>6. FailedChangesNothing'
  BY <1>3 DEF FailedChangesNothing
<1>7. LookValid' /\ SnapValid'
  BY <1>3 DEF LookValid, SnapValid
<1> QED  BY <1>4, <1>5, <1>6, <1>7

\* No step of an invocation breaks the invariant.
LEMMA StepInv ==
  ASSUME IInv, NEW p \in Procs,
         \/ \E o \in Ops : Start(p, o)
         \/ BadKey(p) \/ Exists(p)
         \/ Read(p) \/ ReadFails(p)
         \/ ExtractOne(p) \/ ExtractFails(p) \/ ReadDone(p)
         \/ Load(p) \/ LoadFails(p) \/ Commit(p) \/ CommitFails(p)
  PROVE  IInv'
<1>1. CASE BadKey(p) \/ ReadFails(p) \/ ExtractFails(p) \/ LoadFails(p) \/ CommitFails(p)
  <2>1. Exit(p, "err") /\ pc[p] # "idle" /\ UNCHANGED <<archive, cwd, missing, wrote, stale>>
    BY <1>1 DEF BadKey, ReadFails, ExtractFails, LoadFails, CommitFails
  <2> QED  BY <2>1, ExitInv
<1>2. CASE Commit(p)
  BY <1>2, CommitInv
<1> USE DEF IInv, TypeOK, Goto
<1>3. CASE \E o \in Ops : Start(p, o)
  <2> PICK o \in Ops : Start(p, o)
    BY <1>3
  <2>1. TypeOK'
    BY DEF Start, IsArchive
  <2>2. Running' /\ FailedChangesNothing'
    BY DEF Start, Running, FailedChangesNothing
  <2>3. LookValid' /\ SnapValid'
    BY DEF Start, LookValid, SnapValid
  <2> QED  BY <2>1, <2>2, <2>3
<1>4. CASE Exists(p)
  <2>1. TypeOK'
    BY <1>4 DEF Exists, IsArchive
  <2>2. Running' /\ FailedChangesNothing'
    BY <1>4 DEF Exists, Running, FailedChangesNothing
  <2>3. LookValid' /\ SnapValid'
    BY <1>4 DEF Exists, LookValid, SnapValid
  <2> QED  BY <2>1, <2>2, <2>3
<1>5. CASE Read(p)
  <2>1. todo' \in [Procs -> MemberSeqs]
    BY <1>5, BoundedParts DEF Read
  <2>2. TypeOK'
    BY <1>5, <2>1 DEF Read, IsArchive
  <2>3. Running' /\ FailedChangesNothing'
    BY <1>5 DEF Read, Running, FailedChangesNothing
  <2>4. LookValid' /\ SnapValid'
    BY <1>5 DEF Read, LookValid, SnapValid
  <2> QED  BY <2>2, <2>3, <2>4
<1>6. CASE ExtractOne(p)
  <2>1. todo[p] \in MemberSeqs
    OBVIOUS
  <2>2. Head(todo[p]) \in Member /\ Tail(todo[p]) \in MemberSeqs
    BY <1>6, <2>1, BoundedParts DEF ExtractOne
  <2>3. Head(todo[p]).name \in Names /\ Head(todo[p]).data \in Paths
    BY <2>2 DEF Member
  <2>4. TypeOK'
    BY <1>6, <2>2, <2>3 DEF ExtractOne, IsArchive
  <2>5. Running' /\ FailedChangesNothing'
    BY <1>6 DEF ExtractOne, Running, FailedChangesNothing
  <2>6. LookValid' /\ SnapValid'
    BY <1>6 DEF ExtractOne, LookValid, SnapValid
  <2> QED  BY <2>4, <2>5, <2>6
<1>7. CASE ReadDone(p)
  <2>1. CASE Exit(p, "ok")
    BY <1>7, <2>1, ExitInv DEF ReadDone
  <2>2. CASE Goto(p, "load") /\ UNCHANGED <<op, existed, snap, todo, result>>
    <3>1. TypeOK'
      BY <1>7, <2>2 DEF ReadDone, IsArchive
    <3>2. Running' /\ FailedChangesNothing'
      BY <1>7, <2>2 DEF ReadDone, Running, FailedChangesNothing
    <3>3. LookValid' /\ SnapValid'
      BY <1>7, <2>2 DEF ReadDone, LookValid, SnapValid
    <3> QED  BY <3>1, <3>2, <3>3
  <2> QED  BY <1>7, <2>1, <2>2 DEF ReadDone
<1>8. CASE Load(p)
  <2>1. snap' \in [Procs -> MemberSeqs]
    BY <1>8, BoundedParts DEF Load, Loadable
  <2>2. TypeOK'
    BY <1>8, <2>1 DEF Load, IsArchive
  <2>3. Running' /\ FailedChangesNothing'
    BY <1>8 DEF Load, Running, FailedChangesNothing
  <2>4. LookValid'
    BY <1>8 DEF Load, LookValid
  <2>5. SnapValid'
    BY <1>8 DEF Load, LookValid, SnapValid
  <2> QED  BY <2>2, <2>3, <2>4, <2>5
<1> QED  BY <1>1, <1>2, <1>3, <1>4, <1>5, <1>6, <1>7, <1>8

\* No step at all does.
LEMMA NextIInv == IInv /\ [Next]_vars => IInv'
<1> SUFFICES ASSUME IInv, [Next]_vars PROVE IInv'
  OBVIOUS
<1>1. CASE UNCHANGED vars
  BY <1>1 DEF vars, IInv, TypeOK, Running, FailedChangesNothing, LookValid, SnapValid, IsArchive
<1>2. CASE Unlink
  <2>1. TypeOK'
    BY <1>2 DEF Unlink, IInv, TypeOK, IsArchive
  <2>2. Running' /\ FailedChangesNothing' /\ LookValid' /\ SnapValid'
    BY <1>2 DEF Unlink, IInv, TypeOK, Running, FailedChangesNothing, LookValid, SnapValid
  <2> QED  BY <2>1, <2>2 DEF IInv
<1> QED  BY <1>1, <1>2, StepInv DEF Next

\* The invariant holds throughout.
LEMMA Invariance == Spec => []IInv
BY InitIInv, NextIInv, PTL DEF Spec

\* Every archive is one, every member list within the bound.
THEOREM TypeCorrect == Spec => []TypeOK
<1>1. IInv => TypeOK
  BY DEF IInv
<1> QED  BY <1>1, Invariance, PTL

\* An invocation that reports an error, wherever it failed, has not changed
\* the archive.
THEOREM ErrorsChangeNothing == Spec => []FailedChangesNothing
<1>1. IInv => FailedChangesNothing
  BY DEF IInv
<1> QED  BY <1>1, Invariance, PTL
-----------------------------------------------------------------------------
(***************************************************************************)
(* The action properties: what the write of an invocation may change.      *)
(***************************************************************************)

\* Only the write reports success from where it is made.
LEMMA OnlyCommit ==
  ASSUME IInv, [Next]_vars, NEW p \in Procs, Commits(p)
  PROVE  /\ Commit(p)
         /\ archive'.members = Changed(snap[p], op[p])
         /\ snap[p] \in Seq(Member) /\ op[p] \in Ops
<1>1. pc[p] = "write" /\ result[p] = "none" /\ result'[p] = "ok" /\ op[p] \in Ops
  BY DEF Commits, IInv, Running
<1>2. snap[p] \in Seq(Member)
  BY Bounded DEF IInv, TypeOK
<1>3. Commit(p)
  <2>1. \/ Commit(p)
        \/ CommitFails(p)
        \/ result'[p] = result[p]
    <3>1. CASE UNCHANGED vars
      BY <3>1 DEF vars
    <3>2. CASE Unlink
      BY <3>2 DEF Unlink
    <3>3. ASSUME NEW q \in Procs, q # p,
                 \/ \E o \in Ops : Start(q, o)
                 \/ BadKey(q) \/ Exists(q)
                 \/ Read(q) \/ ReadFails(q)
                 \/ ExtractOne(q) \/ ExtractFails(q) \/ ReadDone(q)
                 \/ Load(q) \/ LoadFails(q) \/ Commit(q) \/ CommitFails(q)
          PROVE  result'[p] = result[p]
      BY <3>3 DEF Start, BadKey, Exists, Read, ReadFails, ExtractOne, ExtractFails, ReadDone,
                  Load, LoadFails, Commit, CommitFails, Exit, Goto, IInv, TypeOK
    <3>4. ASSUME \/ \E o \in Ops : Start(p, o)
                 \/ BadKey(p) \/ Exists(p)
                 \/ Read(p) \/ ReadFails(p)
                 \/ ExtractOne(p) \/ ExtractFails(p) \/ ReadDone(p)
                 \/ Load(p) \/ LoadFails(p) \/ Commit(p) \/ CommitFails(p)
          PROVE  Commit(p) \/ CommitFails(p)
      BY <1>1, <3>4 DEF Start, BadKey, Exists, Read, ReadFails, ExtractOne, ExtractFails, ReadDone,
                        Load, LoadFails
    <3> QED  BY <3>1, <3>2, <3>3, <3>4 DEF Next
  <2>2. CommitFails(p) => result'[p] = "err"
    BY DEF CommitFails, Exit, IInv, TypeOK
  <2> QED  BY <1>1, <2>1, <2>2
<1>4. archive'.members = Changed(snap[p], op[p])
  BY <1>3, Zenon DEF Commit
<1> QED  BY <1>1, <1>2, <1>3, <1>4

\* Only q makes two members of one name, for any archive and any arguments,
\* two files of one file name and archives with duplicates included.
THEOREM NamesStayUnique == Spec => UniqueNames
<1>1. IInv /\ [Next]_vars =>
        \A p \in Procs : Commits(p) /\ "q" \notin op[p].key =>
          \A n \in Names : Cardinality(Named(archive'.members, n))
                             <= Max({1, Cardinality(Named(snap[p], n))})
  <2> SUFFICES ASSUME IInv, [Next]_vars, NEW p \in Procs, Commits(p), "q" \notin op[p].key,
                      NEW n \in Names
               PROVE  Cardinality(Named(archive'.members, n))
                        <= Max({1, Cardinality(Named(snap[p], n))})
    OBVIOUS
  <2>1. /\ archive'.members = Changed(snap[p], op[p])
        /\ snap[p] \in Seq(Member) /\ op[p] \in Ops
    BY OnlyCommit
  <2>2. Cardinality(Named(Changed(snap[p], op[p]), n)) <= Max({1, Cardinality(Named(snap[p], n))})
    BY <2>1, ChangedUnique
  <2> QED  BY <2>1, <2>2
<1> QED  BY <1>1, Invariance, PTL DEF Spec, UniqueNames

\* Members no argument names keep their data and their order.
THEOREM OthersStay == Spec => OthersUntouched
<1>1. IInv /\ [Next]_vars =>
        \A p \in Procs : Commits(p) =>
          LET names == {Base[a] : a \in ToSet(op[p].args)}
          IN  Untouched(archive'.members, names) = Untouched(snap[p], names)
  <2> SUFFICES ASSUME IInv, [Next]_vars, NEW p \in Procs, Commits(p)
               PROVE  LET names == {Base[a] : a \in ToSet(op[p].args)}
                      IN  Untouched(archive'.members, names) = Untouched(snap[p], names)
    OBVIOUS
  <2>1. /\ archive'.members = Changed(snap[p], op[p])
        /\ snap[p] \in Seq(Member) /\ op[p] \in Ops
    BY OnlyCommit
  <2> QED  BY <2>1, ChangedOthers
<1> QED  BY <1>1, Invariance, PTL DEF Spec, OthersUntouched

\* r leaves the order of a static library as it is.
THEOREM PlacesKept == Spec => ReplaceKeepsPlace
<1>1. IInv /\ [Next]_vars =>
        \A p \in Procs : Commits(p) /\ op[p].key \cap {"d", "q"} = {} =>
          \A i \in DOMAIN snap[p] : archive'.members[i].name = snap[p][i].name
  <2> SUFFICES ASSUME IInv, [Next]_vars, NEW p \in Procs, Commits(p), op[p].key \cap {"d", "q"} = {}
               PROVE  \A i \in DOMAIN snap[p] : archive'.members[i].name = snap[p][i].name
    OBVIOUS
  <2>1. /\ archive'.members = Changed(snap[p], op[p])
        /\ snap[p] \in Seq(Member) /\ op[p] \in Ops
    BY OnlyCommit
  <2> QED  BY <2>1, ChangedInPlace
<1> QED  BY <1>1, Invariance, PTL DEF Spec, ReplaceKeepsPlace

\* Without interference the three looks of an invocation at the file system
\* (exists, read, write) are as good as one: nothing is lost.
THEOREM AloneIsAtomic == Spec => AloneUpdates
<1>1. IInv /\ [Next]_vars =>
        \A p \in Procs : Commits(p) /\ p \notin stale =>
          archive'.members =
            Changed(IF archive = NoFile THEN <<>> ELSE archive.members, op[p])
  <2> SUFFICES ASSUME IInv, [Next]_vars, NEW p \in Procs, Commits(p), p \notin stale
               PROVE  archive'.members =
                        Changed(IF archive = NoFile THEN <<>> ELSE archive.members, op[p])
    OBVIOUS
  <2>1. archive'.members = Changed(snap[p], op[p])
    BY OnlyCommit
  <2>2. snap[p] = IF archive = NoFile THEN <<>> ELSE archive.members
    BY DEF IInv, SnapValid, Commits
  <2> QED  BY <2>1, <2>2, Zenon
<1> QED  BY <1>1, Invariance, PTL DEF Spec, AloneUpdates
=============================================================================
