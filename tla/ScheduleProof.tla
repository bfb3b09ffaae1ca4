---------------------------- MODULE ScheduleProof ----------------------------
(***************************************************************************)
(* Proofs about Schedule, for any catalogue and any bounds.                *)
(***************************************************************************)
EXTENDS Schedule, SequenceTheorems, FiniteSetTheorems, TLAPS

-----------------------------------------------------------------------------
(* Induction and recursion, in the first-order form the provers can use.   *)

Less == {p \in Nat \X Nat : p[1] < p[2]}

\* A set of numbers has a least element, and Min is it.
LEMMA Least ==
  ASSUME NEW T, T \subseteq Nat, T # {}
  PROVE  Min(T) \in T /\ \A y \in T : Min(T) <= y
<1>1. IsWellFoundedOn(Less, Nat)
  BY NatLessThanWellFounded DEF Less, OpToRel
<1>2. PICK x \in T : \A y \in T : <<y, x>> \notin Less
  BY <1>1, WFMin
<1>3. \A y \in T : x <= y
  <2> SUFFICES ASSUME NEW y \in T PROVE x <= y
    OBVIOUS
  <2>1. <<y, x>> \in Nat \X Nat /\ <<y, x>> \notin Less
    BY <1>2
  <2> QED
    BY <2>1 DEF Less
<1> QED
  BY <1>3 DEF Min

\* What holds at 0, and at n + 1 if it holds at n, holds everywhere.
LEMMA Induction ==
  ASSUME NEW S, 0 \in S, \A n \in Nat : n \in S => n + 1 \in S
  PROVE  Nat \subseteq S
<1> SUFFICES ASSUME Nat \ S # {} PROVE FALSE
  OBVIOUS
<1> DEFINE x == Min(Nat \ S)
<1>1. x \in Nat \ S /\ \A y \in Nat \ S : x <= y
  BY Least
<1> HIDE DEF x
<1>2. x # 0 /\ x - 1 \in Nat
  BY <1>1
<1>3. x - 1 \in S
  BY <1>1, <1>2
<1> QED
  BY <1>1, <1>2, <1>3

\* A value for 0 and a step from each number to the next make a function.
Iterates(f, N, V, v, step) ==
  f \in [0 .. N -> V] /\ f[0] = v /\ \A n \in 1 .. N : f[n] = step[n][f[n - 1]]

LEMMA Recursion ==
  ASSUME NEW N \in Nat, NEW V, NEW v \in V, NEW step,
         \A n \in 1 .. N : \A x \in V : step[n][x] \in V
  PROVE  \E f : Iterates(f, N, V, v, step)
<1> DEFINE P == {n \in Nat : n <= N => \E f : Iterates(f, n, V, v, step)}
<1>1. 0 \in P
  <2>1. Iterates([n \in 0 .. 0 |-> v], 0, V, v, step)
    BY DEF Iterates
  <2> QED
    BY <2>1
<1>2. ASSUME NEW n \in Nat, n \in P PROVE n + 1 \in P
  <2> SUFFICES ASSUME n + 1 <= N PROVE \E f : Iterates(f, n + 1, V, v, step)
    OBVIOUS
  <2>1. PICK f : Iterates(f, n, V, v, step)
    BY <1>2
  <2>2. /\ f \in [0 .. n -> V] /\ f[0] = v
        /\ \A m \in 1 .. n : f[m] = step[m][f[m - 1]]
    BY <2>1 DEF Iterates
  <2> DEFINE g == [m \in 0 .. n + 1 |-> IF m = n + 1 THEN step[n + 1][f[n]] ELSE f[m]]
  <2>3. step[n + 1][f[n]] \in V
    BY <2>2
  <2>4. g \in [0 .. n + 1 -> V] /\ g[0] = v
    BY <2>2, <2>3
  <2>5. ASSUME NEW m \in 1 .. n + 1 PROVE g[m] = step[m][g[m - 1]]
    <3>1. CASE m = n + 1
      <4>1. m - 1 = n /\ n \in 0 .. n + 1 /\ n # n + 1 /\ m \in 0 .. n + 1
        BY <3>1
      <4>2. g[m] = step[n + 1][f[n]] /\ g[n] = f[n]
        BY <4>1, <3>1
      <4> QED
        BY <4>1, <4>2, <3>1
    <3>2. CASE m # n + 1
      <4>1. m \in 1 .. n /\ m \in 0 .. n + 1 /\ m - 1 \in 0 .. n + 1 /\ m - 1 # n + 1
        BY <3>2
      <4>2. g[m] = f[m] /\ g[m - 1] = f[m - 1]
        BY <4>1, <3>2
      <4> QED
        BY <4>1, <4>2, <2>2
    <3> QED
      BY <3>1, <3>2
  <2> HIDE DEF g
  <2>6. Iterates(g, n + 1, V, v, step)
    BY <2>4, <2>5 DEF Iterates
  <2> QED
    BY <2>6
<1>3. N \in P
  BY <1>1, <1>2, Induction
<1> QED
  BY <1>3

\* Among builds its sequence from those for the beginnings of seq.
AmongBy(f, T, seq, S) ==
  /\ f \in [0 .. Len(seq) -> Seq(T \cap S)]
  /\ f[0] = <<>>
  /\ \A n \in 1 .. Len(seq) :
        f[n] = IF seq[n] \in S THEN Append(f[n - 1], seq[n]) ELSE f[n - 1]
  /\ Among(seq, S) = f[Len(seq)]

LEMMA AmongSteps ==
  ASSUME NEW T, NEW seq \in Seq(T), NEW S
  PROVE  \E f : AmongBy(f, T, seq, S)
<1> DEFINE N == Len(seq)
           V == Seq(T \cap S)
           step == [n \in 1 .. N |-> [v \in V |->
                      IF seq[n] \in S THEN Append(v, seq[n]) ELSE v]]
           body(f, n) == IF n = 0 THEN <<>>
                         ELSE IF seq[n] \in S THEN Append(f[n - 1], seq[n]) ELSE f[n - 1]
           Def(f) == f = [n \in 0 .. Len(seq) |-> body(f, n)]
           chosen == CHOOSE f : Def(f)
<1>1. N \in Nat /\ \A n \in 1 .. N : seq[n] \in T
  BY LenProperties
<1>2. <<>> \in V
  BY EmptySeq
<1>3. \A n \in 1 .. N : \A v \in V : step[n][v] \in V
  BY <1>1
<1> HIDE DEF V
<1>4. PICK f : Iterates(f, N, V, <<>>, step)
  <2> HIDE DEF step, N
  <2> QED
    BY <1>1, <1>2, <1>3, Recursion
<1>5. f \in [0 .. N -> V] /\ f[0] = <<>> /\ \A n \in 1 .. N : f[n] = step[n][f[n - 1]]
  BY <1>4 DEF Iterates
<1>6. \A n \in 0 .. N : f[n] = body(f, n)
  <2> SUFFICES ASSUME NEW n \in 1 .. N PROVE f[n] = body(f, n)
    <3>1. f[0] = body(f, 0)
      BY <1>5
    <3> QED
      BY <1>1, <3>1
  <2>1. f[n - 1] \in V
    BY <1>1, <1>5
  <2>2. step[n][f[n - 1]] = IF seq[n] \in S THEN Append(f[n - 1], seq[n]) ELSE f[n - 1]
    BY <2>1
  <2> QED
    BY <1>1, <1>5, <2>2
<1>7. Def(f)
  BY <1>5, <1>6
<1>8. Def(chosen)
  BY <1>7
<1> HIDE DEF chosen
<1>9. \A n \in 0 .. N : chosen[n] \in V
  <2> DEFINE P == {n \in Nat : n <= N => chosen[n] \in V}
  <2>1. 0 \in P
    BY <1>1, <1>2, <1>8
  <2>2. ASSUME NEW n \in Nat, n \in P PROVE n + 1 \in P
    <3> SUFFICES ASSUME n + 1 <= N PROVE chosen[n + 1] \in V
      OBVIOUS
    <3>1. chosen[n] \in V /\ n + 1 \in 0 .. N /\ n + 1 \in 1 .. N
      BY <2>2, <1>1
    <3>2. chosen[n + 1] = body(chosen, n + 1)
      BY <3>1, <1>8
    <3>3. chosen[n + 1] = IF seq[n + 1] \in S THEN Append(chosen[n], seq[n + 1])
                          ELSE chosen[n]
      BY <3>2
    <3> QED
      BY <3>1, <3>3, <1>1 DEF V
  <2>3. Nat \subseteq P
    BY <2>1, <2>2, Induction
  <2> QED
    BY <2>3, <1>1
<1>10. Among(seq, S) = chosen[N]
  BY DEF Among, chosen
<1>11. chosen \in [0 .. N -> V] /\ chosen[0] = <<>>
  BY <1>1, <1>8, <1>9
<1>12. ASSUME NEW n \in 1 .. N
       PROVE  chosen[n] = IF seq[n] \in S THEN Append(chosen[n - 1], seq[n]) ELSE chosen[n - 1]
  <2>1. n \in 0 .. N /\ n # 0
    BY <1>1
  <2>2. chosen[n] = body(chosen, n)
    BY <1>8, <2>1
  <2> QED
    BY <2>1, <2>2
<1>13. AmongBy(chosen, T, seq, S)
  BY <1>10, <1>11, <1>12 DEF AmongBy, V
<1> QED
  BY <1>13

\* Among keeps the elements that are in the set.
LEMMA AmongFacts ==
  ASSUME NEW T, NEW seq \in Seq(T), NEW S
  PROVE  Among(seq, S) \in Seq(T \cap S)
<1>1. PICK f : AmongBy(f, T, seq, S)
  BY AmongSteps
<1>2. Len(seq) \in 0 .. Len(seq)
  BY LenProperties
<1> QED
  BY <1>1, <1>2 DEF AmongBy

\* A concatenation is built from those of the first sequences.
FlattenBy(f, T, seqs) ==
  /\ f \in [1 .. Len(seqs) -> Seq(T)]
  /\ \A n \in 1 .. Len(seqs) : f[n] = IF n = 1 THEN seqs[n] ELSE f[n - 1] \o seqs[n]
  /\ FlattenSeq(seqs) = IF Len(seqs) = 0 THEN <<>> ELSE f[Len(seqs)]

LEMMA FlattenSteps ==
  ASSUME NEW T, NEW seqs \in Seq(Seq(T))
  PROVE  \E f : FlattenBy(f, T, seqs)
<1> DEFINE N == Len(seqs)
           V == Seq(T)
           step == [n \in 1 .. N |-> [v \in V |->
                      IF n = 1 THEN seqs[n] ELSE v \o seqs[n]]]
           body(f, n) == IF n = 1 THEN seqs[n] ELSE f[n - 1] \o seqs[n]
           Def(f) == f = [n \in 1 .. Len(seqs) |-> body(f, n)]
           flatten == CHOOSE f : Def(f)
<1>1. N \in Nat /\ \A n \in 1 .. N : seqs[n] \in V
  BY LenProperties
<1>2. <<>> \in V
  BY EmptySeq
<1>3. \A n \in 1 .. N : \A v \in V : step[n][v] \in V
  BY <1>1, ConcatProperties
<1> HIDE DEF V
<1>4. PICK f : Iterates(f, N, V, <<>>, step)
  <2> HIDE DEF step, N
  <2> QED
    BY <1>1, <1>2, <1>3, Recursion
<1>5. f \in [0 .. N -> V] /\ f[0] = <<>> /\ \A n \in 1 .. N : f[n] = step[n][f[n - 1]]
  BY <1>4 DEF Iterates
<1>6. \A n \in 1 .. N : f[n] = body(f, n)
  <2> SUFFICES ASSUME NEW n \in 1 .. N PROVE f[n] = body(f, n)
    OBVIOUS
  <2>1. f[n - 1] \in V
    <3>1. n - 1 \in 0 .. N
      BY <1>1
    <3> QED
      BY <1>5, <3>1
  <2>2. step[n][f[n - 1]] = IF n = 1 THEN seqs[n] ELSE f[n - 1] \o seqs[n]
    BY <2>1
  <2> QED
    BY <1>1, <1>5, <2>2
<1> DEFINE h == [n \in 1 .. N |-> f[n]]
<1>7. Def(h)
  <2> SUFFICES ASSUME NEW n \in 1 .. N PROVE h[n] = body(h, n)
    OBVIOUS
  <2>1. n # 1 => n - 1 \in 1 .. N
    BY <1>1
  <2>2. h[n] = f[n] /\ (n # 1 => h[n - 1] = f[n - 1])
    BY <2>1
  <2> QED
    BY <1>6, <2>2
<1> HIDE DEF h
<1>8. Def(flatten)
  BY <1>7
<1> HIDE DEF flatten
<1>9. \A n \in 1 .. N : flatten[n] \in V
  <2> DEFINE P == {n \in Nat : n \in 1 .. N => flatten[n] \in V}
  <2>1. 0 \in P
    BY <1>1
  <2>2. ASSUME NEW n \in Nat, n \in P PROVE n + 1 \in P
    <3> SUFFICES ASSUME n + 1 \in 1 .. N PROVE flatten[n + 1] \in V
      OBVIOUS
    <3>1. flatten[n + 1] = body(flatten, n + 1)
      BY <1>8
    <3>2. CASE n = 0
      BY <3>1, <3>2, <1>1
    <3>3. CASE n # 0
      <4>1. n \in 1 .. N /\ n + 1 # 1 /\ (n + 1) - 1 = n
        BY <3>3, <1>1
      <4>2. flatten[n] \in V /\ seqs[n + 1] \in V
        BY <4>1, <2>2, <1>1
      <4>3. flatten[n + 1] = flatten[n] \o seqs[n + 1]
        BY <3>1, <4>1
      <4> QED
        BY <4>2, <4>3, ConcatProperties DEF V
    <3> QED
      BY <3>2, <3>3
  <2>3. Nat \subseteq P
    BY <2>1, <2>2, Induction
  <2> QED
    BY <2>3, <1>1
<1>10. FlattenSeq(seqs) = IF N = 0 THEN seqs ELSE flatten[N]
  BY DEF FlattenSeq, flatten
<1>11. N = 0 => seqs = <<>>
  BY EmptySeq
<1>12. flatten \in [1 .. N -> V]
  BY <1>8, <1>9
<1>13. FlattenBy(flatten, T, seqs)
  BY <1>8, <1>10, <1>11, <1>12 DEF FlattenBy, V
<1> QED
  BY <1>13

\* Concatenating sequences over T gives a sequence over T.
LEMMA FlattenFacts ==
  ASSUME NEW T, NEW seqs \in Seq(Seq(T))
  PROVE  FlattenSeq(seqs) \in Seq(T)
<1>1. PICK f : FlattenBy(f, T, seqs)
  BY FlattenSteps
<1>2. Len(seqs) # 0 => Len(seqs) \in 1 .. Len(seqs)
  BY LenProperties
<1> QED
  BY <1>1, <1>2, EmptySeq DEF FlattenBy

\* A finite set of numbers has a greatest element, and Max is it.
LEMMA Greatest ==
  ASSUME NEW S, S \subseteq Nat, S # {}, IsFiniteSet(S)
  PROVE  Max(S) \in S /\ \A y \in S : Max(S) >= y
<1> DEFINE Top(T) == \E x \in T : \A y \in T : x >= y
           P == {n \in Nat : \A T \in SUBSET Nat :
                               IsFiniteSet(T) /\ Cardinality(T) = n /\ T # {} => Top(T)}
<1>1. 0 \in P
  BY FS_EmptySet
<1>2. ASSUME NEW n \in Nat, n \in P PROVE n + 1 \in P
  <2> SUFFICES ASSUME NEW T \in SUBSET Nat, IsFiniteSet(T), Cardinality(T) = n + 1, T # {}
               PROVE  Top(T)
    OBVIOUS
  <2>1. PICK x \in T : TRUE
    OBVIOUS
  <2> DEFINE U == T \ {x}
  <2>2. IsFiniteSet(U) /\ Cardinality(U) = n
    <3>1. IsFiniteSet(U) /\ Cardinality(U) = Cardinality(T) - 1
      BY <2>1, FS_RemoveElement
    <3> QED
      BY <3>1
  <2>3. CASE U = {}
    BY <2>1, <2>3
  <2>4. CASE U # {}
    <3>1. U \in SUBSET Nat
      OBVIOUS
    <3>2. PICK z \in U : \A y \in U : z >= y
      BY <1>2, <2>2, <2>4, <3>1
    <3>3. CASE x >= z
      <4>1. \A y \in T : x >= y
        BY <3>2, <3>3, <2>1
      <4> QED
        BY <4>1, <2>1
    <3>4. CASE ~(x >= z)
      <4>1. \A y \in T : z >= y
        BY <3>2, <3>4, <2>1
      <4> QED
        BY <4>1, <3>2
    <3> QED
      BY <3>3, <3>4
  <2> QED
    BY <2>3, <2>4
<1>3. Nat \subseteq P
  BY <1>1, <1>2, Induction
<1>4. Cardinality(S) \in Nat
  BY FS_CardinalityType
<1>5. Top(S)
  BY <1>3, <1>4
<1> QED
  BY <1>5 DEF Max

-----------------------------------------------------------------------------
(* Paths.                                                                  *)

\* b is in whatever set has a and is closed under the edges.
Leads(E, a, b) ==
  \A S : a \in S /\ (\A e \in E : e[1] \in S => e[2] \in S) => b \in S

\* has_path finds a path exactly where there is one.
LEMMA HasPathLeads ==
  ASSUME NEW E, NEW a, NEW b
  PROVE  HasPath(E, a, b) <=> Leads(E, a, b)
<1>1. ASSUME HasPath(E, a, b), NEW S, a \in S, \A e \in E : e[1] \in S => e[2] \in S,
             b \notin S
      PROVE  FALSE
  <2> DEFINE R == S \cap ({e[2] : e \in E} \ {a, b})
  <2>1. a # b
    BY <1>1
  <2>2. R \in SUBSET ({e[2] : e \in E} \ {a, b})
    OBVIOUS
  <2>3. PICK e \in E : e[1] \in R \cup {a} /\ e[2] \notin R \cup {a}
    BY <1>1, <2>1, <2>2 DEF HasPath
  <2>4. e[2] \in S
    BY <1>1, <2>3
  <2> QED
    BY <1>1, <2>3, <2>4
<1>2. ASSUME Leads(E, a, b), a # b, NEW S \in SUBSET ({e[2] : e \in E} \ {a, b})
      PROVE  \E e \in E : e[1] \in S \cup {a} /\ e[2] \notin S \cup {a}
  <2> SUFFICES ASSUME \A e \in E : e[1] \in S \cup {a} => e[2] \in S \cup {a} PROVE FALSE
    OBVIOUS
  <2>1. b \in S \cup {a}
    BY <1>2 DEF Leads
  <2> QED
    BY <1>2, <2>1
<1>3. HasPath(E, a, b) => Leads(E, a, b)
  BY <1>1 DEF Leads
<1>4. Leads(E, a, b) => HasPath(E, a, b)
  BY <1>2 DEF HasPath
<1> QED
  BY <1>3, <1>4

LEMMA LeadsFacts ==
  ASSUME NEW E
  PROVE  /\ \A a : Leads(E, a, a)
         /\ \A e \in E : Leads(E, e[1], e[2])
         /\ \A a, b, c : Leads(E, a, b) /\ Leads(E, b, c) => Leads(E, a, c)
         /\ \A F, a, b : E \subseteq F /\ Leads(E, a, b) => Leads(F, a, b)
<1>1. \A a : Leads(E, a, a)
  BY DEF Leads
<1>2. \A e \in E : Leads(E, e[1], e[2])
  BY DEF Leads
<1>3. \A a, b, c : Leads(E, a, b) /\ Leads(E, b, c) => Leads(E, a, c)
  BY DEF Leads
<1>4. \A F, a, b : E \subseteq F /\ Leads(E, a, b) => Leads(F, a, b)
  BY DEF Leads
<1> QED
  BY <1>1, <1>2, <1>3, <1>4

-----------------------------------------------------------------------------
(* Levels.                                                                 *)

Before(E, f, s) == {f[e[1]] : e \in {x \in E : x[2] = s}}
Above(E, f, s)  == 1 + Max({0} \cup Before(E, f, s))

\* One more than the highest level of the predecessors.
LEMMA AboveFacts ==
  ASSUME NEW E, IsFiniteSet(E), NEW f, NEW s,
         \A e \in E : e[2] = s => f[e[1]] \in Nat
  PROVE  /\ Above(E, f, s) \in Nat
         /\ \A e \in E : e[2] = s => f[e[1]] < Above(E, f, s)
<1> DEFINE I == {x \in E : x[2] = s}
           S == {0} \cup Before(E, f, s)
<1>1. IsFiniteSet(I)
  BY FS_Subset
<1>2. IsFiniteSet(Before(E, f, s))
  <2> DEFINE h == [e \in I |-> f[e[1]]]
  <2>1. h \in Surjection(I, Before(E, f, s))
    BY DEF Surjection, Before
  <2> QED
    BY <1>1, <2>1, FS_Surjection
<1>3. IsFiniteSet(S)
  BY <1>2, FS_AddElement, FS_Singleton, FS_Union
<1>4. S \subseteq Nat /\ S # {}
  BY DEF Before
<1>5. Max(S) \in S /\ \A y \in S : Max(S) >= y
  BY <1>3, <1>4, Greatest
<1>6. Above(E, f, s) = 1 + Max(S)
  BY DEF Above
<1>7. \A e \in E : e[2] = s => f[e[1]] \in S
  BY DEF Before
<1> DEFINE m == Max(S)
<1>8. m \in Nat /\ \A y \in S : m >= y
  BY <1>4, <1>5
<1>9. Above(E, f, s) = 1 + m
  BY <1>6
<1> HIDE DEF S, m
<1>10. ASSUME NEW e \in E, e[2] = s PROVE f[e[1]] < Above(E, f, s)
  <2>1. f[e[1]] \in Nat /\ m >= f[e[1]]
    BY <1>7, <1>8, <1>10
  <2> QED
    BY <1>8, <1>9, <2>1
<1> QED
  BY <1>8, <1>9, <1>10

Acyclic(E) == \A e \in E : ~Leads(E, e[2], e[1])

\* How many nodes lead to a node: it grows along every edge of an acyclic graph.
Rank(N, E, s) == Cardinality({x \in N : Leads(E, x, s)})

LEMMA RankFacts ==
  ASSUME NEW N, IsFiniteSet(N), NEW E \in SUBSET (N \X N), Acyclic(E)
  PROVE  /\ \A s \in N : Rank(N, E, s) \in 1 .. Cardinality(N)
         /\ \A e \in E : Rank(N, E, e[1]) < Rank(N, E, e[2])
<1> DEFINE into(s) == {x \in N : Leads(E, x, s)}
<1>1. \A s : into(s) \in SUBSET N /\ IsFiniteSet(into(s)) /\ Cardinality(into(s)) \in Nat
             /\ Cardinality(into(s)) <= Cardinality(N)
  BY FS_Subset, FS_CardinalityType
<1>2. ASSUME NEW s \in N PROVE Rank(N, E, s) \in 1 .. Cardinality(N)
  <2>1. s \in into(s)
    BY LeadsFacts
  <2>2. Cardinality(into(s)) # 0
    BY <2>1, <1>1, FS_EmptySet
  <2>3. Cardinality(N) \in Nat
    BY FS_CardinalityType
  <2> QED
    BY <1>1, <2>2, <2>3 DEF Rank
<1>3. ASSUME NEW e \in E PROVE Rank(N, E, e[1]) < Rank(N, E, e[2])
  <2>1. into(e[1]) \subseteq into(e[2])
    BY LeadsFacts
  <2>2. e[2] \in into(e[2]) /\ e[2] \notin into(e[1])
    BY LeadsFacts DEF Acyclic
  <2>3. /\ Cardinality(into(e[1])) <= Cardinality(into(e[2]))
        /\ Cardinality(into(e[2])) # Cardinality(into(e[1]))
    BY <1>1, <2>1, <2>2, FS_Subset
  <2> QED
    BY <1>1, <2>3 DEF Rank
<1> QED
  BY <1>2, <1>3

\* An acyclic graph has levels, and they grow along every path.
Levels(N, E, f) == f = [s \in N |-> Above(E, f, s)]

LEMMA LevelsExist ==
  ASSUME NEW N, IsFiniteSet(N), NEW E \in SUBSET (N \X N), Acyclic(E)
  PROVE  \E f : Levels(N, E, f)
<1> DEFINE right(f, n) == \A s \in N : Rank(N, E, s) <= n => f[s] = Above(E, f, s)
           P == {n \in Nat : \E f \in [N -> Nat] : right(f, n)}
<1>0. IsFiniteSet(E)
  BY FS_Product, FS_Subset
<1>1. 0 \in P
  <2>1. [s \in N |-> 0] \in [N -> Nat]
    OBVIOUS
  <2>2. \A s \in N : ~(Rank(N, E, s) <= 0)
    BY RankFacts, FS_CardinalityType
  <2> QED
    BY <2>1, <2>2
<1>2. ASSUME NEW n \in Nat, n \in P PROVE n + 1 \in P
  <2>1. PICK f \in [N -> Nat] : right(f, n)
    BY <1>2
  <2> DEFINE g == [s \in N |-> Above(E, f, s)]
  <2>2. g \in [N -> Nat]
    <3> SUFFICES ASSUME NEW s \in N PROVE Above(E, f, s) \in Nat
      OBVIOUS
    <3>1. \A e \in E : e[1] \in N
      OBVIOUS
    <3>2. \A e \in E : e[2] = s => f[e[1]] \in Nat
      BY <3>1
    <3> QED
      BY <1>0, <3>2, AboveFacts
  <2>3. ASSUME NEW s \in N, Rank(N, E, s) <= n + 1 PROVE g[s] = Above(E, g, s)
    <3>1. ASSUME NEW e \in E, e[2] = s PROVE g[e[1]] = f[e[1]]
      <4>1. e[1] \in N /\ Rank(N, E, e[1]) < Rank(N, E, s)
        BY <3>1, RankFacts
      <4>2. Rank(N, E, e[1]) \in Int /\ Rank(N, E, s) \in Int
        BY <4>1, RankFacts, FS_CardinalityType
      <4>3. Rank(N, E, e[1]) <= n
        BY <2>3, <4>1, <4>2
      <4> QED
        BY <2>1, <4>1, <4>3
    <3>2. Before(E, g, s) = Before(E, f, s)
      BY <3>1 DEF Before
    <3> QED
      BY <3>2 DEF Above
  <2> HIDE DEF g
  <2> QED
    BY <2>2, <2>3
<1>3. Cardinality(N) \in P
  BY <1>1, <1>2, Induction, FS_CardinalityType
<1>4. PICK f \in [N -> Nat] : right(f, Cardinality(N))
  BY <1>3
<1>5. \A s \in N : Rank(N, E, s) <= Cardinality(N)
  BY RankFacts, FS_CardinalityType
<1>6. Levels(N, E, f)
  BY <1>4, <1>5 DEF Levels
<1> QED
  BY <1>6

LEMMA LevelsFacts ==
  ASSUME NEW N, IsFiniteSet(N), NEW E \in SUBSET (N \X N), Acyclic(E),
         NEW f, Levels(N, E, f)
  PROVE  /\ f \in [N -> Nat]
         /\ \A e \in E : f[e[1]] < f[e[2]]
         /\ \A a, b : Leads(E, a, b) /\ a # b => f[a] # f[b]
<1>0. IsFiniteSet(E) /\ \A e \in E : e[1] \in N /\ e[2] \in N
  BY FS_Product, FS_Subset
<1> DEFINE P == {n \in Nat : \A s \in N : Rank(N, E, s) <= n => f[s] \in Nat}
<1>1. 0 \in P
  BY RankFacts, FS_CardinalityType
<1>2. ASSUME NEW n \in Nat, n \in P PROVE n + 1 \in P
  <2> SUFFICES ASSUME NEW s \in N, Rank(N, E, s) <= n + 1 PROVE f[s] \in Nat
    OBVIOUS
  <2>1. ASSUME NEW e \in E, e[2] = s PROVE f[e[1]] \in Nat
    <3>1. e[1] \in N /\ Rank(N, E, e[1]) < Rank(N, E, s)
      BY <2>1, <1>0, RankFacts
    <3>2. Rank(N, E, e[1]) \in Int /\ Rank(N, E, s) \in Int
      BY <3>1, RankFacts, FS_CardinalityType
    <3>3. Rank(N, E, e[1]) <= n
      BY <3>1, <3>2
    <3> QED
      BY <1>2, <3>1, <3>3
  <2>2. Above(E, f, s) \in Nat
    BY <1>0, <2>1, AboveFacts
  <2> QED
    BY <2>2 DEF Levels
<1>3. Cardinality(N) \in P
  BY <1>1, <1>2, Induction, FS_CardinalityType
<1>4. \A s \in N : f[s] \in Nat
  <2>1. \A s \in N : Rank(N, E, s) <= Cardinality(N)
    BY RankFacts, FS_CardinalityType
  <2> QED
    BY <1>3, <2>1
<1>5. f \in [N -> Nat]
  BY <1>4 DEF Levels
<1>6. ASSUME NEW e \in E PROVE f[e[1]] < f[e[2]]
  <2> DEFINE s == e[2]
  <2>1. s \in N /\ \A x \in E : x[2] = s => f[x[1]] \in Nat
    BY <1>0, <1>4
  <2>2. f[e[1]] < Above(E, f, s)
    BY <1>0, <2>1, AboveFacts
  <2>3. f[s] = Above(E, f, s)
    BY <2>1 DEF Levels
  <2> QED
    BY <2>2, <2>3
<1>7. ASSUME NEW a, NEW b, Leads(E, a, b), a # b PROVE f[a] # f[b]
  <2> DEFINE S == {a} \cup {x \in N : a \in N /\ f[a] < f[x]}
  <2>1. ASSUME NEW e \in E, e[1] \in S PROVE e[2] \in S
    <3>1. e[1] \in N /\ e[2] \in N /\ f[e[1]] < f[e[2]] /\ f[e[1]] \in Nat /\ f[e[2]] \in Nat
      BY <1>0, <1>4, <1>6
    <3>2. CASE e[1] = a
      BY <3>1, <3>2
    <3>3. CASE e[1] # a
      <4>1. a \in N /\ f[a] < f[e[1]] /\ f[a] \in Nat
        BY <2>1, <3>3, <1>4
      <4>2. f[a] < f[e[2]]
        BY <3>1, <4>1
      <4> QED
        BY <3>1, <4>1, <4>2
    <3> QED
      BY <3>2, <3>3
  <2>2. b \in S
    BY <1>7, <2>1 DEF Leads
  <2>3. a \in N /\ b \in N /\ f[a] < f[b]
    BY <1>7, <2>2
  <2> QED
    BY <2>3, <1>4
<1> QED
  BY <1>5, <1>6, <1>7

\* The levels of the model are levels of the graph.
LEMMA LevelInFacts ==
  ASSUME NEW E \in SUBSET ((Registered \cup {Barrier}) \X (Registered \cup {Barrier})),
         IsFiniteSet(Registered), ~Cyclic(E)
  PROVE  /\ \A a, b : Leads(E, a, b) /\ a # b => LevelIn(E)[a] # LevelIn(E)[b]
         /\ \A s \in Registered : LevelIn(E)[s] \in Nat
         /\ \A e \in E : LevelIn(E)[e[1]] < LevelIn(E)[e[2]]
<1> DEFINE N == Registered \cup {Barrier}
<1>1. IsFiniteSet(N)
  BY FS_AddElement
<1>2. Acyclic(E)
  BY HasPathLeads DEF Acyclic, Cyclic
<1>3. LevelIn(E) = CHOOSE f : Levels(N, E, f)
  BY DEF LevelIn, Levels, Above, Before
<1> HIDE DEF N
<1>4. Levels(N, E, LevelIn(E))
  <2>1. E \in SUBSET (N \X N)
    BY DEF N
  <2>2. \E f : Levels(N, E, f)
    BY <1>1, <1>2, <2>1, LevelsExist
  <2> QED
    BY <1>3, <2>2
<1> QED
  BY <1>1, <1>2, <1>4, LevelsFacts DEF N

-----------------------------------------------------------------------------
(* Conflicts.                                                              *)

Holding(a, b) == {n \in 1 .. 8 : Checks(a, b)[n][1]}

\* The first check that holds decides.
LEMMA FirstDecides ==
  ASSUME NEW a, NEW b, NEW n \in Holding(a, b), \A m \in Holding(a, b) : n <= m
  PROVE  Conflict(a, b) = Checks(a, b)[n][2]
<1> DEFINE checks == Checks(a, b)
           holding == {m \in DOMAIN checks : checks[m][1]}
<1>1. DOMAIN checks = 1 .. 8
  BY DEF Checks
<1>2. Conflict(a, b) = IF holding = {} THEN "none" ELSE checks[Min(holding)][2]
  BY DEF Conflict
<1>3. holding = Holding(a, b)
  <2> HIDE DEF checks
  <2> QED
    BY <1>1 DEF checks, Holding
<1> HIDE DEF holding, checks
<1>4. holding \subseteq Nat /\ n \in holding
  BY <1>3 DEF Holding
<1>5. Min(holding) \in holding /\ Min(holding) <= n
  BY <1>4, Least
<1> DEFINE k == Min(holding)
<1>6. k = n
  <2>1. k \in Nat /\ n \in Nat /\ k <= n /\ n <= k
    BY <1>3, <1>4, <1>5
  <2> HIDE DEF k
  <2> QED
    BY <2>1
<1>7. Conflict(a, b) = checks[n][2]
  BY <1>2, <1>4, <1>6
<1> QED
  BY <1>7 DEF checks

ConflictCases(a, b) ==
  LET kind == Conflict(a, b)
      both == Feeds(a, b) /\ Feeds(b, a)
      data == WholeWorld(a, b) \/ Writes(a, b) \/ Feeds(a, b) \/ Feeds(b, a)
      emit == eventOrdering /\ Emits(a, b)
      ab   == eventOrdering /\ Sends(a, b)
      ba   == eventOrdering /\ Sends(b, a)
  IN  \/ (WholeWorld(a, b) \/ Writes(a, b)) /\ kind = "write write"
      \/ ~(WholeWorld(a, b) \/ Writes(a, b)) /\ both /\ kind = "both ways"
      \/ ~(WholeWorld(a, b) \/ Writes(a, b)) /\ ~both /\ Feeds(a, b) /\ kind = "forward"
      \/ ~(WholeWorld(a, b) \/ Writes(a, b)) /\ ~both /\ Feeds(b, a) /\ kind = "backward"
      \/ ~data /\ emit /\ kind = "emit emit"
      \/ ~data /\ ~emit /\ ab /\ kind = "forward"
      \/ ~data /\ ~emit /\ ~ab /\ ba /\ kind = "backward"
      \/ ~data /\ ~emit /\ ~ab /\ ~ba /\ Listens(a, b) /\ kind = "listen listen"
      \/ ~data /\ ~emit /\ ~ab /\ ~ba /\ ~Listens(a, b) /\ kind = "none"

\* The same, check by check.
LEMMA ConflictTable ==
  ASSUME NEW a, NEW b
  PROVE  ConflictCases(a, b)
<1> DEFINE H == Holding(a, b)
<1>1. /\ 1 \in H <=> (WholeWorld(a, b) \/ Writes(a, b))
      /\ 2 \in H <=> (Feeds(a, b) /\ Feeds(b, a))
      /\ 3 \in H <=> (Feeds(a, b))
      /\ 4 \in H <=> (Feeds(b, a))
      /\ 5 \in H <=> (eventOrdering /\ Emits(a, b))
      /\ 6 \in H <=> (eventOrdering /\ Sends(a, b))
      /\ 7 \in H <=> (eventOrdering /\ Sends(b, a))
      /\ 8 \in H <=> (Listens(a, b))
  <2>1. 1 \in H <=> (WholeWorld(a, b) \/ Writes(a, b))
    <3>1. Checks(a, b)[1][1] <=> (WholeWorld(a, b) \/ Writes(a, b))
      BY DEF Checks
    <3> QED
      BY <3>1 DEF Holding
  <2>2. 2 \in H <=> (Feeds(a, b) /\ Feeds(b, a))
    <3>1. Checks(a, b)[2][1] <=> (Feeds(a, b) /\ Feeds(b, a))
      BY DEF Checks
    <3> QED
      BY <3>1 DEF Holding
  <2>3. 3 \in H <=> (Feeds(a, b))
    <3>1. Checks(a, b)[3][1] <=> (Feeds(a, b))
      BY DEF Checks
    <3> QED
      BY <3>1 DEF Holding
  <2>4. 4 \in H <=> (Feeds(b, a))
    <3>1. Checks(a, b)[4][1] <=> (Feeds(b, a))
      BY DEF Checks
    <3> QED
      BY <3>1 DEF Holding
  <2>5. 5 \in H <=> (eventOrdering /\ Emits(a, b))
    <3>1. Checks(a, b)[5][1] <=> (eventOrdering /\ Emits(a, b))
      BY DEF Checks
    <3> QED
      BY <3>1 DEF Holding
  <2>6. 6 \in H <=> (eventOrdering /\ Sends(a, b))
    <3>1. Checks(a, b)[6][1] <=> (eventOrdering /\ Sends(a, b))
      BY DEF Checks
    <3> QED
      BY <3>1 DEF Holding
  <2>7. 7 \in H <=> (eventOrdering /\ Sends(b, a))
    <3>1. Checks(a, b)[7][1] <=> (eventOrdering /\ Sends(b, a))
      BY DEF Checks
    <3> QED
      BY <3>1 DEF Holding
  <2>8. 8 \in H <=> (Listens(a, b))
    <3>1. Checks(a, b)[8][1] <=> (Listens(a, b))
      BY DEF Checks
    <3> QED
      BY <3>1 DEF Holding
  <2> QED
    BY <2>1, <2>2, <2>3, <2>4, <2>5, <2>6, <2>7, <2>8
<1>2. /\ Checks(a, b)[1][2] = "write write"
      /\ Checks(a, b)[2][2] = "both ways"
      /\ Checks(a, b)[3][2] = "forward"
      /\ Checks(a, b)[4][2] = "backward"
      /\ Checks(a, b)[5][2] = "emit emit"
      /\ Checks(a, b)[6][2] = "forward"
      /\ Checks(a, b)[7][2] = "backward"
      /\ Checks(a, b)[8][2] = "listen listen"
  BY DEF Checks
<1>3. H \subseteq 1 .. 8
  BY DEF Holding
<1> HIDE DEF H
<1>4. 1 \in H
        => Conflict(a, b) = "write write"
  <2> SUFFICES ASSUME 1 \in H PROVE Conflict(a, b) = "write write"
    OBVIOUS
  <2>1. \A m \in H : 1 <= m
    BY <1>3
  <2>2. Conflict(a, b) = Checks(a, b)[1][2]
    BY <2>1, FirstDecides DEF H
  <2> QED
    BY <1>2, <2>2
<1>5. 1 \notin H /\ 2 \in H
        => Conflict(a, b) = "both ways"
  <2> SUFFICES ASSUME 1 \notin H, 2 \in H PROVE Conflict(a, b) = "both ways"
    OBVIOUS
  <2>1. \A m \in H : 2 <= m
    BY <1>3
  <2>2. Conflict(a, b) = Checks(a, b)[2][2]
    BY <2>1, FirstDecides DEF H
  <2> QED
    BY <1>2, <2>2
<1>6. 1 \notin H /\ 2 \notin H /\ 3 \in H
        => Conflict(a, b) = "forward"
  <2> SUFFICES ASSUME 1 \notin H, 2 \notin H, 3 \in H
               PROVE  Conflict(a, b) = "forward"
    OBVIOUS
  <2>1. \A m \in H : 3 <= m
    BY <1>3
  <2>2. Conflict(a, b) = Checks(a, b)[3][2]
    BY <2>1, FirstDecides DEF H
  <2> QED
    BY <1>2, <2>2
<1>7. 1 \notin H /\ 2 \notin H /\ 3 \notin H /\ 4 \in H
        => Conflict(a, b) = "backward"
  <2> SUFFICES ASSUME 1 \notin H, 2 \notin H, 3 \notin H, 4 \in H
               PROVE  Conflict(a, b) = "backward"
    OBVIOUS
  <2>1. \A m \in H : 4 <= m
    BY <1>3
  <2>2. Conflict(a, b) = Checks(a, b)[4][2]
    BY <2>1, FirstDecides DEF H
  <2> QED
    BY <1>2, <2>2
<1>8. 1 \notin H /\ 2 \notin H /\ 3 \notin H /\ 4 \notin H /\ 5 \in H
        => Conflict(a, b) = "emit emit"
  <2> SUFFICES ASSUME 1 \notin H, 2 \notin H, 3 \notin H, 4 \notin H, 5 \in H
               PROVE  Conflict(a, b) = "emit emit"
    OBVIOUS
  <2>1. \A m \in H : 5 <= m
    BY <1>3
  <2>2. Conflict(a, b) = Checks(a, b)[5][2]
    BY <2>1, FirstDecides DEF H
  <2> QED
    BY <1>2, <2>2
<1>9. 1 \notin H /\ 2 \notin H /\ 3 \notin H /\ 4 \notin H /\ 5 \notin H /\ 6 \in H
        => Conflict(a, b) = "forward"
  <2> SUFFICES ASSUME 1 \notin H, 2 \notin H, 3 \notin H, 4 \notin H, 5 \notin H,
                      6 \in H
               PROVE  Conflict(a, b) = "forward"
    OBVIOUS
  <2>1. \A m \in H : 6 <= m
    BY <1>3
  <2>2. Conflict(a, b) = Checks(a, b)[6][2]
    BY <2>1, FirstDecides DEF H
  <2> QED
    BY <1>2, <2>2
<1>10. 1 \notin H /\ 2 \notin H /\ 3 \notin H /\ 4 \notin H /\ 5 \notin H /\ 6 \notin H /\ 7 \in H
        => Conflict(a, b) = "backward"
  <2> SUFFICES ASSUME 1 \notin H, 2 \notin H, 3 \notin H, 4 \notin H, 5 \notin H,
                      6 \notin H, 7 \in H
               PROVE  Conflict(a, b) = "backward"
    OBVIOUS
  <2>1. \A m \in H : 7 <= m
    BY <1>3
  <2>2. Conflict(a, b) = Checks(a, b)[7][2]
    BY <2>1, FirstDecides DEF H
  <2> QED
    BY <1>2, <2>2
<1>11. 1 \notin H /\ 2 \notin H /\ 3 \notin H /\ 4 \notin H /\ 5 \notin H /\ 6 \notin H /\ 7 \notin H /\ 8 \in H
        => Conflict(a, b) = "listen listen"
  <2> SUFFICES ASSUME 1 \notin H, 2 \notin H, 3 \notin H, 4 \notin H, 5 \notin H,
                      6 \notin H, 7 \notin H, 8 \in H
               PROVE  Conflict(a, b) = "listen listen"
    OBVIOUS
  <2>1. \A m \in H : 8 <= m
    BY <1>3
  <2>2. Conflict(a, b) = Checks(a, b)[8][2]
    BY <2>1, FirstDecides DEF H
  <2> QED
    BY <1>2, <2>2
<1>12. H = {} => Conflict(a, b) = "none"
  <2> DEFINE checks == Checks(a, b)
  <2>1. DOMAIN checks = 1 .. 8
    BY DEF Checks
  <2>2. {n \in DOMAIN checks : checks[n][1]} = H
    <3> HIDE DEF checks
    <3> QED
      BY <2>1 DEF checks, H, Holding
  <2> QED
    BY <2>2 DEF Conflict
<1>13. H # {} => \E n \in 1 .. 8 : n \in H
  BY <1>3
<1>14. H # {} => \/ 1 \in H \/ 2 \in H \/ 3 \in H \/ 4 \in H
                 \/ 5 \in H \/ 6 \in H \/ 7 \in H \/ 8 \in H
  BY <1>13
<1> QED
  BY <1>1, <1>4, <1>5, <1>6, <1>7, <1>8, <1>9, <1>10, <1>11, <1>12, <1>14 DEF ConflictCases

\* Who is looked at first does not change what two systems share.
LEMMA Mutual ==
  ASSUME NEW a, NEW b
  PROVE  /\ WholeWorld(a, b) <=> WholeWorld(b, a)
         /\ Writes(a, b) <=> Writes(b, a)
         /\ Emits(a, b) <=> Emits(b, a)
         /\ Listens(a, b) <=> Listens(b, a)
  BY DEF WholeWorld, Writes, Emits, Listens

\* Systems that race have a conflict, and a conflict has one direction, whoever
\* is looked at first.
LEMMA ConflictFacts ==
  ASSUME NEW a, NEW b, eventOrdering
  PROVE  /\ Races(a, b) /\ Declares(a) /\ Declares(b) =>
              Conflict(a, b) \in Symmetric \cup {"both ways", "forward", "backward"}
         /\ Conflict(a, b) = "backward" => Conflict(b, a) = "forward"
         /\ Conflict(a, b) = "forward" => Conflict(b, a) \in {"forward", "backward"}
         /\ Races(a, b) <=> Races(b, a)
<1>1. Races(a, b) /\ Declares(a) /\ Declares(b) =>
              Conflict(a, b) \in Symmetric \cup {"both ways", "forward", "backward"}
  <2>1. ConflictCases(a, b)
    BY ConflictTable
  <2> QED
    BY <2>1 DEF ConflictCases, Races, SharesData, WholeWorld, Symmetric
<1>2. Races(a, b) <=> Races(b, a)
  BY Mutual DEF Races, SharesData
<1>3. /\ Conflict(a, b) = "backward" => Conflict(b, a) = "forward"
      /\ Conflict(a, b) = "forward" => Conflict(b, a) \in {"forward", "backward"}
  <2>1. ConflictCases(a, b) /\ ConflictCases(b, a)
    BY ConflictTable
  <2>2. "none" # "forward" /\ "none" # "backward"
    OBVIOUS
  <2> QED
    BY <2>1, <2>2, Mutual DEF ConflictCases
<1> QED
  BY <1>1, <1>2, <1>3

-----------------------------------------------------------------------------
(* The edges of a compiled graph.                                          *)

\* Every pair of places comes up once in a walk over a square.
LEMMA DivFacts ==
  ASSUME NEW n \in Nat \ {0}, NEW i \in 1 .. n, NEW j \in 1 .. n
  PROVE  \E k \in 1 .. n * n : ((k - 1) \div n) + 1 = i /\ ((k - 1) % n) + 1 = j
<1> DEFINE a == i - 1
           b == j - 1
           m == a * n
<1>1. a \in 0 .. n - 1 /\ b \in 0 .. n - 1 /\ m \in Nat
  OBVIOUS
<1>2. (m + b) \div n = a /\ (m + b) % n = b
  <2>1. m = n * a
    OBVIOUS
  <2> HIDE DEF a, b
  <2> QED
    BY <1>1 DEF m
<1>3. m + b + 1 \in 1 .. n * n
  <2>1. m <= (n - 1) * n
    BY <1>1
  <2>2. (n - 1) * n = n * n - n
    OBVIOUS
  <2> QED
    BY <1>1, <2>1, <2>2
<1> DEFINE k == m + b + 1
<1>4. k \in 1 .. n * n /\ k - 1 = m + b
  BY <1>1, <1>3
<1>5. ((k - 1) \div n) + 1 = i /\ ((k - 1) % n) + 1 = j
  BY <1>2, <1>4
<1> QED
  BY <1>4, <1>5
LEMMA ModFacts ==
  ASSUME NEW n \in Nat \ {0}, NEW k \in 1 .. n * n
  PROVE  ((k - 1) \div n) + 1 \in 1 .. n /\ ((k - 1) % n) + 1 \in 1 .. n
<1> DEFINE d == (k - 1) \div n
           r == (k - 1) % n
<1>1. d \in Int /\ r \in 0 .. n - 1 /\ k - 1 = n * d + r
  OBVIOUS
<1> HIDE DEF d, r
<1>2. d >= 0
  <2>1. CASE d <= -1
    <3>1. n * d <= -n
      BY <1>1, <2>1
    <3> QED
      BY <1>1, <3>1
  <2> QED
    BY <1>1, <2>1
<1>3. d <= n - 1
  <2>1. CASE d >= n
    <3>1. n * d >= n * n
      BY <1>1, <2>1
    <3> QED
      BY <1>1, <3>1
  <2> QED
    BY <1>1, <2>1
<1> QED
  BY <1>1, <1>2, <1>3 DEF d, r

Base(order) == WithBarrier(Without(edges, Barrier) \cup ExplicitEdges(order))

Row(k) == ((k - 1) \div Len(systems)) + 1
Col(k) == ((k - 1) % Len(systems)) + 1

\* The steps of add_new_nodes_and_edges.
Grows(after, order) ==
  LET n == Len(systems)
  IN  /\ after[0] = Base(order)
      /\ \A k \in 1 .. n * n :
            after[k] = after[k - 1] \cup ConflictEdges(after[k - 1], order, Row(k), Col(k))
      /\ NewEdges(order) = after[n * n]

Declaring == {s \in Registered : Declares(s)}

LEMMA ConflictEdgesFacts ==
  ASSUME NEW E, NEW order, NEW i \in DOMAIN systems, NEW j \in DOMAIN systems
  PROVE  ConflictEdges(E, order, i, j) \subseteq Declaring \X Declaring
<1>1. systems[i] \in Registered /\ systems[j] \in Registered
  BY DEF Registered, ToSet
<1>2. ASSUME NEW e \in ConflictEdges(E, order, i, j)
      PROVE  /\ Declares(systems[i]) /\ Declares(systems[j])
             /\ e \in {<<systems[i], systems[j]>>, <<systems[j], systems[i]>>}
  BY DEF ConflictEdges
<1> QED
  BY <1>1, <1>2 DEF Declaring

LEMMA Growth ==
  ASSUME NEW T, systems \in Seq(T), NEW order
  PROVE  \E after : Grows(after, order)
<1> DEFINE n == Len(systems)
           N == n * n
           V == SUBSET (Base(order) \cup (Declaring \X Declaring))
           step == [k \in 1 .. N |-> [E \in V |->
                      E \cup ConflictEdges(E, order, Row(k), Col(k))]]
           body(f, k) == IF k = 0 THEN Base(order)
                         ELSE f[k - 1] \cup ConflictEdges(f[k - 1], order, Row(k), Col(k))
           Def(f) == f = [k \in 0 .. N |-> body(f, k)]
           after == CHOOSE f : Def(f)
<1>1. n \in Nat /\ N \in Nat /\ DOMAIN systems = 1 .. n
  BY LenProperties
<1>2. \A k \in 1 .. N : Row(k) \in DOMAIN systems /\ Col(k) \in DOMAIN systems
  <2> SUFFICES ASSUME NEW k \in 1 .. N
               PROVE  Row(k) \in DOMAIN systems /\ Col(k) \in DOMAIN systems
    OBVIOUS
  <2>1. n # 0
    BY <1>1
  <2>2. n \in Nat \ {0}
    BY <1>1, <2>1
  <2> QED
    BY <1>1, <2>2, ModFacts DEF Row, Col
<1>3. \A k \in 1 .. N : \A E \in V : step[k][E] \in V
  BY <1>2, ConflictEdgesFacts
<1>4. Base(order) \in V
  OBVIOUS
<1>5. PICK f : Iterates(f, N, V, Base(order), step)
  <2> HIDE DEF step, N, V
  <2> QED
    BY <1>1, <1>3, <1>4, Recursion
<1>6. f \in [0 .. N -> V] /\ f[0] = Base(order) /\ \A k \in 1 .. N : f[k] = step[k][f[k - 1]]
  BY <1>5 DEF Iterates
<1> HIDE DEF V
<1>7. \A k \in 0 .. N : f[k] = body(f, k)
  <2>1. ASSUME NEW k \in 1 .. N PROVE f[k] = body(f, k)
    <3>1. k - 1 \in 0 .. N
      BY <1>1
    <3>2. f[k - 1] \in V
      BY <1>6, <3>1
    <3> QED
      BY <1>6, <3>2
  <2>2. f[0] = body(f, 0)
    BY <1>6
  <2>3. \A k \in 0 .. N : k = 0 \/ k \in 1 .. N
    BY <1>1
  <2> HIDE DEF body, N
  <2> QED
    BY <2>1, <2>2, <2>3
<1>8. Def(f)
  BY <1>6, <1>7
<1>9. Def(after)
  BY <1>8
<1> HIDE DEF after
<1>10. after[0] = Base(order)
  BY <1>1, <1>9
<1>11. \A k \in 1 .. N :
          after[k] = after[k - 1] \cup ConflictEdges(after[k - 1], order, Row(k), Col(k))
  <2> SUFFICES ASSUME NEW k \in 1 .. N
               PROVE  after[k] = after[k - 1]
                                 \cup ConflictEdges(after[k - 1], order, Row(k), Col(k))
    OBVIOUS
  <2>1. k \in 0 .. N /\ k # 0
    BY <1>1
  <2> QED
    BY <1>9, <2>1
<1>12. NewEdges(order) = after[N]
  BY DEF NewEdges, after, Base, Row, Col
<1> QED
  BY <1>10, <1>11, <1>12 DEF Grows

\* The edges only grow, and every pair of systems has been compared.
LEMMA NewEdgesFacts ==
  ASSUME NEW T, systems \in Seq(T), NEW order
  PROVE  /\ Base(order) \subseteq NewEdges(order)
         /\ NewEdges(order) \subseteq Base(order) \cup (Declaring \X Declaring)
         /\ \A i, j \in DOMAIN systems :
               \E E \in SUBSET NewEdges(order) :
                  ConflictEdges(E, order, i, j) \subseteq NewEdges(order)
<1> DEFINE n == Len(systems)
           N == n * n
<1>1. n \in Nat /\ N \in Nat /\ DOMAIN systems = 1 .. n
  BY LenProperties
<1>2. PICK after : Grows(after, order)
  BY Growth
<1>3. /\ after[0] = Base(order)
      /\ \A k \in 1 .. N :
            after[k] = after[k - 1] \cup ConflictEdges(after[k - 1], order, Row(k), Col(k))
      /\ NewEdges(order) = after[N]
  BY <1>2 DEF Grows
<1>4. \A k \in 1 .. N : Row(k) \in DOMAIN systems /\ Col(k) \in DOMAIN systems
  <2> SUFFICES ASSUME NEW k \in 1 .. N
               PROVE  Row(k) \in DOMAIN systems /\ Col(k) \in DOMAIN systems
    OBVIOUS
  <2>1. n # 0
    BY <1>1
  <2>2. n \in Nat \ {0}
    BY <1>1, <2>1
  <2> QED
    BY <1>1, <2>2, ModFacts DEF Row, Col
<1> HIDE DEF N
<1>5. \A k \in 0 .. N : Base(order) \subseteq after[k]
  <2> DEFINE P == {k \in Nat : k <= N => Base(order) \subseteq after[k]}
  <2>1. 0 \in P
    BY <1>3
  <2>2. ASSUME NEW k \in Nat, k \in P PROVE k + 1 \in P
    <3> SUFFICES ASSUME k + 1 <= N PROVE Base(order) \subseteq after[k + 1]
      OBVIOUS
    <3>1. k + 1 \in 1 .. N /\ (k + 1) - 1 = k /\ k <= N
      BY <1>1
    <3>2. after[k] \subseteq after[k + 1]
      BY <1>3, <3>1
    <3> QED
      BY <2>2, <3>1, <3>2
  <2>3. Nat \subseteq P
    BY <2>1, <2>2, Induction
  <2> QED
    BY <2>3, <1>1
<1>6. \A k \in 0 .. N : after[k] \subseteq Base(order) \cup (Declaring \X Declaring)
  <2> DEFINE P == {k \in Nat : k <= N =>
                      after[k] \subseteq Base(order) \cup (Declaring \X Declaring)}
  <2>1. 0 \in P
    BY <1>3
  <2>2. ASSUME NEW k \in Nat, k \in P PROVE k + 1 \in P
    <3> SUFFICES ASSUME k + 1 <= N
                 PROVE  after[k + 1] \subseteq Base(order) \cup (Declaring \X Declaring)
      OBVIOUS
    <3>1. k + 1 \in 1 .. N /\ (k + 1) - 1 = k /\ k <= N
      BY <1>1
    <3>2. after[k + 1] = after[k] \cup ConflictEdges(after[k], order, Row(k + 1), Col(k + 1))
      BY <1>3, <3>1
    <3>3. ConflictEdges(after[k], order, Row(k + 1), Col(k + 1)) \subseteq Declaring \X Declaring
      BY <1>4, <3>1, ConflictEdgesFacts
    <3> QED
      BY <2>2, <3>1, <3>2, <3>3
  <2>3. Nat \subseteq P
    BY <2>1, <2>2, Induction
  <2> QED
    BY <2>3, <1>1
<1>7. \A k \in 0 .. N : after[k] \subseteq after[N]
  <2> DEFINE P == {k \in Nat : k <= N => after[N - k] \subseteq after[N]}
  <2>1. 0 \in P
    BY <1>1
  <2>2. ASSUME NEW k \in Nat, k \in P PROVE k + 1 \in P
    <3> SUFFICES ASSUME k + 1 <= N PROVE after[N - (k + 1)] \subseteq after[N]
      OBVIOUS
    <3>1. N - k \in 1 .. N /\ (N - k) - 1 = N - (k + 1) /\ k <= N
      BY <1>1
    <3>2. after[N - (k + 1)] \subseteq after[N - k]
      BY <1>3, <3>1
    <3> QED
      BY <2>2, <3>1, <3>2
  <2>3. Nat \subseteq P
    BY <2>1, <2>2, Induction
  <2> SUFFICES ASSUME NEW k \in 0 .. N PROVE after[k] \subseteq after[N]
    OBVIOUS
  <2>4. N - k \in Nat /\ N - k <= N /\ N - (N - k) = k
    BY <1>1
  <2>5. N - k \in P
    BY <2>3, <2>4
  <2>6. after[N - (N - k)] \subseteq after[N]
    BY <2>4, <2>5
  <2> QED
    BY <2>4, <2>6
<1>8. ASSUME NEW i \in DOMAIN systems, NEW j \in DOMAIN systems
      PROVE  \E E \in SUBSET NewEdges(order) :
                ConflictEdges(E, order, i, j) \subseteq NewEdges(order)
  <2>1. n \in Nat \ {0} /\ i \in 1 .. n /\ j \in 1 .. n
    BY <1>1
  <2>2. PICK k \in 1 .. N : Row(k) = i /\ Col(k) = j
    <3> HIDE DEF n
    <3>1. \E k \in 1 .. n * n : ((k - 1) \div n) + 1 = i /\ ((k - 1) % n) + 1 = j
      BY <2>1, DivFacts
    <3> QED
      BY <3>1 DEF Row, Col, N, n
  <2>3. after[k] = after[k - 1] \cup ConflictEdges(after[k - 1], order, i, j)
    BY <1>3, <2>2
  <2>4. k - 1 \in 0 .. N /\ k \in 0 .. N
    BY <1>1, <2>2
  <2>5. after[k] \subseteq after[N] /\ after[k - 1] \subseteq after[N]
    BY <1>7, <2>4
  <2>6. ConflictEdges(after[k - 1], order, i, j) \subseteq NewEdges(order)
    BY <1>3, <2>3, <2>5
  <2>7. after[k - 1] \in SUBSET NewEdges(order)
    BY <1>3, <2>5
  <2> QED
    BY <2>6, <2>7
<1>9. 0 \in 0 .. N /\ N \in 0 .. N
  BY <1>1
<1> QED
  BY <1>3, <1>5, <1>6, <1>8, <1>9

\* A path between declared systems needs no detour by the barrier: what the
\* barrier leads to never leads back to a declared system.
LEMMA AroundBarrier ==
  ASSUME NEW T, systems \in Seq(T), Barrier \notin Registered,
         NEW order \in SUBSET (Registered \X Registered),
         NEW a \in Declaring, NEW b \in Declaring, Leads(NewEdges(order), a, b)
  PROVE  Leads(Without(NewEdges(order), Barrier), a, b)
<1> DEFINE F == Without(edges, Barrier) \cup ExplicitEdges(order)
           exclusive == Registered \ Declaring
           into == F \cup {<<s, Barrier>> : s \in Declaring}
           held == {x \in exclusive : ~HasPath(into, x, Barrier)}
           G == NewEdges(order)
           Y == {y \in {e[2] : e \in G} : ~Leads(into, y, Barrier)}
<1>1. \A e \in F : e[1] # Barrier /\ e[2] # Barrier
  BY DEF Without, ExplicitEdges
<1>2. Base(order) = IF Declaring = {} \/ exclusive = {} THEN F
                    ELSE into \cup {<<Barrier, s>> : s \in held}
  BY DEF Base, WithBarrier, Declaring
<1>3. G \subseteq Base(order) \cup (Declaring \X Declaring)
  BY NewEdgesFacts
<1>4. \A s \in Declaring : s # Barrier /\ s \in Registered
  BY DEF Declaring
<1> HIDE DEF F, exclusive, G
<1>5. \A s \in Declaring : Leads(into, s, Barrier)
  <2> SUFFICES ASSUME NEW s \in Declaring PROVE Leads(into, s, Barrier)
    OBVIOUS
  <2>1. <<s, Barrier>> \in into
    OBVIOUS
  <2> QED
    BY <2>1 DEF Leads
<1> SUFFICES ASSUME NEW S, a \in S,
                    \A e \in Without(G, Barrier) : e[1] \in S => e[2] \in S
             PROVE  b \in S
  BY DEF Leads, G
<1> DEFINE R == S \cup {Barrier} \cup Y
<1>6. ASSUME NEW e \in G, e[1] \in R PROVE e[2] \in R
  <2>1. CASE e[1] # Barrier /\ e[2] # Barrier /\ e[1] \in S
    BY <2>1 DEF Without
  <2>2. CASE e[2] = Barrier
    BY <2>2
  <2>3. CASE e[1] = Barrier
    <3>1. e \in {<<Barrier, s>> : s \in held}
      <4>1. e \notin Declaring \X Declaring /\ e \notin {<<s, Barrier>> : s \in Declaring}
        BY <1>4, <2>3
      <4>2. e \notin F /\ e \in Base(order)
        BY <1>1, <1>3, <4>1, <2>3
      <4> HIDE DEF held
      <4> QED
        BY <1>2, <4>1, <4>2
    <3>2. PICK s \in held : e = <<Barrier, s>>
      BY <3>1
    <3>3. e[2] = s /\ ~Leads(into, s, Barrier)
      BY <3>2, HasPathLeads
    <3> QED
      BY <3>3
  <2>4. CASE e[1] # Barrier /\ e[2] # Barrier /\ e[1] \in Y
    <3>1. ~Leads(into, e[1], Barrier)
      BY <2>4
    <3>2. e[1] \notin Declaring
      BY <3>1, <1>5
    <3>3. e \in F
      <4>1. e \notin Declaring \X Declaring /\ e \notin {<<s, Barrier>> : s \in Declaring}
        BY <3>2
      <4>2. e \in Base(order)
        BY <1>3, <4>1
      <4> HIDE DEF held
      <4>3. e \notin {<<Barrier, s>> : s \in held}
        BY <2>4
      <4> QED
        BY <1>2, <4>1, <4>2, <4>3
    <3>4. ~Leads(into, e[2], Barrier)
      <4> SUFFICES ASSUME Leads(into, e[2], Barrier) PROVE FALSE
        OBVIOUS
      <4>1. e \in into
        BY <3>3
      <4> HIDE DEF into
      <4>2. Leads(into, e[1], Barrier)
        BY <4>1, LeadsFacts
      <4> QED
        BY <3>1, <4>2
    <3> QED
      BY <3>4
  <2> QED
    BY <1>6, <2>1, <2>2, <2>3, <2>4
<1>7. b \in R
  <2> HIDE DEF R
  <2>1. a \in R
    BY DEF R
  <2> QED
    BY <1>6, <2>1 DEF Leads, G
<1>8. b \notin Y /\ b # Barrier
  BY <1>4, <1>5
<1> QED
  BY <1>7, <1>8

\* One of the two leads to the other.
Joined(E, a, b) == Leads(E, a, b) \/ Leads(E, b, a)

\* Declared systems that race are joined without the barrier's help.
LinkedIn(E, S) ==
  \A a, b \in S :
     a # b /\ Declares(a) /\ Declares(b) /\ Races(a, b) => Joined(Without(E, Barrier), a, b)

\* The systems of the graph are the first ones registered.
NodesFirst ==
  \A i, j \in DOMAIN systems : i < j /\ systems[j] \in nodes => systems[i] \in nodes

\* A system that joins a graph has no conflict that only an older system could
\* have been given an edge for.
NewFits ==
  nodes # {} =>
     \A i, j \in DOMAIN systems :
        i < j /\ systems[j] \notin nodes /\ Declares(systems[i]) /\ Declares(systems[j])
           => Conflict(systems[i], systems[j]) \notin Symmetric \cup {"both ways"}

\* Comparing two systems that race leaves a path between them.
LEMMA ComparedJoined ==
  ASSUME NEW T, systems \in Seq(T), Barrier \notin Registered, eventOrdering,
         NEW order \in SUBSET (Registered \X Registered),
         NodesFirst, NewFits,
         NEW i \in DOMAIN systems, NEW j \in DOMAIN systems, i < j,
         ~({systems[i], systems[j]} \subseteq nodes),
         Declares(systems[i]), Declares(systems[j]), Races(systems[i], systems[j])
  PROVE  Joined(NewEdges(order), systems[i], systems[j])
<1> DEFINE a == systems[i]
           b == systems[j]
           G == NewEdges(order)
<1>1. a \in Registered /\ b \in Registered
  BY DEF Registered, ToSet
<1>2. b \notin nodes
  BY DEF NodesFirst
<1>3. b \in Processed /\ (nodes = {} => a \in Processed)
  BY <1>1, <1>2 DEF Processed
<1>4. \A e \in order : e[2] \in Processed => e \in G
  BY NewEdgesFacts DEF Base, WithBarrier, ExplicitEdges
<1>5. \A e \in G : Leads(G, e[1], e[2])
  BY LeadsFacts
<1>6. i \in Nat /\ j \in Nat
  BY LenProperties
<1>7. CASE Conflict(a, b) \in Symmetric \cup {"both ways"}
  <2>1. nodes = {}
    BY <1>2, <1>7 DEF NewFits
  <2>2. a \in Processed
    BY <1>3, <2>1
  <2>3. PICK E \in SUBSET G : ConflictEdges(E, order, i, j) \subseteq G
    BY NewEdgesFacts
  <2>4. CASE <<a, b>> \in order
    <3>1. <<a, b>> \in G
      BY <1>3, <1>4, <2>4
    <3> QED
      BY <1>5, <3>1 DEF Joined
  <2>5. CASE <<b, a>> \in order
    <3>1. <<b, a>> \in G
      BY <2>2, <1>4, <2>5
    <3> QED
      BY <1>5, <3>1 DEF Joined
  <2>6. CASE <<a, b>> \notin order /\ <<b, a>> \notin order
    <3>1. <<a, b>> \in ConflictEdges(E, order, i, j)
      <4>1. i # j /\ i < j
        BY <1>6
      <4>2. <<a, b>>[1] = a /\ <<a, b>>[2] = b
        OBVIOUS
      <4> HIDE DEF a, b
      <4>3. Conflict(a, b) = "both ways" \/ Conflict(a, b) \in Symmetric
        BY <1>7
      <4> QED
        BY <2>2, <2>6, <4>1, <4>2, <4>3 DEF ConflictEdges, a, b
    <3>2. <<a, b>> \in G
      BY <2>3, <3>1
    <3> QED
      BY <1>5, <3>2 DEF Joined
  <2> QED
    BY <2>4, <2>5, <2>6
<1>8. CASE Conflict(a, b) \in {"forward", "backward"}
  <2>1. Conflict(b, a) \in {"forward", "backward"}
    BY <1>8, ConflictFacts
  <2>2. PICK E \in SUBSET G : ConflictEdges(E, order, j, i) \subseteq G
    BY NewEdgesFacts
  <2>3. CASE HasPath(E, a, b) \/ HasPath(E, b, a)
    <3>1. Leads(E, a, b) \/ Leads(E, b, a)
      BY <2>3, HasPathLeads
    <3> QED
      BY <3>1, LeadsFacts DEF Joined
  <2>4. CASE ~HasPath(E, a, b) /\ ~HasPath(E, b, a)
    <3>1. <<a, b>> \in ConflictEdges(E, order, j, i)
          \/ <<b, a>> \in ConflictEdges(E, order, j, i)
      <4>1. i # j /\ i < j
        BY <1>6
      <4>2. CASE Conflict(b, a) = "forward"
        <5>1. <<b, a>> \in ConflictEdges(E, order, j, i)
          BY <1>3, <2>4, <4>1, <4>2 DEF ConflictEdges
        <5> QED
          BY <5>1
      <4>3. CASE Conflict(b, a) = "backward"
        <5>1. <<a, b>> \in ConflictEdges(E, order, j, i)
          BY <1>3, <2>4, <4>1, <4>3 DEF ConflictEdges
        <5> QED
          BY <5>1
      <4> QED
        BY <2>1, <4>2, <4>3
    <3>2. <<a, b>> \in G \/ <<b, a>> \in G
      BY <2>2, <3>1
    <3> QED
      BY <1>5, <3>2 DEF Joined
  <2> QED
    BY <2>3, <2>4
<1> QED
  BY <1>7, <1>8, ConflictFacts

\* Whatever the graph linked before, a compile links all there is.
LEMMA NewEdgesLink ==
  ASSUME NEW T, systems \in Seq(T), Barrier \notin Registered, eventOrdering,
         NEW order \in SUBSET (Registered \X Registered),
         NodesFirst, NewFits, LinkedIn(edges, nodes)
  PROVE  LinkedIn(NewEdges(order), Registered)
<1> DEFINE G == NewEdges(order)
<1>1. SUFFICES ASSUME NEW a \in Registered, NEW b \in Registered, a # b,
                      Declares(a), Declares(b), Races(a, b)
               PROVE  Joined(Without(G, Barrier), a, b)
  BY DEF LinkedIn
<1>2. CASE a \in nodes /\ b \in nodes
  <2>1. Without(edges, Barrier) \subseteq Without(G, Barrier)
    <3>1. Without(edges, Barrier) \subseteq G
      BY NewEdgesFacts DEF Base, WithBarrier
    <3> QED
      BY <3>1 DEF Without
  <2>2. Joined(Without(edges, Barrier), a, b)
    BY <1>1, <1>2 DEF LinkedIn
  <2> QED
    BY <2>1, <2>2, LeadsFacts DEF Joined
<1>3. CASE ~(a \in nodes /\ b \in nodes)
  <2>1. PICK i \in DOMAIN systems : systems[i] = a
    BY DEF Registered, ToSet
  <2>2. PICK j \in DOMAIN systems : systems[j] = b
    BY DEF Registered, ToSet
  <2>3. i < j \/ j < i
    BY <1>1, <2>1, <2>2, LenProperties
  <2>4. Races(b, a)
    BY <1>1, ConflictFacts
  <2>5. Joined(G, a, b)
    <3>1. CASE i < j
      BY <1>1, <1>3, <2>1, <2>2, <3>1, ComparedJoined
    <3>2. CASE j < i
      <4>1. Joined(G, b, a)
        BY <1>1, <1>3, <2>1, <2>2, <2>4, <3>2, ComparedJoined
      <4> QED
        BY <4>1 DEF Joined
    <3> QED
      BY <2>3, <3>1, <3>2
  <2>6. a \in Declaring /\ b \in Declaring
    BY <1>1 DEF Declaring
  <2> QED
    BY <2>5, <2>6, AroundBarrier DEF Joined
<1> QED
  BY <1>2, <1>3

-----------------------------------------------------------------------------
(* The stages of a compiled plan.                                          *)

LEMMA RegisteredFinite ==
  ASSUME NEW T, systems \in Seq(T)
  PROVE  IsFiniteSet(Registered)
<1>1. Len(systems) \in Nat /\ DOMAIN systems = 1 .. Len(systems)
  BY LenProperties
<1>2. IsFiniteSet(1 .. Len(systems))
  BY <1>1, FS_Interval
<1>3. [i \in 1 .. Len(systems) |-> systems[i]] \in Surjection(1 .. Len(systems), Registered)
  BY <1>1 DEF Surjection, Registered, ToSet
<1> QED
  BY <1>2, <1>3, FS_Surjection

\* A function on an initial segment of the numbers is a sequence.
LEMMA Enumerated ==
  ASSUME NEW T, NEW k \in Int, NEW f, f = [n \in 1 .. k |-> f[n]],
         \A n \in 1 .. k : f[n] \in T
  PROVE  f \in Seq(T)
<1>1. CASE k >= 0
  <2>1. k \in Nat /\ f \in [1 .. k -> T]
    BY <1>1
  <2> QED
    BY <2>1, SeqDef
<1>2. CASE ~(k >= 0)
  <2>1. 1 .. k = 1 .. 0
    BY <1>2
  <2>2. f \in [1 .. 0 -> T]
    BY <2>1
  <2> QED
    BY <2>2, SeqDef
<1> QED
  BY <1>1, <1>2

\* Cutting a stage drops or adds nothing that was not in it.
LEMMA SplitFacts ==
  ASSUME NEW T, NEW ids \in Seq(T), NEW order
  PROVE  Split(order, ids) \in Seq(Seq(T))
<1> DEFINE cuts   == {i \in 2 .. Len(ids) : CutAfter(order, ids, i - 1)}
           places == [i \in DOMAIN ids |-> i]
           starts == Among(places, {1} \cup cuts)
           ends(i) == {Len(ids)} \cup {j - 1 : j \in {k \in cuts : k > i}}
           part(n) == SubSeq(ids, starts[n], Min(ends(starts[n])))
<1>1. Len(ids) \in Nat /\ DOMAIN ids = 1 .. Len(ids) /\ \A i \in 1 .. Len(ids) : ids[i] \in T
  BY LenProperties
<1>2. cuts \subseteq 2 .. Len(ids)
  OBVIOUS
<1>3. places \in Seq(1 .. Len(ids))
  BY <1>1, Enumerated
<1> HIDE DEF cuts, places
<1>4. starts \in Seq((1 .. Len(ids)) \cap ({1} \cup cuts))
  BY <1>3, AmongFacts
<1>5. starts \in Seq(1 .. Len(ids))
  BY <1>4
<1> HIDE DEF starts
<1>6. \A i \in 1 .. Len(ids) : Min(ends(i)) \in 1 .. Len(ids)
  <2> SUFFICES ASSUME NEW i \in 1 .. Len(ids) PROVE Min(ends(i)) \in 1 .. Len(ids)
    OBVIOUS
  <2>1. ends(i) \subseteq 1 .. Len(ids)
    BY <1>1, <1>2
  <2>2. ends(i) \subseteq Nat /\ ends(i) # {}
    BY <2>1
  <2>3. Min(ends(i)) \in ends(i)
    BY <2>2, Least
  <2> QED
    BY <2>1, <2>3
<1>7. Len(starts) \in Nat /\ DOMAIN starts = 1 .. Len(starts)
      /\ \A n \in 1 .. Len(starts) : starts[n] \in 1 .. Len(ids)
  BY <1>5, LenProperties
<1>8. \A n \in 1 .. Len(starts) : part(n) \in Seq(T)
  <2> SUFFICES ASSUME NEW n \in 1 .. Len(starts) PROVE part(n) \in Seq(T)
    OBVIOUS
  <2> DEFINE from == starts[n]
             to   == Min(ends(starts[n]))
  <2>1. from \in 1 .. Len(ids) /\ to \in 1 .. Len(ids)
    BY <1>6, <1>7
  <2> HIDE DEF from, to
  <2>2. \A i \in from .. to : ids[i] \in T
    BY <1>1, <2>1
  <2>3. SubSeq(ids, from, to) \in Seq(T)
    BY <1>1, <2>1, <2>2, SubSeqProperties
  <2> QED
    BY <2>3 DEF from, to
<1>9. Split(order, ids) = [n \in 1 .. Len(starts) |-> part(n)]
  BY <1>7 DEF Split, cuts, places, starts
<1> HIDE DEF part
<1> QED
  BY <1>7, <1>8, <1>9, Enumerated

\* Systems that may be run in parallel, if all of them declare what they touch.
SafeIds ==
  {q \in Seq(Names) : (\A i \in DOMAIN q : Declares(q[i])) =>
                         \A a, b \in ToSet(q) : a # b => ~Races(a, b)}

SafeStages == {Stage(q) : q \in SafeIds}

\* Systems of one level of a graph that links all races do not race.
LEMMA StagesSafe ==
  ASSUME systems \in Seq(Names), NEW order, NEW sorted \in SetToSeqs(Registered),
         NEW E \in SUBSET ((Registered \cup {Barrier}) \X (Registered \cup {Barrier})),
         ~Cyclic(E), LinkedIn(E, Registered)
  PROVE  Stages(E, order, sorted) \in Seq(SafeStages)
<1> DEFINE level == LevelIn(E)
           groups == {<<Label(s), level[s]>> : s \in Registered}
           before(g) == {h \in groups : PlacedBefore(h[1], h[2], g[1], g[2])}
           group(n) == CHOOSE g \in groups : Cardinality(before(g)) = n - 1
           same(g) == {s \in Registered : Label(s) = g[1] /\ level[s] = g[2]}
           members(g) == Among(sorted, same(g))
           parts(g) == Split(order, members(g))
           stagesOf(g) == [n \in DOMAIN parts(g) |-> Stage(parts(g)[n])]
           all == [n \in 1 .. Cardinality(groups) |-> stagesOf(group(n))]
<1>0. Registered \subseteq Names /\ IsFiniteSet(Registered)
  BY RegisteredFinite DEF Registered, ToSet
<1>1. sorted \in Seq(Registered)
  <2>1. Cardinality(Registered) \in Nat
    BY <1>0, FS_CardinalityType
  <2>2. sorted \in [1 .. Cardinality(Registered) -> Registered]
    BY DEF SetToSeqs
  <2> QED
    BY <2>1, <2>2, SeqDef
<1>2. Cardinality(groups) \in Nat
  <2>1. [s \in Registered |-> <<Label(s), level[s]>>] \in Surjection(Registered, groups)
    BY DEF Surjection
  <2> QED
    BY <2>1, <1>0, FS_Surjection, FS_CardinalityType
<1>3. \A a, b \in Registered :
         a # b /\ Declares(a) /\ Declares(b) /\ level[a] = level[b] => ~Races(a, b)
  <2> SUFFICES ASSUME NEW a \in Registered, NEW b \in Registered, a # b,
                      Declares(a), Declares(b), Races(a, b)
               PROVE  level[a] # level[b]
    OBVIOUS
  <2>1. Joined(Without(E, Barrier), a, b)
    BY DEF LinkedIn
  <2>2. Without(E, Barrier) \subseteq E
    BY DEF Without
  <2>3. Leads(E, a, b) \/ Leads(E, b, a)
    BY <2>1, <2>2, LeadsFacts DEF Joined
  <2> QED
    BY <1>0, <2>3, LevelInFacts
<1> HIDE DEF level
<1>4. ASSUME NEW g PROVE Seq(same(g)) \subseteq SafeIds
  <2> SUFFICES ASSUME NEW q \in Seq(same(g)) PROVE q \in SafeIds
    OBVIOUS
  <2>1. \A i \in DOMAIN q : q[i] \in same(g)
    BY LenProperties
  <2>2. q \in Seq(Names)
    <3>1. same(g) \subseteq Names
      BY <1>0
    <3> HIDE DEF same
    <3> QED
      BY <3>1
  <2>3. ASSUME \A i \in DOMAIN q : Declares(q[i]), NEW a \in ToSet(q), NEW b \in ToSet(q), a # b
        PROVE  ~Races(a, b)
    <3>1. a \in same(g) /\ b \in same(g) /\ Declares(a) /\ Declares(b)
      BY <2>1, <2>3 DEF ToSet
    <3> QED
      BY <3>1, <1>3, <2>3
  <2> QED
    BY <2>2, <2>3 DEF SafeIds
<1>5. ASSUME NEW g PROVE stagesOf(g) \in Seq(SafeStages)
  <2>1. members(g) \in Seq(same(g))
    <3>1. members(g) \in Seq(Registered \cap same(g))
      BY <1>1, AmongFacts
    <3>2. Registered \cap same(g) = same(g)
      OBVIOUS
    <3> QED
      BY <3>1, <3>2
  <2>2. parts(g) \in Seq(Seq(same(g)))
    BY <2>1, SplitFacts
  <2> DEFINE p == parts(g)
  <2> HIDE DEF parts, same
  <2>3. Len(p) \in Nat /\ DOMAIN p = 1 .. Len(p) /\ \A n \in 1 .. Len(p) : p[n] \in Seq(same(g))
    BY <2>2, LenProperties
  <2>4. \A n \in 1 .. Len(p) : Stage(p[n]) \in SafeStages
    BY <2>3, <1>4 DEF SafeStages
  <2>5. stagesOf(g) = [n \in 1 .. Len(p) |-> Stage(p[n])]
    BY <2>3
  <2> HIDE DEF p
  <2> QED
    BY <2>3, <2>4, <2>5, Enumerated
<1> HIDE DEF groups, stagesOf, group
<1>6. all \in Seq(Seq(SafeStages))
  <2>1. \A n \in 1 .. Cardinality(groups) : all[n] \in Seq(SafeStages)
    BY <1>5
  <2> QED
    BY <1>2, <2>1, Enumerated
<1>7. Stages(E, order, sorted) = FlattenSeq(all)
  BY DEF Stages, level, groups, stagesOf, group, parts, members, same
<1> HIDE DEF all
<1> QED
  BY <1>6, <1>7, FlattenFacts

\* The schedule of a frame is made of places of the plan.
LEMMA FrameFacts ==
  ASSUME NEW T, plan \in Seq(T), NEW steps \in Nat
  PROVE  Frame(steps) \in Seq(DOMAIN plan)
<1> DEFINE D == DOMAIN plan
           fixed  == {i \in DOMAIN plan : plan[i].label = FixedUpdate}
           places == [i \in DOMAIN plan |-> i]
           block  == Among(places, fixed)
           from   == IF fixed = {} THEN Len(plan) + 1 ELSE Min(fixed)
           before == [i \in 1 .. (from - 1) |-> i]
           after  == [i \in 1 .. (Len(plan) - Len(before) - Len(block)) |->
                         i + Len(before) + Len(block)]
           laps   == [n \in 1 .. steps |-> block]
<1>1. Len(plan) \in Nat /\ D = 1 .. Len(plan)
  BY LenProperties
<1>2. fixed \subseteq D
  OBVIOUS
<1>3. places \in Seq(D)
  BY <1>1, Enumerated
<1> HIDE DEF fixed, places
<1>4. block \in Seq(D)
  <2>1. block \in Seq(D \cap fixed)
    BY <1>3, AmongFacts
  <2>2. D \cap fixed = fixed
    BY <1>2
  <2> HIDE DEF block, D
  <2> QED
    BY <1>2, <2>1, <2>2
<1>5. from \in 1 .. Len(plan) + 1
  <2>1. fixed # {} => Min(fixed) \in fixed
    BY <1>1, <1>2, Least
  <2> QED
    BY <1>1, <1>2, <2>1
<1> HIDE DEF from, block, D
<1>6. before \in Seq(D)
  <2>1. from - 1 \in Int /\ \A i \in 1 .. (from - 1) : before[i] \in D
    BY <1>1, <1>5
  <2> QED
    BY <2>1, Enumerated
<1>7. Len(before) \in Nat /\ Len(block) \in Nat
  BY <1>4, <1>6, LenProperties
<1> HIDE DEF before
<1>8. after \in Seq(D)
  <2> DEFINE k == Len(plan) - Len(before) - Len(block)
  <2>1. k \in Int /\ \A i \in 1 .. k : i + Len(before) + Len(block) \in D
    BY <1>1, <1>7
  <2>2. after = [i \in 1 .. k |-> i + Len(before) + Len(block)]
    OBVIOUS
  <2> HIDE DEF k, after
  <2> QED
    BY <2>1, <2>2, Enumerated
<1>9. laps \in Seq(Seq(D))
  BY <1>4, Enumerated
<1> HIDE DEF laps, after
<1>10. FlattenSeq(laps) \in Seq(D)
  BY <1>9, FlattenFacts
<1>11. Frame(steps) = before \o FlattenSeq(laps) \o after
  BY DEF Frame, fixed, places, block, from, before, after, laps
<1>12. before \o FlattenSeq(laps) \o after \in Seq(D)
  BY <1>6, <1>8, <1>10, ConcatProperties
<1> QED
  BY <1>11, <1>12 DEF D

-----------------------------------------------------------------------------
(* The invariant.                                                          *)

Known == Names \cup Forward

RegistryTypes ==
  /\ systems \in Seq(Names)
  /\ \A i, j \in DOMAIN systems : systems[i] = systems[j] => i = j
  /\ explicit \subseteq Registered \X Registered
  /\ pending \in Seq([pair : Known \X Known, owner : Names])

GraphFits ==
  /\ eventOrdering = TRUE
  /\ nodes \subseteq Registered
  /\ edges \subseteq (Registered \cup {Barrier}) \X (Registered \cup {Barrier})
  /\ ~dirty => nodes = Registered
  /\ NodesFirst
  /\ NewFits
  /\ LinkedIn(edges, nodes)

PlanSafe == plan \in Seq(SafeStages)

FrameFits ==
  /\ at \in Nat
  /\ schedule \in Seq(DOMAIN plan)
  /\ Idle => schedule = <<>>
  /\ mode \in {"closed", "sequential", "parallel"}
  /\ enabled \subseteq Names
  /\ mode = "closed" => enabled = {}
  /\ mode # "closed" => InFrame /\ enabled \subseteq Members
  /\ mode = "parallel" => Open.parallel
  /\ running \cup done \subseteq enabled
  /\ running \cap done = {}
  /\ mode = "sequential" => \A s \in running \cup done : Earlier(s, enabled) \subseteq done

Safe == RegistryTypes /\ GraphFits /\ PlanSafe /\ FrameFits

\* The invariant holds before anything is registered.
LEMMA InitSafe == Init => Safe
<1> SUFFICES ASSUME Init PROVE Safe
  OBVIOUS
<1> USE DEF Init
<1>0. Registered = {} /\ DOMAIN systems = {}
  BY DEF Registered, ToSet
<1>1. RegistryTypes
  BY <1>0, EmptySeq DEF RegistryTypes
<1>2. GraphFits
  BY <1>0 DEF GraphFits, NodesFirst, NewFits, LinkedIn
<1>3. PlanSafe
  BY EmptySeq DEF PlanSafe
<1>4. FrameFits
  BY EmptySeq DEF FrameFits, Idle
<1> QED
  BY <1>1, <1>2, <1>3, <1>4 DEF Safe

\* The open stage is one of the plan's, and its systems are told apart by their
\* places.
LEMMA OpenFacts ==
  ASSUME PlanSafe, FrameFits, InFrame
  PROVE  /\ \E q \in SafeIds : Open = Stage(q) /\ Members = ToSet(q)
         /\ \A s \in Members : Place(s) \in Nat
         /\ \A s, t \in Members : Place(s) = Place(t) => s = t
<1>1. at \in 1 .. Len(schedule)
  BY LenProperties DEF FrameFits, InFrame, Idle
<1>2. schedule[at] \in DOMAIN plan
  BY <1>1, ElementOfSeq DEF FrameFits
<1>3. Open \in SafeStages
  <2>1. DOMAIN plan = 1 .. Len(plan)
    BY LenProperties DEF PlanSafe
  <2> QED
    BY <1>2, <2>1, ElementOfSeq DEF PlanSafe, Open
<1>4. PICK q \in SafeIds : Open = Stage(q)
  BY <1>3 DEF SafeStages
<1>5. Open.systems = q
  BY <1>4 DEF Stage
<1>6. Len(q) \in Nat /\ DOMAIN q = 1 .. Len(q)
  BY LenProperties DEF SafeIds
<1>7. ASSUME NEW s \in Members PROVE Place(s) \in 1 .. Len(q) /\ q[Place(s)] = s
  <2> DEFINE I == {i \in 1 .. Len(q) : q[i] = s}
  <2>1. I # {} /\ I \subseteq Nat
    BY <1>5, <1>6, <1>7 DEF Members, ToSet
  <2>2. Place(s) = IF I # {} THEN Min(I) ELSE 0
    BY <1>5 DEF Place, SelectInSeq
  <2>3. Min(I) \in I
    BY <2>1, Least
  <2> HIDE DEF I
  <2>4. Place(s) \in I
    BY <2>1, <2>2, <2>3
  <2> QED
    BY <2>4 DEF I
<1>8. Members = ToSet(q)
  BY <1>5 DEF Members
<1>9. \A s \in Members : Place(s) \in Nat
  BY <1>6, <1>7
<1>10. \A s, t \in Members : Place(s) = Place(t) => s = t
  BY <1>7
<1> QED
  BY <1>4, <1>8, <1>9, <1>10

\* Where the invariant holds, no two running systems race.
LEMMA SafeNoRace == Safe => NoRace
<1> SUFFICES ASSUME Safe, NEW a \in running, NEW b \in running, a # b
             PROVE  ~Races(a, b)
  BY DEF NoRace
<1>0. PlanSafe /\ FrameFits
  BY DEF Safe
<1>1. a \in enabled /\ b \in enabled /\ a \notin done /\ b \notin done
  BY <1>0 DEF FrameFits
<1>2. mode # "closed" /\ InFrame /\ a \in Members /\ b \in Members
  BY <1>0, <1>1 DEF FrameFits
<1>3. PICK q \in SafeIds : Open = Stage(q) /\ Members = ToSet(q)
  BY <1>0, <1>2, OpenFacts
<1>4. CASE mode = "sequential"
  <2>1. a \notin Earlier(b, enabled) /\ b \notin Earlier(a, enabled)
    BY <1>0, <1>1, <1>4 DEF FrameFits
  <2>2. ~(Place(a) < Place(b)) /\ ~(Place(b) < Place(a))
    BY <1>1, <2>1 DEF Earlier
  <2>3. Place(a) \in Nat /\ Place(b) \in Nat /\ Place(a) # Place(b)
    BY <1>0, <1>2, OpenFacts
  <2> QED
    BY <2>2, <2>3
<1>5. CASE mode = "parallel"
  <2>1. Open.parallel
    BY <1>0, <1>5 DEF FrameFits
  <2>2. \A i \in DOMAIN q : Declares(q[i])
    BY <1>3, <2>1 DEF Stage
  <2> QED
    BY <1>2, <1>3, <2>2 DEF SafeIds
<1> QED
  BY <1>0, <1>2, <1>4, <1>5 DEF FrameFits

-----------------------------------------------------------------------------
(* Every step keeps it.                                                    *)

\* Idle schedulers have no stage open.
LEMMA IdleFacts ==
  ASSUME FrameFits, Idle
  PROVE  mode = "closed" /\ enabled = {} /\ running = {} /\ done = {} /\ schedule = <<>>
  BY DEF FrameFits, InFrame

\* A change of the registry throws the plan away and leaves the frame alone.
LEMMA InvalidateKeeps ==
  ASSUME FrameFits, Idle, Invalidate, UNCHANGED frame
  PROVE  PlanSafe' /\ FrameFits'
<1>1. mode = "closed" /\ enabled = {} /\ running = {} /\ done = {} /\ schedule = <<>>
  BY IdleFacts
<1>2. at = 0
  BY DEF Idle
<1>3. plan' = <<>> /\ schedule' = <<>> /\ at' = 0 /\ mode' = "closed" /\ enabled' = {}
      /\ running' = {} /\ done' = {}
  BY <1>1, <1>2 DEF Invalidate, frame
<1>4. PlanSafe'
  BY <1>3, EmptySeq DEF PlanSafe
<1>5. FrameFits'
  BY <1>3, EmptySeq DEF FrameFits, Idle
<1> QED
  BY <1>4, <1>5

\* A system that is registered comes last.
LEMMA RegisterFacts ==
  ASSUME RegistryTypes, NEW s \in Names, Register(s)
  PROVE  /\ Len(systems) \in Nat /\ DOMAIN systems = 1 .. Len(systems)
         /\ DOMAIN systems' = 1 .. (Len(systems) + 1)
         /\ \A i \in 1 .. Len(systems) : systems'[i] = systems[i]
         /\ systems'[Len(systems) + 1] = s
         /\ s \notin Registered /\ Registered' = Registered \cup {s}
         /\ RegistryTypes'
<1> DEFINE n == Len(systems)
<1>2. /\ n \in Nat /\ DOMAIN systems = 1 .. n
      /\ systems' = Append(systems, s) /\ systems' \in Seq(Names)
      /\ DOMAIN systems' = 1 .. (n + 1)
      /\ \A i \in 1 .. n : systems'[i] = systems[i]
      /\ systems'[n + 1] = s
  BY LenProperties, AppendProperties DEF Register, RegistryTypes
<1>3. \A i \in DOMAIN systems : systems[i] \in Registered
  BY DEF Registered, ToSet
<1>4. Registered' = Registered \cup {s}
  <2> HIDE DEF n
  <2>1. \A i \in 1 .. (n + 1) : i = n + 1 \/ i \in 1 .. n
    BY <1>2
  <2>2. (n + 1) \in 1 .. (n + 1) /\ \A i \in 1 .. n : i \in 1 .. (n + 1)
    BY <1>2
  <2>3. Registered = {systems[i] : i \in 1 .. n}
    BY <1>2 DEF Registered, ToSet
  <2>4. Registered' = {systems'[i] : i \in 1 .. (n + 1)}
    BY <1>2 DEF Registered, ToSet
  <2>5. Registered' \subseteq Registered \cup {s}
    BY <1>2, <2>1, <2>3, <2>4
  <2>6. Registered \cup {s} \subseteq Registered'
    BY <1>2, <2>2, <2>3, <2>4
  <2> QED
    BY <2>5, <2>6
<1>5. s \notin Registered
  BY DEF Register
<1>6. RegistryTypes'
  <2>1. \A i, j \in DOMAIN systems' : systems'[i] = systems'[j] => i = j
    <3> SUFFICES ASSUME NEW i \in DOMAIN systems', NEW j \in DOMAIN systems',
                        systems'[i] = systems'[j]
                 PROVE  i = j
      OBVIOUS
    <3> HIDE DEF n
    <3>1. (i = n + 1 \/ i \in 1 .. n) /\ (j = n + 1 \/ j \in 1 .. n)
      BY <1>2
    <3>2. CASE i \in 1 .. n /\ j \in 1 .. n
      BY <1>2, <3>2 DEF RegistryTypes
    <3>3. CASE i = n + 1 \/ j = n + 1
      BY <1>2, <1>3, <1>5, <3>1, <3>3
    <3> QED
      BY <3>1, <3>2, <3>3
  <2>2. UNCHANGED <<explicit, pending>>
    BY DEF Register
  <2>3. explicit \subseteq Registered' \X Registered'
    BY <1>4 DEF RegistryTypes
  <2> QED
    BY <1>2, <2>1, <2>2, <2>3 DEF RegistryTypes
<1> QED
  BY <1>2, <1>4, <1>5, <1>6

LEMMA RegisterNodesFirst ==
  ASSUME RegistryTypes, nodes \subseteq Registered, NodesFirst, NEW s \in Names, Register(s)
  PROVE  NodesFirst'
<1> DEFINE n == Len(systems)
<1>1. /\ n \in Nat /\ DOMAIN systems = 1 .. n
      /\ DOMAIN systems' = 1 .. (n + 1)
      /\ \A i \in 1 .. n : systems'[i] = systems[i]
      /\ systems'[n + 1] = s /\ s \notin Registered
  BY RegisterFacts
<1>2. nodes' = nodes
  BY DEF Register
<1> SUFFICES ASSUME NEW i \in DOMAIN systems', NEW j \in DOMAIN systems', i < j,
                    systems'[j] \in nodes
             PROVE  systems'[i] \in nodes
  BY <1>2 DEF NodesFirst
<1> HIDE DEF n
<1>3. j # n + 1
  BY <1>1
<1>4. i \in 1 .. n /\ j \in 1 .. n
  BY <1>1, <1>3
<1> QED
  BY <1>1, <1>4 DEF NodesFirst

LEMMA RegisterSafe ==
  ASSUME Safe, ~LateConflicts, NEW s \in Names, Register(s)
  PROVE  Safe'
<1>0. RegistryTypes /\ GraphFits /\ FrameFits
  BY DEF Safe
<1>1. PlanSafe' /\ FrameFits'
  BY <1>0, InvalidateKeeps DEF Register
<1> DEFINE n == Len(systems)
<1>2. /\ n \in Nat /\ DOMAIN systems = 1 .. n
      /\ DOMAIN systems' = 1 .. (n + 1)
      /\ \A i \in 1 .. n : systems'[i] = systems[i]
      /\ systems'[n + 1] = s
      /\ s \notin Registered /\ Registered' = Registered \cup {s}
      /\ RegistryTypes'
  BY <1>0, RegisterFacts
<1>3. \A i \in DOMAIN systems : systems[i] \in Registered
  BY DEF Registered, ToSet
<1>5. s \notin Registered /\ nodes \subseteq Registered /\ UNCHANGED <<nodes, edges>> /\ dirty'
  BY <1>0, <1>2 DEF Register, Invalidate, GraphFits
<1>7. NodesFirst'
  BY <1>0, RegisterNodesFirst DEF GraphFits
<1>8. NewFits'
  <2>1. \A x, y : Conflict(x, y)' = Conflict(x, y)
    <3>1. eventOrdering' = eventOrdering
      BY DEF Register
    <3> QED
      BY <3>1 DEF Conflict, Checks
  <2>2. ASSUME nodes # {}, NEW i \in DOMAIN systems', NEW j \in DOMAIN systems', i < j,
               NEW x, NEW y, x = systems'[i], y = systems'[j],
               y \notin nodes, Declares(x), Declares(y)
        PROVE  Conflict(x, y) \notin Symmetric \cup {"both ways"}
    <3> HIDE DEF n
    <3>1. i \in 1 .. n /\ systems[i] = x
      BY <1>2, <2>2
    <3>2. CASE j = n + 1
      <4>1. \A t \in Registered : Declares(t) =>
               Conflict(t, s) \notin Symmetric \cup {"both ways"}
        BY <1>2, <2>2, <3>2 DEF Register, MayJoin
      <4>2. x \in Registered /\ y = s
        BY <1>2, <1>3, <2>2, <3>1, <3>2
      <4> QED
        BY <2>2, <4>1, <4>2
    <3>3. CASE j # n + 1
      <4>1. j \in 1 .. n /\ systems[j] = y
        BY <1>2, <2>2, <3>3
      <4> QED
        BY <1>0, <1>2, <2>2, <3>1, <4>1 DEF GraphFits, NewFits
    <3> QED
      BY <3>2, <3>3
  <2>3. ASSUME nodes' # {}, NEW i \in DOMAIN systems', NEW j \in DOMAIN systems', i < j,
               systems'[j] \notin nodes', Declares(systems'[i]), Declares(systems'[j])
        PROVE  ~(Conflict(systems[i], systems[j])' \in Symmetric \cup {"both ways"})
    <3> DEFINE x == systems'[i]
               y == systems'[j]
    <3>1. Conflict(x, y) \notin Symmetric \cup {"both ways"}
      BY <1>5, <2>2, <2>3
    <3>2. Conflict(systems[i], systems[j])' = Conflict(x, y)
      <4>1. eventOrdering' = eventOrdering
        BY DEF Register
      <4> QED
        BY <4>1 DEF Conflict, Checks
    <3> QED
      BY <3>1, <3>2
  <2> QED
    BY <2>3 DEF NewFits
<1>9. GraphFits'
  <2>1. LinkedIn(edges, nodes)'
    BY <1>0, <1>5 DEF GraphFits, LinkedIn, Joined, Leads, Without
  <2>2. nodes \subseteq Registered'
    BY <1>2, <1>5
  <2>3. edges \subseteq (Registered' \cup {Barrier}) \X (Registered' \cup {Barrier})
    BY <1>0, <1>2 DEF GraphFits
  <2>4. eventOrdering' = TRUE
    BY <1>0 DEF Register, GraphFits
  <2> QED
    BY <1>5, <1>7, <1>8, <2>1, <2>2, <2>3, <2>4 DEF GraphFits
<1> QED
  BY <1>1, <1>2, <1>9 DEF Safe

\* The graph is fit for what stands in the registry, whatever was ordered since.
LEMMA GraphKept ==
  ASSUME GraphFits, UNCHANGED <<systems, eventOrdering, nodes, edges>>,
         dirty' = dirty \/ dirty' = TRUE
  PROVE  GraphFits'
<1>1. Registered' = Registered
  BY DEF Registered
<1>2. NodesFirst'
  BY DEF GraphFits, NodesFirst
<1>3. NewFits'
  <2>1. ASSUME nodes' # {}, NEW i \in DOMAIN systems', NEW j \in DOMAIN systems', i < j,
               systems'[j] \notin nodes', Declares(systems'[i]), Declares(systems'[j])
        PROVE  ~(Conflict(systems[i], systems[j])' \in Symmetric \cup {"both ways"})
    <3>1. Conflict(systems[i], systems[j])' = Conflict(systems[i], systems[j])
      BY DEF Conflict, Checks
    <3>2. Conflict(systems[i], systems[j]) \notin Symmetric \cup {"both ways"}
      BY <2>1 DEF GraphFits, NewFits
    <3> QED
      BY <3>1, <3>2
  <2> QED
    BY <2>1 DEF NewFits
<1>4. LinkedIn(edges, nodes)'
  BY DEF GraphFits, LinkedIn, Joined, Leads, Without
<1> QED
  BY <1>1, <1>2, <1>3, <1>4 DEF GraphFits

LEMMA OrderTypes ==
  ASSUME RegistryTypes, NEW a \in Registered, NEW b \in Registered, Order(a, b)
  PROVE  RegistryTypes'
  BY DEF RegistryTypes, Order, Registered

LEMMA OrderSafe ==
  ASSUME Safe, NEW a \in Registered, NEW b \in Registered, Order(a, b)
  PROVE  Safe'
<1>0. RegistryTypes /\ GraphFits /\ FrameFits /\ Idle
  BY DEF Safe, Order, MayOrder
<1>1. PlanSafe' /\ FrameFits'
  BY <1>0, InvalidateKeeps DEF Order
<1>2. GraphFits'
  BY <1>0, GraphKept DEF Order, Invalidate
<1>3. RegistryTypes'
  BY <1>0, OrderTypes
<1> QED
  BY <1>1, <1>2, <1>3 DEF Safe

LEMMA DeclareTypes ==
  ASSUME RegistryTypes, NEW owner \in Names, NEW a \in Known, NEW b \in Known,
         Declare(owner, a, b)
  PROVE  RegistryTypes'
<1>1. pending' \in Seq([pair : Known \X Known, owner : Names])
  <2>1. [pair |-> <<a, b>>, owner |-> owner] \in [pair : Known \X Known, owner : Names]
    OBVIOUS
  <2> QED
    BY <2>1, AppendProperties DEF RegistryTypes, Declare
<1> QED
  BY <1>1 DEF RegistryTypes, Declare, Registered

LEMMA DeclareSafe ==
  ASSUME Safe, NEW owner \in Names, NEW a \in Known, NEW b \in Known, Declare(owner, a, b)
  PROVE  Safe'
<1>0. RegistryTypes /\ GraphFits /\ FrameFits /\ Idle
  BY DEF Safe, Declare, MayOrder
<1>1. PlanSafe' /\ FrameFits'
  BY <1>0, InvalidateKeeps DEF Declare
<1>2. GraphFits'
  BY <1>0, GraphKept DEF Declare, Invalidate
<1>4. RegistryTypes'
  BY <1>0, DeclareTypes
<1> QED
  BY <1>1, <1>2, <1>4 DEF Safe

\* Removing a system leaves the others, once each.
LEMMA RemoveFirstFacts ==
  ASSUME NEW T, NEW q \in Seq(T), \A i, j \in DOMAIN q : q[i] = q[j] => i = j,
         NEW e \in ToSet(q)
  PROVE  /\ RemoveFirst(q, e) \in Seq(T)
         /\ \A i, j \in DOMAIN RemoveFirst(q, e) :
               RemoveFirst(q, e)[i] = RemoveFirst(q, e)[j] => i = j
         /\ ToSet(RemoveFirst(q, e)) = ToSet(q) \ {e}
<1> DEFINE n == Len(q)
           I == {i \in 1 .. Len(q) : q[i] = e}
           p == Min(I)
           front == SubSeq(q, 1, p - 1)
           back == SubSeq(q, p + 1, n)
           r == RemoveFirst(q, e)
<1>1. n \in Nat /\ DOMAIN q = 1 .. n /\ \A i \in 1 .. n : q[i] \in T
  BY LenProperties
<1>2. PICK at0 \in 1 .. n : q[at0] = e
  BY <1>1 DEF ToSet
<1>3. p \in 1 .. n /\ q[p] = e
  <2>1. I \subseteq Nat /\ I # {}
    BY <1>2
  <2> HIDE DEF I
  <2>2. p \in I
    BY <2>1, Least
  <2> HIDE DEF p
  <2> QED
    BY <2>2 DEF I
<1>4. r = front \o back
  <2>1. SelectInSeq(q, LAMBDA v : v = e) = p
    BY <1>2 DEF SelectInSeq
  <2> QED
    BY <1>2, <2>1 DEF RemoveFirst, RemoveAt
<1> HIDE DEF p, r
<1>5. front \in Seq(T) /\ Len(front) = p - 1 /\ \A i \in 1 .. (p - 1) : front[i] = q[i]
  <2>1. \A i \in 1 .. (p - 1) : q[i] \in T
    BY <1>1, <1>3
  <2>2. /\ front \in Seq(T)
        /\ Len(front) = IF 1 <= p - 1 THEN p - 1 - 1 + 1 ELSE 0
        /\ \A i \in 1 .. (p - 1) - 1 + 1 : front[i] = q[1 + i - 1]
    BY <1>3, <2>1, SubSeqProperties
  <2> HIDE DEF front
  <2> QED
    BY <1>3, <2>2
<1>6. back \in Seq(T) /\ Len(back) = n - p /\ \A i \in 1 .. (n - p) : back[i] = q[p + i]
  <2>1. \A i \in (p + 1) .. n : q[i] \in T
    BY <1>1, <1>3
  <2>2. /\ back \in Seq(T)
        /\ Len(back) = IF p + 1 <= n THEN n - (p + 1) + 1 ELSE 0
        /\ \A i \in 1 .. n - (p + 1) + 1 : back[i] = q[(p + 1) + i - 1]
    BY <1>1, <1>3, <2>1, SubSeqProperties
  <2> HIDE DEF back, n
  <2>3. n - (p + 1) + 1 = n - p /\ \A i \in Int : (p + 1) + i - 1 = p + i
    BY <1>1, <1>3
  <2> QED
    BY <1>1, <1>3, <2>2, <2>3
<1> HIDE DEF front, back, n
<1>7. /\ r \in Seq(T) /\ Len(r) = n - 1 /\ DOMAIN r = 1 .. (n - 1)
      /\ \A i \in 1 .. (n - 1) : r[i] = q[IF i < p THEN i ELSE i + 1]
  <2>1. /\ front \o back \in Seq(T)
        /\ Len(front \o back) = Len(front) + Len(back)
        /\ \A i \in 1 .. Len(front) + Len(back) :
              (front \o back)[i] = IF i <= Len(front) THEN front[i] ELSE back[i - Len(front)]
    <3>1. front \in Seq(T) /\ back \in Seq(T)
      BY <1>5, <1>6
    <3> QED
      BY <3>1, ConcatProperties
  <2>2. r \in Seq(T) /\ Len(r) = n - 1
    BY <1>1, <1>3, <1>4, <1>5, <1>6, <2>1
  <2>3. ASSUME NEW i \in 1 .. (n - 1) PROVE r[i] = q[IF i < p THEN i ELSE i + 1]
    <3>1. r[i] = IF i <= p - 1 THEN front[i] ELSE back[i - (p - 1)]
      BY <1>1, <1>3, <1>4, <1>5, <1>6, <2>1
    <3>2. CASE i < p
      BY <1>1, <1>3, <1>5, <3>1, <3>2
    <3>3. CASE ~(i < p)
      <4>1. i - (p - 1) \in 1 .. (n - p) /\ p + (i - (p - 1)) = i + 1 /\ ~(i <= p - 1)
        BY <1>1, <1>3, <3>3
      <4> QED
        BY <1>6, <3>1, <3>3, <4>1
    <3> QED
      BY <3>2, <3>3
  <2> QED
    BY <2>2, <2>3, LenProperties
<1>8. \A i, j \in DOMAIN r : r[i] = r[j] => i = j
  <2> SUFFICES ASSUME NEW i \in 1 .. (n - 1), NEW j \in 1 .. (n - 1), r[i] = r[j]
               PROVE  i = j
    BY <1>7
  <2> DEFINE x == IF i < p THEN i ELSE i + 1
             y == IF j < p THEN j ELSE j + 1
  <2>1. x \in 1 .. n /\ y \in 1 .. n /\ (x = y => i = j)
    BY <1>1, <1>3
  <2>2. q[x] = q[y]
    BY <1>7
  <2> HIDE DEF x, y
  <2> QED
    BY <1>1, <2>1, <2>2
<1>9. \A i \in 1 .. (n - 1) : r[i] \in ToSet(q) \ {e}
  <2> SUFFICES ASSUME NEW i \in 1 .. (n - 1) PROVE r[i] \in ToSet(q) \ {e}
    OBVIOUS
  <2> DEFINE x == IF i < p THEN i ELSE i + 1
  <2>1. x \in 1 .. n /\ x # p
    BY <1>1, <1>3
  <2>2. r[i] = q[x]
    BY <1>7
  <2> HIDE DEF x
  <2> QED
    BY <1>1, <1>3, <2>1, <2>2 DEF ToSet
<1>10. ASSUME NEW t \in ToSet(q) \ {e} PROVE \E i \in 1 .. (n - 1) : r[i] = t
  <2>1. PICK x \in 1 .. n : q[x] = t
    BY <1>1 DEF ToSet
  <2>2. x # p
    BY <1>3, <2>1
  <2>3. CASE x < p
    <3>1. x \in 1 .. (n - 1)
      BY <1>1, <1>3, <2>3
    <3> QED
      BY <1>7, <2>1, <2>3, <3>1
  <2>4. CASE x > p
    <3>1. x - 1 \in 1 .. (n - 1) /\ ~(x - 1 < p) /\ (x - 1) + 1 = x
      BY <1>1, <1>3, <2>4
    <3> QED
      BY <1>7, <2>1, <3>1
  <2> QED
    BY <1>3, <2>2, <2>3, <2>4
<1>11. ToSet(r) = ToSet(q) \ {e}
  <2>1. ToSet(r) = {r[i] : i \in 1 .. (n - 1)}
    BY <1>7 DEF ToSet
  <2> QED
    BY <1>9, <1>10, <2>1
<1> QED
  BY <1>7, <1>8, <1>11 DEF r

LEMMA RemoveSystemTypes ==
  ASSUME RegistryTypes, NEW s \in Registered, RemoveSystem(s)
  PROVE  RegistryTypes' /\ Registered' = Registered \ {s}
<1>2. /\ systems' \in Seq(Names)
      /\ \A i, j \in DOMAIN systems' : systems'[i] = systems'[j] => i = j
      /\ Registered' = Registered \ {s}
  BY RemoveFirstFacts DEF RemoveSystem, RegistryTypes, Registered
<1>5. pending' \in Seq([pair : Known \X Known, owner : Names])
  <2> DEFINE D == [pair : Known \X Known, owner : Names]
             K == {d \in ToSet(pending) : d.owner # s}
  <2>1. pending' = Among(pending, K)
    BY DEF RemoveSystem
  <2>2. pending \in Seq(D)
    BY DEF RegistryTypes
  <2> HIDE DEF D, K
  <2>3. pending' \in Seq(D \cap K)
    BY <2>1, <2>2, AmongFacts
  <2>4. pending' \in Seq(D)
    BY <2>3
  <2> QED
    BY <2>4 DEF D
<1>6. explicit' \subseteq Registered' \X Registered'
  BY <1>2 DEF RegistryTypes, RemoveSystem, Without
<1>7. RegistryTypes'
  BY <1>2, <1>5, <1>6 DEF RegistryTypes, RemoveSystem
<1> QED
  BY <1>2, <1>7

LEMMA RemoveSystemSafe ==
  ASSUME Safe, NEW s \in Registered, RemoveSystem(s)
  PROVE  Safe'
<1>0. RegistryTypes /\ GraphFits /\ FrameFits /\ Idle
  BY DEF Safe, RemoveSystem
<1>1. PlanSafe' /\ FrameFits'
  BY <1>0, InvalidateKeeps DEF RemoveSystem
<1>3. nodes' = {} /\ edges' = {} /\ dirty' /\ eventOrdering' = TRUE
  BY <1>0 DEF RemoveSystem, Invalidate, GraphFits
<1>4. GraphFits'
  BY <1>3 DEF GraphFits, NodesFirst, NewFits, LinkedIn
<1>7. RegistryTypes'
  BY <1>0, RemoveSystemTypes
<1> QED
  BY <1>1, <1>4, <1>7 DEF Safe

LEMMA ConfigureStagesSafe ==
  ASSUME Safe, NEW order, ConfigureStages(order)
  PROVE  Safe'
<1>0. RegistryTypes /\ GraphFits /\ FrameFits /\ Idle
  BY DEF Safe, ConfigureStages
<1>1. PlanSafe' /\ FrameFits'
  BY <1>0, InvalidateKeeps DEF ConfigureStages
<1>2. GraphFits'
  BY <1>0, GraphKept DEF ConfigureStages, Invalidate
<1>3. RegistryTypes'
  BY <1>0 DEF RegistryTypes, ConfigureStages, Registered
<1> QED
  BY <1>1, <1>2, <1>3 DEF Safe

LEMMA EnableEventOrderingSafe ==
  ASSUME Safe, EnableEventOrdering(TRUE)
  PROVE  Safe'
<1>0. RegistryTypes /\ GraphFits /\ FrameFits /\ Idle
  BY DEF Safe, EnableEventOrdering
<1>1. PlanSafe' /\ FrameFits'
  BY <1>0, InvalidateKeeps DEF EnableEventOrdering
<1>2. eventOrdering' = eventOrdering
  BY <1>0 DEF EnableEventOrdering, GraphFits
<1>3. GraphFits'
  BY <1>0, <1>2, GraphKept DEF EnableEventOrdering, Invalidate
<1>4. RegistryTypes'
  BY <1>0 DEF RegistryTypes, EnableEventOrdering, Registered
<1> QED
  BY <1>1, <1>3, <1>4 DEF Safe

\* Orderings that are resolved name registered systems.
LEMMA ResolvedFacts ==
  ASSUME RegistryTypes
  PROVE  Resolved \in SUBSET (Registered \X Registered)
<1> DEFINE D == [pair : Known \X Known, owner : Names]
<1>1. pending \in Seq(D) /\ explicit \subseteq Registered \X Registered
  BY DEF RegistryTypes
<1>2. DOMAIN pending = 1 .. Len(pending) /\ Len(pending) \in Nat
      /\ \A i \in 1 .. Len(pending) : pending[i] \in D
  BY <1>1, LenProperties
<1>3. ASSUME NEW i \in DOMAIN pending, i \notin Unknown
      PROVE  pending[i].pair \in Registered \X Registered
  <2>1. pending[i].pair \in Known \X Known
    BY <1>2, <1>3
  <2>2. ToSet(pending[i].pair) \subseteq Registered
    BY <1>3 DEF Unknown
  <2>3. PICK x \in Known, y \in Known : pending[i].pair = <<x, y>>
    BY <2>1
  <2>4. x \in ToSet(<<x, y>>) /\ y \in ToSet(<<x, y>>)
    <3>1. DOMAIN <<x, y>> = 1 .. 2 /\ <<x, y>>[1] = x /\ <<x, y>>[2] = y
      OBVIOUS
    <3>2. 1 \in 1 .. 2 /\ 2 \in 1 .. 2
      OBVIOUS
    <3> DEFINE w == <<x, y>>
    <3> HIDE DEF w
    <3>3. x \in ToSet(w) /\ y \in ToSet(w)
      BY <3>1, <3>2 DEF ToSet, w
    <3> QED
      BY <3>3 DEF w
  <2> QED
    BY <2>2, <2>3, <2>4
<1>4. CASE Unknown = {}
  <2>1. \A d \in ToSet(pending) : d.pair \in Registered \X Registered
    BY <1>3, <1>4 DEF ToSet
  <2>2. Resolved = explicit \cup PairsOf(pending)
    BY <1>4 DEF Resolved
  <2> QED
    BY <1>1, <2>1, <2>2 DEF PairsOf
<1>5. CASE Unknown # {}
  <2> DEFINE m == Min(Unknown)
             kept == SubSeq(pending, 1, m - 1)
  <2>1. Unknown \subseteq 1 .. Len(pending) /\ Unknown \subseteq Nat
    BY <1>2 DEF Unknown
  <2>2. m \in Unknown /\ \A i \in Unknown : m <= i
    BY <1>5, <2>1, Least
  <2>3. m \in 1 .. Len(pending)
    BY <2>1, <2>2
  <2>4. Resolved = explicit \cup PairsOf(kept)
    BY <1>5 DEF Resolved
  <2> HIDE DEF m
  <2>5. \A i \in 1 .. (m - 1) : i \in DOMAIN pending /\ i \notin Unknown
    BY <1>2, <2>2, <2>3
  <2>6. \A i \in 1 .. (m - 1) : pending[i] \in D
    BY <1>2, <2>5
  <2>7. /\ kept \in Seq(D)
        /\ Len(kept) = IF 1 <= m - 1 THEN m - 1 - 1 + 1 ELSE 0
        /\ \A i \in 1 .. (m - 1) - 1 + 1 : kept[i] = pending[1 + i - 1]
    BY <2>3, <2>6, SubSeqProperties
  <2> HIDE DEF kept, D
  <2>8. DOMAIN kept = 1 .. (m - 1) /\ \A i \in 1 .. (m - 1) : kept[i] = pending[i]
    <3>1. DOMAIN kept = 1 .. Len(kept)
      BY <2>7, LenProperties
    <3> QED
      BY <2>3, <2>7, <3>1
  <2>9. \A d \in ToSet(kept) : d.pair \in Registered \X Registered
    BY <1>3, <2>5, <2>8 DEF ToSet
  <2> QED
    BY <1>1, <2>4, <2>9 DEF PairsOf
<1> QED
  BY <1>4, <1>5

\* The edges of a compile join what is registered, and the barrier.
LEMMA NewEdgesTyped ==
  ASSUME NEW T, systems \in Seq(T), NEW order \in SUBSET (Registered \X Registered),
         edges \subseteq (Registered \cup {Barrier}) \X (Registered \cup {Barrier})
  PROVE  NewEdges(order) \subseteq (Registered \cup {Barrier}) \X (Registered \cup {Barrier})
<1> DEFINE N == Registered \cup {Barrier}
<1>1. Base(order) \subseteq N \X N
  <2> DEFINE F == Without(edges, Barrier) \cup ExplicitEdges(order)
  <2>1. F \subseteq N \X N
    BY DEF ExplicitEdges, Without
  <2> HIDE DEF F
  <2>2. WithBarrier(F) \subseteq F \cup (N \X N)
    <3> DEFINE declaring == {s \in Registered : Declares(s)}
               exclusive == Registered \ declaring
               into == F \cup {<<s, Barrier>> : s \in declaring}
               held == {x \in exclusive : ~HasPath(into, x, Barrier)}
    <3>1. WithBarrier(F) = IF declaring = {} \/ exclusive = {} THEN F
                           ELSE into \cup {<<Barrier, s>> : s \in held}
      BY DEF WithBarrier
    <3>2. into \subseteq F \cup (N \X N)
      OBVIOUS
    <3> HIDE DEF into
    <3>3. {<<Barrier, s>> : s \in held} \subseteq N \X N
      OBVIOUS
    <3> HIDE DEF held
    <3> QED
      BY <3>1, <3>2, <3>3
  <2> QED
    BY <2>1, <2>2 DEF Base, F
<1>2. Declaring \subseteq N
  BY DEF Declaring
<1> QED
  BY <1>1, <1>2, NewEdgesFacts

LEMMA CompileTypes ==
  ASSUME RegistryTypes, Compile
  PROVE  RegistryTypes'
<1>1. Registered' = Registered /\ systems' = systems
  BY DEF Compile, Registered
<1>2. Resolved \in SUBSET (Registered \X Registered)
  BY ResolvedFacts
<1>3. pending' = <<>> /\ explicit' = Resolved
  BY DEF Compile
<1> QED
  BY <1>1, <1>2, <1>3, EmptySeq DEF RegistryTypes

LEMMA CompileSafe ==
  ASSUME Safe, Compile
  PROVE  Safe'
<1>0. RegistryTypes /\ GraphFits /\ PlanSafe /\ FrameFits /\ Idle
  BY DEF Safe, Compile
<1>1. systems \in Seq(Names) /\ UNCHANGED <<systems, eventOrdering>> /\ eventOrdering = TRUE
  BY <1>0 DEF Compile, RegistryTypes, GraphFits
<1>2. Registered' = Registered /\ Registered \subseteq Names /\ Barrier \notin Registered
  <2>1. Registered \subseteq Names
    BY <1>1, LenProperties DEF Registered, ToSet
  <2> QED
    BY <1>1, <2>1, ScheduleAssumption DEF Registered, Barrier
<1>3. Resolved \in SUBSET (Registered \X Registered)
  BY <1>0, ResolvedFacts
<1>4. RegistryTypes'
  BY <1>0, CompileTypes
<1>5. FrameFits'
  <2>1. mode = "closed" /\ enabled = {} /\ running = {} /\ done = {} /\ schedule = <<>>
    BY <1>0, IdleFacts
  <2>2. at' = 0 /\ schedule' = <<>> /\ mode' = "closed" /\ enabled' = {}
        /\ running' = {} /\ done' = {}
    BY <1>0, <2>1 DEF Compile, frame, Idle
  <2> QED
    BY <2>2, EmptySeq DEF FrameFits, Idle
<1>6. CASE dirty /\ Unknown # {}
  <2>1. UNCHANGED <<nodes, edges, dirty, plan>>
    BY <1>6 DEF Compile
  <2>2. GraphFits'
    BY <1>0, <1>1, <2>1, GraphKept
  <2>3. PlanSafe'
    BY <1>0, <2>1 DEF PlanSafe
  <2> QED
    BY <1>4, <1>5, <2>2, <2>3 DEF Safe
<1>7. CASE ~(dirty /\ Unknown # {})
  <2> DEFINE N == Registered \cup {Barrier}
             E == IF dirty THEN NewEdges(Resolved) ELSE edges
  <2>1. /\ edges' = E /\ nodes' = Registered /\ dirty' = FALSE
        /\ \/ Cyclic(E) /\ UNCHANGED plan
           \/ /\ ~Cyclic(E)
              /\ \E sorted \in SetToSeqs(Registered) : plan' = Stages(E, Resolved, sorted)
    BY <1>7 DEF Compile
  <2>2. LinkedIn(E, Registered)
    <3>1. CASE dirty
      BY <1>0, <1>1, <1>2, <1>3, <3>1, NewEdgesLink DEF GraphFits
    <3>2. CASE ~dirty
      BY <1>0, <3>2 DEF GraphFits
    <3> QED
      BY <3>1, <3>2
  <2>3. E \subseteq N \X N
    <3>1. CASE dirty
      <4>1. edges \subseteq N \X N
        BY <1>0 DEF GraphFits
      <4>2. NewEdges(Resolved) \subseteq N \X N
        BY <1>1, <1>3, <4>1, NewEdgesTyped
      <4> QED
        BY <3>1, <4>2
    <3>2. CASE ~dirty
      BY <1>0, <3>2 DEF GraphFits
    <3> QED
      BY <3>1, <3>2
  <2> HIDE DEF E
  <2>4. PlanSafe'
    <3>1. CASE Cyclic(E)
      BY <1>0, <2>1, <3>1 DEF PlanSafe
    <3>2. CASE ~Cyclic(E)
      <4>1. PICK sorted \in SetToSeqs(Registered) : plan' = Stages(E, Resolved, sorted)
        BY <2>1, <3>2
      <4>2. plan' \in Seq(SafeStages)
        BY <1>1, <2>2, <2>3, <3>2, <4>1, StagesSafe
      <4> QED
        BY <4>2 DEF PlanSafe
    <3> QED
      BY <3>1, <3>2
  <2>5. GraphFits'
    <3>1. NodesFirst' /\ NewFits'
      <4>1. \A i \in DOMAIN systems : systems[i] \in Registered
        BY DEF Registered, ToSet
      <4> QED
        BY <1>1, <2>1, <4>1 DEF NodesFirst, NewFits
    <3>2. LinkedIn(edges, nodes)'
      BY <2>1, <2>2 DEF LinkedIn, Joined, Leads, Without
    <3> QED
      BY <1>1, <1>2, <2>1, <2>3, <3>1, <3>2 DEF GraphFits
  <2> QED
    BY <1>4, <1>5, <2>4, <2>5 DEF Safe
<1> QED
  BY <1>6, <1>7

\* A step of the frame leaves the registry and the plan alone.
LEMMA PlanKept ==
  ASSUME Safe, UNCHANGED <<registry, compiled>>
  PROVE  RegistryTypes' /\ GraphFits' /\ PlanSafe'
<1>1. UNCHANGED <<systems, explicit, pending, eventOrdering, nodes, edges, dirty, plan>>
  BY DEF registry, compiled
<1>2. RegistryTypes'
  BY <1>1 DEF Safe, RegistryTypes, Registered
<1>3. GraphFits'
  BY <1>1, GraphKept DEF Safe
<1>4. PlanSafe'
  BY <1>1 DEF Safe, PlanSafe
<1> QED
  BY <1>2, <1>3, <1>4

LEMMA BeginFrameSafe ==
  ASSUME Safe, NEW steps \in 0 .. MaxSteps, BeginFrame(steps)
  PROVE  Safe'
<1>0. PlanSafe /\ FrameFits /\ Idle
  BY DEF Safe, BeginFrame
<1>1. RegistryTypes' /\ GraphFits' /\ PlanSafe'
  BY PlanKept DEF BeginFrame
<1>2. mode = "closed" /\ enabled = {} /\ running = {} /\ done = {}
  BY <1>0, IdleFacts
<1>3. schedule' \in Seq(DOMAIN plan')
  <2>1. steps \in Nat
    BY ScheduleAssumption
  <2>2. Frame(steps) \in Seq(DOMAIN plan)
    BY <1>0, <2>1, FrameFacts DEF PlanSafe
  <2> QED
    BY <2>2 DEF BeginFrame, compiled
<1>4. at' = 1 /\ mode' = "closed" /\ enabled' = {} /\ running' = {} /\ done' = {}
  BY <1>2 DEF BeginFrame
<1>5. FrameFits'
  BY <1>3, <1>4 DEF FrameFits, Idle
<1> QED
  BY <1>1, <1>5 DEF Safe

\* The frame moves on to its next stage, or ends, with nothing open.
LEMMA ClosedKeeps ==
  ASSUME FrameFits, UNCHANGED plan, at' \in Nat,
         schedule' = schedule \/ schedule' = <<>>, at' = 0 => schedule' = <<>>,
         mode' = "closed", enabled' = {}, running' = {}, done' = {}
  PROVE  FrameFits'
  BY EmptySeq DEF FrameFits, Idle

LEMMA SkipStageSafe ==
  ASSUME Safe, SkipStage
  PROVE  Safe'
<1>0. FrameFits /\ mode = "closed" /\ at \in Nat /\ at # 0
  BY DEF Safe, SkipStage, FrameFits, InFrame, Idle
<1>1. enabled = {} /\ running = {} /\ done = {}
  BY <1>0 DEF FrameFits
<1>2. at' = at + 1 /\ UNCHANGED <<plan, schedule, mode, enabled, running, done>>
  BY DEF SkipStage, LeaveStage, compiled
<1>3. FrameFits'
  BY <1>0, <1>1, <1>2, ClosedKeeps
<1>4. RegistryTypes' /\ GraphFits' /\ PlanSafe'
  BY PlanKept DEF SkipStage
<1> QED
  BY <1>3, <1>4 DEF Safe

LEMMA CloseStageSafe ==
  ASSUME Safe, CloseStage
  PROVE  Safe'
<1>0. FrameFits /\ at \in Nat /\ at # 0 /\ done = enabled
  BY DEF Safe, CloseStage, FrameFits, InFrame, Idle
<1>1. running = {}
  BY <1>0 DEF FrameFits
<1>2. /\ at' = at + 1 /\ UNCHANGED <<plan, schedule, running>>
      /\ mode' = "closed" /\ enabled' = {} /\ done' = {}
  BY DEF CloseStage, LeaveStage, compiled
<1>3. FrameFits'
  BY <1>0, <1>1, <1>2, ClosedKeeps
<1>4. RegistryTypes' /\ GraphFits' /\ PlanSafe'
  BY PlanKept DEF CloseStage
<1> QED
  BY <1>3, <1>4 DEF Safe

LEMMA EndFrameSafe ==
  ASSUME Safe, EndFrame
  PROVE  Safe'
<1>0. FrameFits /\ mode = "closed"
  BY DEF Safe, EndFrame, FrameFits, InFrame
<1>1. enabled = {} /\ running = {} /\ done = {}
  BY <1>0 DEF FrameFits
<1>2. at' = 0 /\ schedule' = <<>> /\ UNCHANGED <<plan, mode, enabled, running, done>>
  BY DEF EndFrame, compiled
<1>3. FrameFits'
  BY <1>0, <1>1, <1>2, ClosedKeeps
<1>4. RegistryTypes' /\ GraphFits' /\ PlanSafe'
  BY PlanKept DEF EndFrame
<1> QED
  BY <1>3, <1>4 DEF Safe

LEMMA OpenStageSafe ==
  ASSUME Safe, NEW holding \in SUBSET Members, NEW how \in {"sequential", "parallel"},
         OpenStage(holding, how)
  PROVE  Safe'
<1>0. PlanSafe /\ FrameFits /\ InFrame /\ mode = "closed"
  BY DEF Safe, OpenStage
<1>1. running = {} /\ done = {}
  BY <1>0 DEF FrameFits
<1>2. UNCHANGED <<plan, schedule, at, running, done>> /\ enabled' = holding /\ mode' = how
  BY DEF OpenStage, compiled
<1>3. Members' = Members /\ InFrame' = InFrame /\ Open' = Open
  BY <1>2 DEF Members, InFrame, Idle, Open
<1>4. Members \subseteq Names
  <2>1. PICK q \in SafeIds : Members = ToSet(q)
    BY <1>0, OpenFacts
  <2> QED
    BY <2>1, LenProperties DEF SafeIds, ToSet
<1>5. mode' = "parallel" => Open'.parallel
  BY <1>3 DEF OpenStage
<1>6. FrameFits'
  <2>1. at' \in Nat /\ schedule' \in Seq(DOMAIN plan') /\ (Idle' => schedule' = <<>>)
    BY <1>0, <1>2 DEF FrameFits, Idle
  <2>2. enabled' \subseteq Members' /\ InFrame' /\ enabled' \subseteq Names
    BY <1>0, <1>2, <1>3, <1>4
  <2>3. running' = {} /\ done' = {}
    BY <1>1, <1>2
  <2>4. mode' \in {"sequential", "parallel"}
    BY <1>2
  <2> QED
    BY <2>1, <2>2, <2>3, <2>4, <1>5 DEF FrameFits
<1>7. RegistryTypes' /\ GraphFits' /\ PlanSafe'
  BY PlanKept DEF OpenStage
<1> QED
  BY <1>6, <1>7 DEF Safe

\* Systems come and go within the open stage.
LEMMA StageKept ==
  ASSUME FrameFits, mode # "closed", UNCHANGED <<plan, schedule, at, enabled, mode>>,
         running' \cup done' \subseteq enabled, running' \cap done' = {},
         mode = "sequential" =>
            \A s \in running' \cup done' : Earlier(s, enabled) \subseteq done'
  PROVE  FrameFits'
<1>1. Members' = Members /\ InFrame' = InFrame /\ Open' = Open
  BY DEF Members, InFrame, Idle, Open
<1>2. \A s : Earlier(s, enabled)' = Earlier(s, enabled)
  BY DEF Earlier, Place, SelectInSeq, Open
<1>3. at' \in Nat /\ schedule' \in Seq(DOMAIN plan') /\ (Idle' => schedule' = <<>>)
  BY DEF FrameFits, Idle
<1>4. /\ mode' \in {"closed", "sequential", "parallel"} /\ mode' # "closed"
      /\ enabled' \subseteq Names /\ InFrame' /\ enabled' \subseteq Members'
      /\ mode' = "parallel" => Open'.parallel
  BY <1>1 DEF FrameFits
<1>5. mode' = "sequential" =>
         \A s \in running' \cup done' : Earlier(s, enabled)' \subseteq done'
  BY <1>2
<1> QED
  BY <1>3, <1>4, <1>5 DEF FrameFits

LEMMA StartSafe ==
  ASSUME Safe, NEW s \in enabled, Start(s)
  PROVE  Safe'
<1>0. FrameFits /\ mode # "closed" /\ s \notin running /\ s \notin done
  BY DEF Safe, Start, FrameFits
<1>1. UNCHANGED <<plan, schedule, at, enabled, mode, done>> /\ running' = running \cup {s}
  BY DEF Start, compiled
<1>2. running' \cup done' \subseteq enabled /\ running' \cap done' = {}
  BY <1>0, <1>1 DEF FrameFits
<1>3. mode = "sequential" =>
         \A t \in running' \cup done' : Earlier(t, enabled) \subseteq done'
  BY <1>0, <1>1 DEF FrameFits, Start, MayStart
<1>4. FrameFits'
  BY <1>0, <1>1, <1>2, <1>3, StageKept
<1>5. RegistryTypes' /\ GraphFits' /\ PlanSafe'
  BY PlanKept DEF Start
<1> QED
  BY <1>4, <1>5 DEF Safe

LEMMA FinishSafe ==
  ASSUME Safe, NEW s \in enabled, Finish(s)
  PROVE  Safe'
<1>0. FrameFits /\ mode # "closed" /\ s \in running
  BY DEF Safe, Finish, FrameFits
<1>1. /\ UNCHANGED <<plan, schedule, at, enabled, mode>>
      /\ running' = running \ {s} /\ done' = done \cup {s}
  BY DEF Finish, compiled
<1>2. running' \cup done' \subseteq enabled /\ running' \cap done' = {}
  BY <1>0, <1>1 DEF FrameFits
<1>3. mode = "sequential" =>
         \A t \in running' \cup done' : Earlier(t, enabled) \subseteq done'
  BY <1>0, <1>1 DEF FrameFits
<1>4. FrameFits'
  BY <1>0, <1>1, <1>2, <1>3, StageKept
<1>5. RegistryTypes' /\ GraphFits' /\ PlanSafe'
  BY PlanKept DEF Finish
<1> QED
  BY <1>4, <1>5 DEF Safe

LEMMA NextSafe ==
  ASSUME ~LateConflicts, EventOrders \subseteq {TRUE}, Safe, [Next]_vars
  PROVE  Safe'
<1>1. ASSUME NEW s \in Names, Register(s) PROVE Safe'
  BY <1>1, RegisterSafe
<1>2. ASSUME NEW a \in Registered, NEW b \in Registered, Order(a, b) PROVE Safe'
  BY <1>2, OrderSafe
<1>3. ASSUME systems # <<>>, NEW other \in Forward,
             Declare(Last(systems), Last(systems), other)
             \/ Declare(Last(systems), other, Last(systems))
      PROVE  Safe'
  <2>1. systems \in Seq(Names)
    BY DEF Safe, RegistryTypes
  <2>2. Len(systems) \in 1 .. Len(systems)
    BY <1>3, <2>1, EmptySeq, LenProperties
  <2>3. Last(systems) \in Names
    BY <2>1, <2>2, ElementOfSeq DEF Last
  <2>4. Last(systems) \in Known /\ other \in Known
    BY <2>3 DEF Known
  <2> QED
    BY <1>3, <2>3, <2>4, DeclareSafe
<1>4. ASSUME NEW s \in Registered, RemoveSystem(s) PROVE Safe'
  BY <1>4, RemoveSystemSafe
<1>5. ASSUME NEW order \in Orders, ConfigureStages(order) PROVE Safe'
  BY <1>5, ConfigureStagesSafe
<1>6. ASSUME NEW b \in EventOrders, EnableEventOrdering(b) PROVE Safe'
  <2>1. b = TRUE
    OBVIOUS
  <2> QED
    BY <1>6, <2>1, EnableEventOrderingSafe
<1>7. ASSUME Compile PROVE Safe'
  BY <1>7, CompileSafe
<1>8. ASSUME NEW steps \in 0 .. MaxSteps, BeginFrame(steps) PROVE Safe'
  BY <1>8, BeginFrameSafe
<1>9. ASSUME SkipStage PROVE Safe'
  BY <1>9, SkipStageSafe
<1>10. ASSUME NEW holding \in SUBSET Members, NEW how \in {"sequential", "parallel"},
              OpenStage(holding, how)
       PROVE  Safe'
  BY <1>10, OpenStageSafe
<1>11. ASSUME NEW s \in enabled, Start(s) \/ Finish(s) PROVE Safe'
  BY <1>11, StartSafe, FinishSafe
<1>12. ASSUME CloseStage PROVE Safe'
  BY <1>12, CloseStageSafe
<1>13. ASSUME EndFrame PROVE Safe'
  BY <1>13, EndFrameSafe
<1>14. ASSUME UNCHANGED vars PROVE Safe'
  <2>1. UNCHANGED <<registry, compiled, schedule, at, enabled, mode, running, done>>
    BY <1>14 DEF vars, frame
  <2>2. RegistryTypes' /\ GraphFits' /\ PlanSafe'
    BY <2>1, PlanKept
  <2>3. UNCHANGED plan
    BY <2>1 DEF compiled
  <2>4. FrameFits'
    <3>1. CASE mode = "closed"
      <4>1. enabled = {} /\ running = {} /\ done = {} /\ (at = 0 => schedule = <<>>) /\ at \in Nat
        BY <3>1 DEF Safe, FrameFits, Idle
      <4> QED
        BY <2>1, <2>3, <3>1, <4>1, ClosedKeeps DEF Safe
    <3>2. CASE mode # "closed"
      <4>1. FrameFits
        BY DEF Safe
      <4>2. /\ running' \cup done' \subseteq enabled /\ running' \cap done' = {}
            /\ mode = "sequential" =>
                  \A s \in running' \cup done' : Earlier(s, enabled) \subseteq done'
        BY <2>1, <4>1 DEF FrameFits
      <4> QED
        BY <2>1, <2>3, <3>2, <4>1, <4>2, StageKept
    <3> QED
      BY <3>1, <3>2
  <2> QED
    BY <2>2, <2>4 DEF Safe
<1> QED
  BY <1>1, <1>2, <1>3, <1>4, <1>5, <1>6, <1>7, <1>8, <1>9, <1>10, <1>11, <1>12,
     <1>13, <1>14 DEF Next

\* Whatever is registered, ordered, removed and compiled in whatever order, and
\* whichever stages are run in parallel, two systems whose declared accesses
\* conflict are never running together: every pair of them has a path in the
\* graph, hence two levels, hence two stages.  With event ordering turned off,
\* emitters of one event may overlap; a system added to a compiled graph must
\* not need an edge that only its elder could have been given.
THEOREM NeverRaces ==
  ASSUME ~LateConflicts, EventOrders \subseteq {TRUE}
  PROVE  Spec => []NoRace
<1>1. Safe /\ [Next]_vars => Safe'
  BY NextSafe
<1> QED
  BY <1>1, InitSafe, SafeNoRace, PTL DEF Spec

-----------------------------------------------------------------------------
(* Why a compile finds a cycle.                                            *)

\* A pair of systems of S, or one of S and an earlier one, that gives the author
\* of the schedule a cycle to answer for.
Excuse(S, order) ==
  \E i, j \in DOMAIN systems :
     /\ i < j /\ systems[j] \in S
     /\ \/ <<systems[j], systems[i]>> \in order
        \/ /\ Declares(systems[i]) /\ Declares(systems[j])
           /\ Conflict(systems[i], systems[j]) = "both ways"
           /\ <<systems[i], systems[j]>> \notin order

\* The symmetric conflicts among the systems of the graph have their edges.
SymmetricIn(order) ==
  \A i, j \in DOMAIN systems :
     /\ i < j /\ systems[j] \in nodes
     /\ Declares(systems[i]) /\ Declares(systems[j])
     /\ Conflict(systems[i], systems[j]) \in Symmetric
     => \/ <<systems[i], systems[j]>> \in edges
        \/ <<systems[j], systems[i]>> \in order

OrderedIn(order) == \A e \in order : e[1] # e[2] /\ (e[2] \in nodes => e \in edges)

LEMMA CyclicFacts ==
  ASSUME NEW E
  PROVE  Cyclic(E) <=> ~Acyclic(E)
  BY HasPathLeads DEF Cyclic, Acyclic

\* What no edge leaves is left by no path.
LEMMA CutOff ==
  ASSUME NEW E, NEW S, NEW a, NEW b, b \in S, a \notin S,
         \A e \in E : e[1] \in S => e[2] \in S
  PROVE  ~Leads(E, b, a)
  BY DEF Leads

\* An edge closes no cycle if its end does not lead to its beginning.
LEMMA AddEdge ==
  ASSUME NEW E, Acyclic(E), NEW x, NEW y, ~Leads(E, y, x)
  PROVE  Acyclic(E \cup {<<x, y>>})
<1> DEFINE G == E \cup {<<x, y>>}
           W == {e[2] : e \in G}
           From(a) == {z \in W : Leads(E, a, z)}
<1>1. \A e \in E : \A a : Leads(E, a, e[1]) => Leads(E, a, e[2])
  BY LeadsFacts
<1>2. y \in W /\ \A e \in G : e[2] \in W
  <2>1. <<x, y>> \in G /\ <<x, y>>[2] = y
    OBVIOUS
  <2> QED
    BY <2>1
<1>3. \A a : Leads(E, a, a)
  BY LeadsFacts
<1>4. ASSUME NEW e \in G PROVE ~Leads(G, e[2], e[1])
  <2>1. CASE e = <<x, y>>
    <3>1. y \in From(y) /\ x \notin From(y)
      BY <1>2, <1>3
    <3>2. \A f \in G : f[1] \in From(y) => f[2] \in From(y)
      <4> SUFFICES ASSUME NEW f \in G, f[1] \in From(y) PROVE f[2] \in From(y)
        OBVIOUS
      <4>1. f # <<x, y>>
        BY <3>1
      <4>2. f \in E /\ Leads(E, y, f[1])
        BY <4>1
      <4> QED
        BY <1>1, <1>2, <4>2
    <3> HIDE DEF From, G
    <3> QED
      BY <2>1, <3>1, <3>2, CutOff
  <2>2. CASE e \in E /\ Leads(E, y, e[1])
    <3> DEFINE S == From(e[2])
    <3>1. ~Leads(E, e[2], e[1])
      BY <2>2 DEF Acyclic
    <3>2. ~Leads(E, e[2], x)
      BY <2>2, <1>1, LeadsFacts
    <3>3. e[2] \in S /\ e[1] \notin S /\ x \notin S
      BY <1>2, <1>3, <3>1, <3>2
    <3>4. \A f \in G : f[1] \in S => f[2] \in S
      <4> SUFFICES ASSUME NEW f \in G, f[1] \in S PROVE f[2] \in S
        OBVIOUS
      <4>1. f # <<x, y>>
        BY <3>3
      <4>2. f \in E /\ Leads(E, e[2], f[1])
        BY <4>1
      <4> QED
        BY <1>1, <1>2, <4>2
    <3> HIDE DEF S, G
    <3> QED
      BY <3>3, <3>4, CutOff
  <2>3. CASE e \in E /\ ~Leads(E, y, e[1])
    <3> DEFINE S == From(e[2]) \cup From(y)
    <3>1. ~Leads(E, e[2], e[1])
      BY <2>3 DEF Acyclic
    <3>2. e[2] \in S /\ e[1] \notin S /\ y \in S
      BY <1>2, <1>3, <2>3, <3>1
    <3>3. \A f \in G : f[1] \in S => f[2] \in S
      <4> SUFFICES ASSUME NEW f \in G, f[1] \in S PROVE f[2] \in S
        OBVIOUS
      <4>1. CASE f = <<x, y>>
        BY <3>2, <4>1
      <4>2. CASE f \in E
        BY <1>1, <1>2, <4>2
      <4> QED
        BY <4>1, <4>2
    <3> HIDE DEF S, G
    <3> QED
      BY <3>2, <3>3, CutOff
  <2> QED
    BY <2>1, <2>2, <2>3
<1> QED
  BY <1>4 DEF Acyclic

\* The barrier leads to no declared system.
Clear(E) == \A s \in Declaring : ~Leads(E, Barrier, s)

\* An edge between declared systems leaves that so.
LEMMA ClearKept ==
  ASSUME NEW E, Clear(E), NEW x \in Declaring, NEW y
  PROVE  Clear(E \cup {<<x, y>>})
<1> DEFINE G == E \cup {<<x, y>>}
<1> SUFFICES ASSUME NEW s \in Declaring PROVE ~Leads(G, Barrier, s)
  BY DEF Clear
<1> DEFINE S == {z \in {e[2] : e \in G} \cup {Barrier} : Leads(E, Barrier, z)}
<1>1. Barrier \in S /\ s \notin S /\ x \notin S
  BY LeadsFacts DEF Clear
<1>2. \A f \in G : f[1] \in S => f[2] \in S
  <2> SUFFICES ASSUME NEW f \in G, f[1] \in S PROVE f[2] \in S
    OBVIOUS
  <2>1. f # <<x, y>>
    BY <1>1
  <2>2. f \in E /\ Leads(E, Barrier, f[1])
    BY <2>1
  <2>3. Leads(E, Barrier, f[2])
    BY <2>2, LeadsFacts
  <2> QED
    BY <2>3
<1> HIDE DEF S, G
<1> QED
  BY <1>1, <1>2, CutOff

\* A walk over a square goes through its rows one after another.
LEMMA RowGrows ==
  ASSUME NEW n \in Nat \ {0}, NEW x \in Int, NEW y \in Int, x <= y
  PROVE  x \div n <= y \div n
<1> DEFINE p == x \div n
           q == y \div n
           r == x % n
           s == y % n
<1>1. p \in Int /\ q \in Int /\ r \in 0 .. n - 1 /\ s \in 0 .. n - 1
      /\ x = n * p + r /\ y = n * q + s
  OBVIOUS
<1> HIDE DEF p, q, r, s
<1>2. CASE p >= q + 1
  <2>1. n * p >= n * (q + 1)
    BY <1>1, <1>2
  <2>2. n * (q + 1) = n * q + n
    BY <1>1
  <2> QED
    BY <1>1, <2>1, <2>2
<1>3. p <= q
  BY <1>1, <1>2
<1> QED
  BY <1>3 DEF p, q

\* What the graph was, and what is asked of it.
Sorted(order) ==
  /\ systems \in Seq(Names)
  /\ \A i, j \in DOMAIN systems : systems[i] = systems[j] => i = j
  /\ Barrier \notin Registered
  /\ order \in SUBSET (Registered \X Registered)
  /\ nodes \subseteq Registered
  /\ NodesFirst /\ NewFits
  /\ edges \subseteq (nodes \cup {Barrier}) \X (nodes \cup {Barrier})
  /\ Acyclic(edges)
  /\ OrderedIn(order) /\ SymmetricIn(order)
  /\ ~Excuse(Registered, order)

\* No ordering goes against the order of registration.
LEMMA OrderAscends ==
  ASSUME NEW order, Sorted(order)
  PROVE  \A e \in order : \E m, l \in DOMAIN systems :
            m < l /\ e = <<systems[m], systems[l]>>
<1> SUFFICES ASSUME NEW e \in order
             PROVE  \E m, l \in DOMAIN systems : m < l /\ e = <<systems[m], systems[l]>>
  OBVIOUS
<1>1. e \in Registered \X Registered /\ e[1] # e[2]
  BY DEF Sorted, OrderedIn
<1>2. PICK m \in DOMAIN systems : systems[m] = e[1]
  BY <1>1 DEF Registered, ToSet
<1>3. PICK l \in DOMAIN systems : systems[l] = e[2]
  BY <1>1 DEF Registered, ToSet
<1>4. e = <<systems[m], systems[l]>> /\ systems[l] \in Registered /\ systems[m] \in Registered
  BY <1>1, <1>2, <1>3
<1>5. m # l
  BY <1>1, <1>2, <1>3
<1>6. ~(l < m)
  BY <1>4 DEF Sorted, Excuse
<1>7. m \in Nat /\ l \in Nat
  BY LenProperties DEF Sorted
<1> QED
  BY <1>4, <1>5, <1>6, <1>7

\* The orderings make no cycle with what the graph held.
LEMMA OrderedAcyclic ==
  ASSUME NEW order, Sorted(order)
  PROVE  /\ Acyclic(Without(edges, Barrier) \cup ExplicitEdges(order))
         /\ order \subseteq Without(edges, Barrier) \cup ExplicitEdges(order)
<1> DEFINE W == Without(edges, Barrier)
           X == {e \in order : e[2] \notin nodes}
           F == W \cup X
<1>0. \A e \in order : /\ e[1] \in Registered /\ e[2] \in Registered
                       /\ e[1] # Barrier /\ e[2] # Barrier
  BY DEF Sorted
<1>1. \A e \in order : e \in F
  BY <1>0 DEF Sorted, OrderedIn, Without
<1>2. W \cup ExplicitEdges(order) = F
  <2>1. X \subseteq ExplicitEdges(order)
    BY <1>0 DEF ExplicitEdges, Processed
  <2>2. ExplicitEdges(order) \subseteq F
    BY <1>1 DEF ExplicitEdges
  <2> QED
    BY <2>1, <2>2
<1>3. \A e \in W : e \in edges /\ e[1] \in nodes /\ e[2] \in nodes
  BY DEF Sorted, Without
<1>4. ASSUME NEW e \in W PROVE ~Leads(W, e[2], e[1])
  <2>1. W \subseteq edges
    BY DEF Without
  <2>2. e \in edges /\ ~Leads(edges, e[2], e[1])
    BY <2>1 DEF Sorted, Acyclic
  <2> HIDE DEF W
  <2> QED
    BY <2>1, <2>2, LeadsFacts
<1> HIDE DEF W
<1>5. ASSUME NEW e \in F PROVE ~Leads(F, e[2], e[1])
  <2>1. CASE e \in W
    <3> DEFINE S == {z \in nodes : Leads(W, e[2], z)} \cup (Registered \ nodes)
    <3>1. e[2] \in S /\ e[1] \notin S
      BY <1>3, <1>4, <2>1, LeadsFacts
    <3>2. \A f \in F : f[1] \in S => f[2] \in S
      <4> SUFFICES ASSUME NEW f \in F, f[1] \in S PROVE f[2] \in S
        OBVIOUS
      <4>1. CASE f \in W
        <5>1. f[1] \in nodes /\ f[2] \in nodes
          BY <1>3, <4>1
        <5>2. Leads(W, e[2], f[1])
          BY <5>1
        <5>3. Leads(W, e[2], f[2])
          BY <4>1, <5>2, LeadsFacts
        <5> QED
          BY <5>1, <5>3
      <4>2. CASE f \in X
        BY <1>0, <4>2
      <4> QED
        BY <4>1, <4>2
    <3> HIDE DEF S, F
    <3> QED
      BY <3>1, <3>2, CutOff
  <2>2. CASE e \in X
    <3>1. PICK m \in DOMAIN systems, l \in DOMAIN systems :
             m < l /\ e = <<systems[m], systems[l]>>
      BY <2>2, OrderAscends
    <3>2. systems[l] \notin nodes
      BY <2>2, <3>1
    <3>3. \A k \in DOMAIN systems : k \in Nat
      BY LenProperties DEF Sorted
    <3> DEFINE S == {systems[k] : k \in {o \in DOMAIN systems : l <= o}}
    <3>4. \A k \in DOMAIN systems : l <= k => systems[k] \notin nodes
      <4> SUFFICES ASSUME NEW k \in DOMAIN systems, l <= k, k # l PROVE systems[k] \notin nodes
        BY <3>2
      <4>1. l < k
        BY <3>3
      <4> QED
        BY <3>2, <4>1 DEF Sorted, NodesFirst
    <3>5. e[2] \in S /\ e[1] \notin S
      <4>1. e[2] \in S
        BY <3>1, <3>3
      <4>2. ASSUME NEW k \in DOMAIN systems, l <= k, systems[k] = e[1] PROVE FALSE
        <5>1. k = m
          BY <3>1, <4>2 DEF Sorted
        <5> QED
          BY <3>1, <3>3, <4>2, <5>1
      <4> QED
        BY <4>1, <4>2
    <3>6. \A f \in F : f[1] \in S => f[2] \in S
      <4> SUFFICES ASSUME NEW f \in F, NEW k \in DOMAIN systems, l <= k, systems[k] = f[1]
                   PROVE  f[2] \in S
        OBVIOUS
      <4>1. f \in X
        BY <1>3, <3>4
      <4>2. PICK m2 \in DOMAIN systems, l2 \in DOMAIN systems :
               m2 < l2 /\ f = <<systems[m2], systems[l2]>>
        BY <4>1, OrderAscends
      <4>3. m2 = k
        BY <4>2 DEF Sorted
      <4>4. l <= l2
        BY <3>3, <4>2, <4>3
      <4> QED
        BY <4>2, <4>4
    <3> HIDE DEF S, F
    <3> QED
      BY <3>5, <3>6, CutOff
  <2> QED
    BY <2>1, <2>2
<1> QED
  BY <1>1, <1>2, <1>5 DEF Acyclic, W

\* Nor does the barrier: it leads to nothing that leads to it.
LEMMA BarrierAcyclic ==
  ASSUME NEW F, Acyclic(F), \A e \in F : e[1] # Barrier /\ e[2] # Barrier,
         Barrier \notin Registered
  PROVE  Acyclic(WithBarrier(F)) /\ Clear(WithBarrier(F)) /\ F \subseteq WithBarrier(F)
<1> DEFINE exclusive == Registered \ Declaring
           into == F \cup {<<s, Barrier>> : s \in Declaring}
           held == {x \in exclusive : ~HasPath(into, x, Barrier)}
           out == {<<Barrier, s>> : s \in held}
           G == WithBarrier(F)
           V == {e[2] : e \in F} \cup {Barrier} \cup Registered
           Off == {z \in V : ~Leads(into, z, Barrier)}
<1>1. G = IF Declaring = {} \/ exclusive = {} THEN F ELSE into \cup out
  BY DEF WithBarrier, Declaring
<1>2. \A e \in into : /\ e[1] # Barrier /\ e[2] \in V
                      /\ \/ e \in F /\ e[2] # Barrier
                         \/ e[1] \in Declaring /\ e[2] = Barrier
  BY DEF Declaring
<1>3. \A e \in out : e[1] = Barrier /\ e[2] \in Registered /\ ~Leads(into, e[2], Barrier)
  <2> SUFFICES ASSUME NEW s \in held PROVE s \in Registered /\ ~Leads(into, s, Barrier)
    OBVIOUS
  <2> HIDE DEF into
  <2> QED
    BY HasPathLeads
<1>4. \A s \in Declaring : s # Barrier /\ Leads(into, s, Barrier)
  <2> SUFFICES ASSUME NEW s \in Declaring PROVE s # Barrier /\ Leads(into, s, Barrier)
    OBVIOUS
  <2>1. s # Barrier
    BY DEF Declaring
  <2>2. <<s, Barrier>> \in into
    OBVIOUS
  <2> QED
    BY <2>1, <2>2 DEF Leads
<1> HIDE DEF held, G
<1>5. ASSUME NEW e \in into PROVE ~Leads(into, e[2], e[1])
  <2>1. CASE e[2] = Barrier
    <3>1. Barrier \in {Barrier} /\ e[1] \notin {Barrier}
      BY <1>2
    <3>2. \A f \in into : f[1] \in {Barrier} => f[2] \in {Barrier}
      BY <1>2
    <3> HIDE DEF into
    <3> QED
      BY <2>1, <3>1, <3>2, CutOff
  <2>2. CASE e \in F
    <3> DEFINE S == {z \in V : Leads(F, e[2], z)} \cup {Barrier}
    <3>1. e[2] \in S /\ e[1] \notin S
      BY <1>2, <2>2, LeadsFacts DEF Acyclic
    <3>2. \A f \in into : f[1] \in S => f[2] \in S
      <4> SUFFICES ASSUME NEW f \in into, f[1] \in S, f[2] # Barrier PROVE f[2] \in S
        OBVIOUS
      <4>1. f \in F /\ f[2] \in V /\ Leads(F, e[2], f[1])
        BY <1>2
      <4>2. Leads(F, e[2], f[2])
        BY <4>1, LeadsFacts
      <4> QED
        BY <4>1, <4>2
    <3> HIDE DEF S, into
    <3> QED
      BY <3>1, <3>2, CutOff
  <2> QED
    BY <1>2, <2>1, <2>2
<1> HIDE DEF into, out
<1>6. \A f \in into : f[1] \in Off => f[2] \in Off
  <2> SUFFICES ASSUME NEW f \in into, ~Leads(into, f[1], Barrier)
               PROVE  ~Leads(into, f[2], Barrier)
    BY <1>2
  <2> QED
    BY LeadsFacts
<1>7. \A f \in out : f[2] \in Off
  BY <1>3
<1>8. Barrier \notin Off
  BY LeadsFacts
<1>9. ASSUME NEW e \in into \cup out PROVE ~Leads(into \cup out, e[2], e[1])
  <2>1. CASE e \in out
    <3>1. \A f \in into \cup out : f[1] \in Off => f[2] \in Off
      BY <1>6, <1>7
    <3>2. e[2] \in Off /\ e[1] \notin Off
      BY <1>3, <1>7, <1>8, <2>1
    <3> HIDE DEF Off
    <3> QED
      BY <3>1, <3>2, CutOff
  <2>2. CASE e \in into /\ Leads(into, e[1], Barrier)
    <3> DEFINE S == {z \in V : Leads(into, e[2], z)} \cup {Barrier} \cup Off
    <3>1. e[2] \in S /\ e[1] \notin S
      BY <1>2, <1>5, <2>2, LeadsFacts
    <3>2. \A f \in into \cup out : f[1] \in S => f[2] \in S
      <4> SUFFICES ASSUME NEW f \in into \cup out, f[1] \in S PROVE f[2] \in S
        OBVIOUS
      <4>1. CASE f \in out
        BY <1>7, <4>1
      <4>2. CASE f \in into /\ f[1] \in Off
        BY <1>6, <4>2
      <4>3. CASE f \in into /\ Leads(into, e[2], f[1])
        <5>1. Leads(into, e[2], f[2])
          BY <4>3, LeadsFacts
        <5> QED
          BY <1>2, <4>3, <5>1
      <4> QED
        BY <1>2, <4>1, <4>2, <4>3
    <3> HIDE DEF S
    <3> QED
      BY <3>1, <3>2, CutOff
  <2>3. CASE e \in into /\ ~Leads(into, e[1], Barrier)
    <3> DEFINE S == {z \in V : Leads(into, e[2], z)}
    <3>1. ~Leads(into, e[2], Barrier)
      BY <2>3, LeadsFacts
    <3>2. e[2] \in S /\ e[1] \notin S /\ Barrier \notin S
      BY <1>2, <1>5, <2>3, <3>1, LeadsFacts
    <3>3. \A f \in into \cup out : f[1] \in S => f[2] \in S
      <4> SUFFICES ASSUME NEW f \in into \cup out, f[1] \in S PROVE f[2] \in S
        OBVIOUS
      <4>1. f \in into /\ Leads(into, e[2], f[1])
        BY <1>3, <3>2
      <4>2. Leads(into, e[2], f[2])
        BY <4>1, LeadsFacts
      <4> QED
        BY <1>2, <4>1, <4>2
    <3> HIDE DEF S
    <3> QED
      BY <3>2, <3>3, CutOff
  <2> QED
    BY <2>1, <2>2, <2>3
<1>10. ASSUME NEW s \in Declaring
       PROVE  ~Leads(F, Barrier, s) /\ ~Leads(into \cup out, Barrier, s)
  <2>1. ~Leads(F, Barrier, s)
    <3>1. Barrier \in {Barrier} /\ s \notin {Barrier}
      BY <1>4
    <3>2. \A f \in F : f[1] \in {Barrier} => f[2] \in {Barrier}
      OBVIOUS
    <3> QED
      BY <3>1, <3>2, CutOff
  <2>2. ~Leads(into \cup out, Barrier, s)
    <3> DEFINE S == Off \cup {Barrier}
    <3>1. Barrier \in S /\ s \notin S
      BY <1>4
    <3>2. \A f \in into \cup out : f[1] \in S => f[2] \in S
      BY <1>2, <1>6, <1>7
    <3> HIDE DEF S
    <3> QED
      BY <3>1, <3>2, CutOff
  <2> QED
    BY <2>1, <2>2
<1>11. F \subseteq into
  BY DEF into
<1>12. G = F \/ G = into \cup out
  BY <1>1
<1>13. Acyclic(into \cup out)
  BY <1>9 DEF Acyclic
<1> QED
  BY <1>10, <1>11, <1>12, <1>13 DEF Clear, G

\* The edges against the order of registration come from the rows walked so far.
Backs(E, k) ==
  \A m, l \in DOMAIN systems :
     l < m /\ <<systems[m], systems[l]>> \in E => \E p \in 1 .. k : Row(p) = m

Sound(order, E, k) ==
  /\ Base(order) \subseteq E
  /\ E \subseteq (Registered \cup {Barrier}) \X (Registered \cup {Barrier})
  /\ Acyclic(E) /\ Clear(E)
  /\ nodes = {} => Backs(E, k)

LEMMA BaseSound ==
  ASSUME NEW order, Sorted(order)
  PROVE  Sound(order, Base(order), 0) /\ order \subseteq Base(order)
         /\ Without(edges, Barrier) \subseteq Base(order)
<1> DEFINE F == Without(edges, Barrier) \cup ExplicitEdges(order)
           N == Registered \cup {Barrier}
<1>1. Acyclic(F) /\ order \subseteq F
  BY OrderedAcyclic
<1>2. \A e \in F : e \in Registered \X Registered /\ e[1] # Barrier /\ e[2] # Barrier
  BY DEF Sorted, Without, ExplicitEdges
<1>3. Barrier \notin Registered /\ systems \in Seq(Names)
  BY DEF Sorted
<1>4. Base(order) = WithBarrier(F)
  BY DEF Base
<1>5. Without(edges, Barrier) \subseteq F
  OBVIOUS
<1>6. nodes = {} => F \subseteq order
  BY DEF Sorted, Without, ExplicitEdges
<1> HIDE DEF F
<1>7. Acyclic(WithBarrier(F)) /\ Clear(WithBarrier(F)) /\ F \subseteq WithBarrier(F)
  BY <1>1, <1>2, <1>3, BarrierAcyclic
<1>8. \A e \in WithBarrier(F) : e \in N \X N /\ (e[1] # Barrier /\ e[2] # Barrier => e \in F)
  <2> DEFINE declaring == {s \in Registered : Declares(s)}
             exclusive == Registered \ declaring
             into == F \cup {<<s, Barrier>> : s \in declaring}
             held == {x \in exclusive : ~HasPath(into, x, Barrier)}
  <2>1. WithBarrier(F) = IF declaring = {} \/ exclusive = {} THEN F
                         ELSE into \cup {<<Barrier, s>> : s \in held}
    BY DEF WithBarrier
  <2>2. \A e \in F : e \in N \X N
    BY <1>2
  <2>3. \A s \in declaring : /\ <<s, Barrier>> \in N \X N
                             /\ <<s, Barrier>>[2] = Barrier
    OBVIOUS
  <2>4. \A s \in held : /\ <<Barrier, s>> \in N \X N
                        /\ <<Barrier, s>>[1] = Barrier
    OBVIOUS
  <2> HIDE DEF held
  <2> QED
    BY <2>1, <2>2, <2>3, <2>4
<1>9. nodes = {} => Backs(Base(order), 0)
  <2> SUFFICES ASSUME nodes = {}, NEW m \in DOMAIN systems, NEW l \in DOMAIN systems, l < m,
                      <<systems[m], systems[l]>> \in Base(order)
               PROVE  FALSE
    BY DEF Backs
  <2>1. systems[m] \in Registered /\ systems[l] \in Registered
    BY DEF Registered, ToSet
  <2>2. <<systems[m], systems[l]>> \in order
    <3> DEFINE e == <<systems[m], systems[l]>>
    <3>1. e[1] = systems[m] /\ e[2] = systems[l]
      OBVIOUS
    <3>2. e[1] # Barrier /\ e[2] # Barrier /\ e \in WithBarrier(F)
      BY <1>3, <1>4, <2>1, <3>1
    <3> HIDE DEF e
    <3>3. e \in order
      BY <1>6, <1>8, <3>2
    <3> QED
      BY <3>3 DEF e
  <2>3. PICK p \in DOMAIN systems, q \in DOMAIN systems :
           p < q /\ <<systems[m], systems[l]>> = <<systems[p], systems[q]>>
    BY <2>2, OrderAscends
  <2>4. p = m /\ q = l
    BY <2>3 DEF Sorted
  <2>5. m \in Nat /\ l \in Nat
    BY <1>3, LenProperties
  <2> QED
    BY <2>3, <2>4, <2>5
<1>10. Base(order) \subseteq N \X N
  BY <1>4, <1>8
<1> QED
  BY <1>1, <1>4, <1>5, <1>7, <1>9, <1>10 DEF Sound

\* What comparing two systems adds: nothing, or an edge that closes no cycle.
Adds(order, E, i, j) ==
  \/ ConflictEdges(E, order, i, j) \subseteq E
  \/ \E e : /\ ConflictEdges(E, order, i, j) = {e}
            /\ e \in Declaring \X Declaring
            /\ ~Leads(E, e[2], e[1])
            /\ \/ e = <<systems[i], systems[j]>>
               \/ j < i /\ e = <<systems[j], systems[i]>>

LEMMA ComparedSound ==
  ASSUME NEW order, Sorted(order), NEW k \in Nat, k # 0, NEW E, Sound(order, E, k - 1),
         k \in 1 .. Len(systems) * Len(systems),
         NEW i \in DOMAIN systems, NEW j \in DOMAIN systems, i = Row(k), j = Col(k)
  PROVE  Adds(order, E, i, j)
<1> DEFINE a == systems[i]
           b == systems[j]
           C == ConflictEdges(E, order, i, j)
           kind == Conflict(a, b)
<1>1. /\ a \in Registered /\ b \in Registered
      /\ order \subseteq E /\ Without(edges, Barrier) \subseteq E
  <2>1. a \in Registered /\ b \in Registered
    BY DEF Registered, ToSet
  <2> QED
    BY <2>1, BaseSound DEF Sound
<1>2. \A m \in DOMAIN systems : m \in Nat
  BY LenProperties DEF Sorted
<1>3. i # j => a # b
  BY DEF Sorted
<1>4. ASSUME C # {}
      PROVE  i # j /\ a \in Processed /\ Declares(a) /\ Declares(b)
  BY <1>4 DEF ConflictEdges
<1>5. ASSUME NEW e \in C
      PROVE  /\ e \in {<<a, b>>, <<b, a>>}
             /\ \/ /\ kind = "both ways" /\ i < j
                   /\ <<e[2], e[1]>> \notin order
                \/ /\ kind \in Symmetric /\ i < j /\ e = <<a, b>>
                   /\ <<a, b>> \notin order /\ <<b, a>> \notin order
                \/ kind = "forward" /\ e = <<a, b>> /\ ~HasPath(E, b, a)
                \/ kind = "backward" /\ j < i /\ e = <<b, a>> /\ ~HasPath(E, a, b)
  BY <1>5 DEF ConflictEdges
<1> HIDE DEF C, a, b, kind
<1>6. SUFFICES ASSUME ~(C \subseteq E)
               PROVE  \E e : /\ C = {e}
                             /\ e \in Declaring \X Declaring
                             /\ ~Leads(E, e[2], e[1])
                             /\ \/ e = <<a, b>>
                                \/ j < i /\ e = <<b, a>>
  BY DEF Adds, C, a, b
<1>7. PICK e \in C : e \notin E
  BY <1>6
<1>8. a \in Declaring /\ b \in Declaring
  BY <1>1, <1>4, <1>7 DEF Declaring
<1>9. kind # "both ways"
  <2> SUFFICES ASSUME kind = "both ways" PROVE FALSE
    OBVIOUS
  <2>1. i < j /\ <<e[2], e[1]>> \notin order
    BY <1>5, <1>7 DEF Symmetric
  <2>2. <<a, b>> \in order
    BY <1>1, <1>4, <1>7, <2>1 DEF Sorted, Excuse, a, b, kind
  <2>3. e # <<b, a>>
    <3> SUFFICES ASSUME e = <<b, a>> PROVE FALSE
      OBVIOUS
    <3>1. e[1] = b /\ e[2] = a
      OBVIOUS
    <3> QED
      BY <2>1, <2>2, <3>1
  <2>4. e = <<a, b>>
    BY <1>5, <1>7, <2>3
  <2> QED
    BY <1>1, <1>7, <2>2, <2>4
<1>10. CASE kind \in Symmetric
  <2>1. i < j /\ e = <<a, b>> /\ <<a, b>> \notin order /\ <<b, a>> \notin order
    BY <1>5, <1>7, <1>10 DEF Symmetric
  <2>2. C = {e}
    BY <1>5, <1>7, <1>10, <2>1 DEF Symmetric
  <2>3. b \notin nodes
    <3> SUFFICES ASSUME b \in nodes PROVE FALSE
      OBVIOUS
    <3>1. <<a, b>> \in edges
      BY <1>4, <1>7, <1>10, <2>1 DEF Sorted, SymmetricIn, a, b, kind
    <3>2. <<a, b>> \in Without(edges, Barrier)
      BY <1>1, <3>1 DEF Without, Sorted
    <3> QED
      BY <1>1, <1>7, <2>1, <3>2
  <2>4. nodes = {}
    BY <1>4, <1>7, <1>10, <2>1, <2>3 DEF Sorted, NewFits, a, b, kind
  <2>5. ~Leads(E, b, a)
    <3> DEFINE V == Registered \cup {Barrier}
               S == {systems[m] : m \in {o \in DOMAIN systems : i < o}}
                    \cup {z \in V : Leads(E, Barrier, z)}
    <3>1. \A f \in E : f[1] \in V /\ f[2] \in V
      BY DEF Sound
    <3>2. b \in S
      BY <2>1 DEF b
    <3>3. a \notin S
      <4>1. ~Leads(E, Barrier, a)
        BY <1>8 DEF Sound, Clear
      <4>2. ASSUME NEW m \in DOMAIN systems, i < m, systems[m] = a PROVE FALSE
        BY <1>2, <4>2 DEF Sorted, a
      <4> QED
        BY <4>1, <4>2
    <3>4. ASSUME NEW f \in E, Leads(E, Barrier, f[1]) PROVE f[2] \in S
      <4>1. Leads(E, Barrier, f[2])
        BY <3>4, LeadsFacts
      <4> QED
        BY <3>1, <4>1
    <3>5. ASSUME NEW f \in E, NEW m \in DOMAIN systems, i < m, systems[m] = f[1]
          PROVE  f[2] \in S
      <4>1. CASE f[2] = Barrier
        BY <4>1, LeadsFacts
      <4>2. CASE f[2] \in Registered
        <5>1. PICK l \in DOMAIN systems : systems[l] = f[2]
          BY <4>2 DEF Registered, ToSet
        <5>2. CASE l < m
          <6>1. f = <<systems[m], systems[l]>>
            BY <3>5, <5>1 DEF Sound
          <6>2. PICK p \in 1 .. (k - 1) : Row(p) = m
            BY <2>4, <5>2, <6>1 DEF Sound, Backs
          <6>3. Len(systems) \in Nat \ {0}
            BY LenProperties DEF Sorted
          <6>4. Row(p) <= Row(k)
            <7>1. (p - 1) \div Len(systems) <= (k - 1) \div Len(systems)
              BY <6>2, <6>3, RowGrows
            <7>2. (p - 1) \div Len(systems) \in Int /\ (k - 1) \div Len(systems) \in Int
              BY <6>2, <6>3
            <7> DEFINE x == (p - 1) \div Len(systems)
                       y == (k - 1) \div Len(systems)
            <7>3. Row(p) = x + 1 /\ Row(k) = y + 1
              BY DEF Row
            <7> HIDE DEF x, y
            <7>4. x \in Int /\ y \in Int /\ x <= y
              BY <7>1, <7>2 DEF x, y
            <7> QED
              BY <7>3, <7>4
          <6> QED
            BY <1>2, <3>5, <6>2, <6>4
        <5>3. CASE ~(l < m)
          <6>1. i < l
            BY <1>2, <3>5, <5>3
          <6> QED
            BY <5>1, <6>1
        <5> QED
          BY <5>2, <5>3
      <4> QED
        BY <3>1, <4>1, <4>2
    <3>6. \A f \in E : f[1] \in S => f[2] \in S
      BY <3>4, <3>5
    <3> HIDE DEF S
    <3> QED
      BY <3>2, <3>3, <3>6, CutOff
  <2> QED
    BY <1>8, <2>1, <2>2, <2>5
<1>11. CASE kind = "forward"
  <2>1. \A f \in C : f = <<a, b>>
    BY <1>5, <1>11 DEF Symmetric
  <2>2. ~HasPath(E, b, a) /\ e = <<a, b>>
    BY <1>5, <1>7, <1>11 DEF Symmetric
  <2>3. C = {e} /\ ~Leads(E, b, a)
    BY <1>7, <2>1, <2>2, HasPathLeads
  <2> QED
    BY <1>8, <2>2, <2>3
<1>12. CASE kind = "backward"
  <2>1. \A f \in C : f = <<b, a>>
    BY <1>5, <1>12 DEF Symmetric
  <2>2. ~HasPath(E, a, b) /\ e = <<b, a>> /\ j < i
    BY <1>5, <1>7, <1>12 DEF Symmetric
  <2>3. C = {e} /\ ~Leads(E, a, b)
    BY <1>7, <2>1, <2>2, HasPathLeads
  <2> QED
    BY <1>8, <2>2, <2>3
<1> QED
  BY <1>5, <1>7, <1>9, <1>10, <1>11, <1>12

\* A compile that has no excuse makes no cycle.
LEMMA NewEdgesAcyclic ==
  ASSUME NEW order, Sorted(order)
  PROVE  Acyclic(NewEdges(order))
<1> DEFINE n == Len(systems)
           N == n * n
<1>1. n \in Nat /\ N \in Nat /\ DOMAIN systems = 1 .. n
  BY LenProperties DEF Sorted
<1>2. PICK after : Grows(after, order)
  BY Growth DEF Sorted
<1>3. /\ after[0] = Base(order)
      /\ \A k \in 1 .. N :
            after[k] = after[k - 1] \cup ConflictEdges(after[k - 1], order, Row(k), Col(k))
      /\ NewEdges(order) = after[N]
  BY <1>2 DEF Grows
<1>4. \A k \in 1 .. N : Row(k) \in DOMAIN systems /\ Col(k) \in DOMAIN systems
  <2> SUFFICES ASSUME NEW k \in 1 .. N
               PROVE  Row(k) \in DOMAIN systems /\ Col(k) \in DOMAIN systems
    OBVIOUS
  <2>1. n # 0
    BY <1>1
  <2>2. n \in Nat \ {0}
    BY <1>1, <2>1
  <2> QED
    BY <1>1, <2>2, ModFacts DEF Row, Col
<1> DEFINE P == {k \in Nat : k <= N => Sound(order, after[k], k)}
<1>5. 0 \in P
  BY <1>3, BaseSound
<1>6. ASSUME NEW k \in Nat, k \in P PROVE k + 1 \in P
  <2> SUFFICES ASSUME k + 1 <= N PROVE Sound(order, after[k + 1], k + 1)
    OBVIOUS
  <2> HIDE DEF P, N
  <2> DEFINE E == after[k]
             i == Row(k + 1)
             j == Col(k + 1)
             C == ConflictEdges(E, order, i, j)
  <2>1. k + 1 \in 1 .. N /\ k + 1 # 0 /\ (k + 1) - 1 = k /\ k + 1 \in Nat /\ k <= N
    BY <1>1
  <2>2. Sound(order, E, k)
    BY <1>6, <2>1 DEF P
  <2>3. i \in DOMAIN systems /\ j \in DOMAIN systems
    BY <1>4, <2>1
  <2>4. after[k + 1] = E \cup C
    BY <1>3, <2>1
  <2>5. Adds(order, E, i, j)
    <3> DEFINE q == k + 1
    <3>1. q \in Nat /\ q # 0 /\ q - 1 = k /\ q \in 1 .. Len(systems) * Len(systems)
      BY <2>1 DEF N
    <3>2. i = Row(q) /\ j = Col(q) /\ Sound(order, E, q - 1)
      BY <2>2, <3>1
    <3> HIDE DEF i, j, q, E
    <3> QED
      BY <2>3, <3>1, <3>2, ComparedSound
  <2> HIDE DEF C, E, i, j
  <2>6. ASSUME Backs(E, k), NEW G,
               \A m, l \in DOMAIN systems : l < m /\ <<systems[m], systems[l]>> \in G
                  => <<systems[m], systems[l]>> \in E \/ m = i
        PROVE  Backs(G, k + 1)
    <3> SUFFICES ASSUME NEW m \in DOMAIN systems, NEW l \in DOMAIN systems, l < m,
                        <<systems[m], systems[l]>> \in G
                 PROVE  \E p \in 1 .. (k + 1) : Row(p) = m
      BY DEF Backs
    <3>1. CASE m = i
      <4>1. k + 1 \in 1 .. (k + 1)
        BY <2>1
      <4> QED
        BY <3>1, <4>1 DEF i
    <3>2. CASE <<systems[m], systems[l]>> \in E
      <4>1. PICK p \in 1 .. k : Row(p) = m
        BY <2>6, <3>2 DEF Backs
      <4>2. p \in 1 .. (k + 1)
        OBVIOUS
      <4> QED
        BY <4>1, <4>2
    <3> QED
      BY <2>6, <3>1, <3>2
  <2>7. CASE C \subseteq E
    <3>1. after[k + 1] = E
      BY <2>4, <2>7
    <3>2. nodes = {} => Backs(E, k + 1)
      BY <2>2, <2>6 DEF Sound
    <3> QED
      BY <2>2, <3>1, <3>2 DEF Sound
  <2>8. CASE ~(C \subseteq E)
    <3>1. PICK e : /\ C = {e} /\ e \in Declaring \X Declaring /\ ~Leads(E, e[2], e[1])
                   /\ \/ e = <<systems[i], systems[j]>>
                      \/ j < i /\ e = <<systems[j], systems[i]>>
      BY <2>5, <2>8 DEF Adds, C
    <3>2. e = <<e[1], e[2]>> /\ e[1] \in Declaring /\ e[2] \in Declaring
      BY <3>1
    <3>3. after[k + 1] = E \cup {<<e[1], e[2]>>}
      BY <2>4, <3>1, <3>2
    <3>4. Acyclic(after[k + 1]) /\ Clear(after[k + 1])
      <4> DEFINE x == e[1]
                 y == e[2]
      <4>1. Acyclic(E) /\ Clear(E) /\ ~Leads(E, y, x) /\ x \in Declaring
        BY <2>2, <3>1, <3>2 DEF Sound
      <4>2. after[k + 1] = E \cup {<<x, y>>}
        BY <3>3
      <4> HIDE DEF x, y
      <4>3. Acyclic(E \cup {<<x, y>>})
        BY <4>1, AddEdge
      <4>4. Clear(E \cup {<<x, y>>})
        BY <4>1, ClearKept
      <4> QED
        BY <4>2, <4>3, <4>4
    <3>5. after[k + 1] \subseteq (Registered \cup {Barrier}) \X (Registered \cup {Barrier})
      BY <2>2, <3>2, <3>3 DEF Sound, Declaring
    <3>6. \A m, l \in DOMAIN systems : l < m /\ <<systems[m], systems[l]>> \in after[k + 1]
             => <<systems[m], systems[l]>> \in E \/ m = i
      <4> SUFFICES ASSUME NEW m \in DOMAIN systems, NEW l \in DOMAIN systems, l < m,
                          <<systems[m], systems[l]>> = e
                   PROVE  m = i
        BY <3>2, <3>3
      <4>1. m \in Nat /\ l \in Nat
        BY <1>1
      <4>2. \A x, y \in DOMAIN systems : systems[x] = systems[y] => x = y
        BY DEF Sorted
      <4>3. CASE e = <<systems[i], systems[j]>>
        <5>1. systems[m] = systems[i]
          BY <4>3
        <5> QED
          BY <2>3, <4>2, <5>1
      <4>4. CASE j < i /\ e = <<systems[j], systems[i]>>
        <5>1. systems[m] = systems[j] /\ systems[l] = systems[i]
          BY <4>4
        <5>2. m = j /\ l = i
          BY <2>3, <4>2, <5>1
        <5> QED
          BY <4>1, <4>4, <5>2
      <4> QED
        BY <3>1, <4>3, <4>4
    <3>7. nodes = {} => Backs(after[k + 1], k + 1)
      BY <2>2, <2>6, <3>6 DEF Sound
    <3>8. Base(order) \subseteq after[k + 1]
      BY <2>2, <3>3 DEF Sound
    <3> QED
      BY <3>4, <3>5, <3>7, <3>8 DEF Sound
  <2> QED
    BY <2>7, <2>8
<1>7. Nat \subseteq P
  <2> HIDE DEF P
  <2> QED
    BY <1>5, <1>6, Induction
<1>8. Sound(order, after[N], N)
  BY <1>1, <1>7
<1> QED
  BY <1>3, <1>8 DEF Sound

\* The graph as the compiles so far have left it, with what was ordered since.
Grounded ==
  /\ edges \subseteq (nodes \cup {Barrier}) \X (nodes \cup {Barrier})
  /\ OrderedIn(explicit)
  /\ \A d \in ToSet(pending) : d.pair[1] # d.pair[2] /\ d.pair[2] \notin nodes
  /\ ~dirty => pending = <<>>
  /\ SymmetricIn(explicit)
  /\ Excuse(nodes, explicit) \/ Acyclic(edges)
  /\ outcome = "cycle" /\ ~dirty => Excuse(nodes, explicit)

\* Where it holds, a compile that found a cycle has an excuse.
LEMMA GroundedCycles == Grounded => CyclesAreReal
  BY DEF Grounded, CyclesAreReal, Excuse

LEMMA InitGrounded == Init => Grounded
<1> SUFFICES ASSUME Init PROVE Grounded
  OBVIOUS
<1>1. DOMAIN systems = {} /\ ToSet(pending) = {} /\ edges = {} /\ explicit = {}
      /\ nodes = {} /\ outcome = "none" /\ pending = <<>>
  BY DEF Init, ToSet
<1> QED
  BY <1>1 DEF Grounded, OrderedIn, SymmetricIn, Acyclic

\* What the graph holds is not touched by systems that join later, nor by
\* orderings that end in a system it does not hold.
LEMMA GroundedKept ==
  ASSUME Grounded, systems \in Seq(Names),
         UNCHANGED <<edges, nodes, eventOrdering>>,
         DOMAIN systems \subseteq DOMAIN systems',
         \A i \in DOMAIN systems : systems'[i] = systems[i],
         \A j \in DOMAIN systems' : systems'[j] \in nodes =>
            \A i \in DOMAIN systems' : i <= j => i \in DOMAIN systems,
         explicit \subseteq explicit',
         \A e \in explicit' \ explicit : e[1] # e[2] /\ e[2] \notin nodes,
         \A d \in ToSet(pending') : d.pair[1] # d.pair[2] /\ d.pair[2] \notin nodes,
         ~dirty' => pending' = <<>>,
         outcome' = "cycle" /\ ~dirty' => outcome = "cycle" /\ ~dirty
  PROVE  Grounded'
<1>1. OrderedIn(explicit)'
  BY DEF Grounded, OrderedIn
<1>2. \A i, j : Conflict(systems[i], systems[j])' = Conflict(systems'[i], systems'[j])
  BY DEF Conflict, Checks
<1>3. SymmetricIn(explicit)'
  <2>1. ASSUME NEW i \in DOMAIN systems', NEW j \in DOMAIN systems', i < j,
               systems'[j] \in nodes', Declares(systems'[i]), Declares(systems'[j]),
               Conflict(systems[i], systems[j])' \in Symmetric
        PROVE  \/ <<systems'[i], systems'[j]>> \in edges'
               \/ <<systems'[j], systems'[i]>> \in explicit'
    <3>1. i \in DOMAIN systems /\ j \in DOMAIN systems
      <4>1. j <= j /\ i <= j
        BY <2>1, LenProperties, SMTT(30)
      <4> QED
        BY <2>1, <4>1
    <3>2. Conflict(systems[i], systems[j]) \in Symmetric
      BY <1>2, <2>1, <3>1
    <3> QED
      BY <2>1, <3>1, <3>2 DEF Grounded, SymmetricIn
  <2> QED
    BY <2>1 DEF SymmetricIn
<1>4. Excuse(nodes, explicit) => Excuse(nodes, explicit)'
  <2> SUFFICES ASSUME NEW i \in DOMAIN systems, NEW j \in DOMAIN systems,
                      i < j, systems[j] \in nodes,
                      \/ <<systems[j], systems[i]>> \in explicit
                      \/ /\ Declares(systems[i]) /\ Declares(systems[j])
                         /\ Conflict(systems[i], systems[j]) = "both ways"
                         /\ <<systems[i], systems[j]>> \notin explicit
               PROVE  Excuse(nodes, explicit)'
    BY DEF Excuse
  <2>1. /\ i \in DOMAIN systems' /\ j \in DOMAIN systems' /\ systems'[j] \in nodes'
        /\ systems'[i] = systems[i] /\ systems'[j] = systems[j]
    OBVIOUS
  <2>2. Conflict(systems[i], systems[j])' = Conflict(systems[i], systems[j])
    BY <1>2, <2>1
  <2>3. CASE <<systems[j], systems[i]>> \in explicit
    BY <2>1, <2>3 DEF Excuse
  <2>4. CASE /\ Declares(systems[i]) /\ Declares(systems[j])
             /\ Conflict(systems[i], systems[j]) = "both ways"
             /\ <<systems[i], systems[j]>> \notin explicit
    <3> DEFINE e == <<systems[i], systems[j]>>
    <3>0. e[2] \in nodes /\ e \notin explicit
      BY <2>4
    <3> HIDE DEF e
    <3>1. <<systems[i], systems[j]>> \notin explicit'
      BY <3>0 DEF e
    <3>2. (Declares(systems[i]) /\ Declares(systems[j]))'
      BY <2>1, <2>4 DEF Declares
    <3>3. (Conflict(systems[i], systems[j]) = "both ways")'
      BY <2>2, <2>4
    <3>4. (<<systems[i], systems[j]>> \notin explicit)'
      BY <2>1, <3>1
    <3> QED
      BY <2>1, <3>2, <3>3, <3>4 DEF Excuse
  <2> QED
    BY <2>3, <2>4
<1>5. Acyclic(edges) => Acyclic(edges)'
  BY DEF Acyclic, Leads
<1> QED
  BY <1>1, <1>3, <1>4, <1>5 DEF Grounded

\* What a compile resolves was ordered, or declared by name.
LEMMA ResolvedFrom ==
  ASSUME RegistryTypes
  PROVE  /\ explicit \subseteq Resolved
         /\ \A e \in Resolved : e \in explicit \/ \E d \in ToSet(pending) : e = d.pair
         /\ pending = <<>> => Resolved = explicit
<1> DEFINE D == [pair : Known \X Known, owner : Names]
<1>1. pending \in Seq(D)
  BY DEF RegistryTypes
<1>2. DOMAIN pending = 1 .. Len(pending) /\ Len(pending) \in Nat
      /\ \A i \in 1 .. Len(pending) : pending[i] \in D
  BY <1>1, LenProperties
<1> HIDE DEF D
<1>3. CASE Unknown = {}
  <2>1. Resolved = explicit \cup PairsOf(pending)
    BY <1>3 DEF Resolved
  <2>2. pending = <<>> => ToSet(pending) = {}
    BY DEF ToSet
  <2> QED
    BY <2>1, <2>2 DEF PairsOf
<1>4. CASE Unknown # {}
  <2> DEFINE m == Min(Unknown)
             kept == SubSeq(pending, 1, m - 1)
  <2>1. Unknown \subseteq 1 .. Len(pending) /\ Unknown \subseteq Nat
    BY <1>2 DEF Unknown
  <2>2. m \in Unknown
    BY <1>4, <2>1, Least
  <2>3. m \in 1 .. Len(pending)
    BY <2>1, <2>2
  <2>4. Resolved = explicit \cup PairsOf(kept)
    BY <1>4 DEF Resolved
  <2> HIDE DEF m
  <2>5. \A i \in 1 .. (m - 1) : i \in DOMAIN pending /\ pending[i] \in D
    BY <1>2, <2>3
  <2>6. /\ kept \in Seq(D)
        /\ Len(kept) = IF 1 <= m - 1 THEN m - 1 - 1 + 1 ELSE 0
        /\ \A i \in 1 .. (m - 1) - 1 + 1 : kept[i] = pending[1 + i - 1]
    BY <2>3, <2>5, SubSeqProperties
  <2> HIDE DEF kept
  <2>7. DOMAIN kept = 1 .. (m - 1) /\ \A i \in 1 .. (m - 1) : kept[i] = pending[i]
    <3>1. DOMAIN kept = 1 .. Len(kept)
      BY <2>6, LenProperties
    <3> QED
      BY <2>3, <2>6, <3>1
  <2>8. ToSet(kept) \subseteq ToSet(pending)
    BY <2>5, <2>7 DEF ToSet
  <2>9. pending # <<>>
    BY <1>2, <2>3, EmptySeq
  <2> QED
    BY <2>4, <2>8, <2>9 DEF PairsOf
<1> QED
  BY <1>3, <1>4

\* A compile that resolves every name leaves an acyclic graph or has an excuse.
LEMMA CompileGrounded ==
  ASSUME Safe, Grounded, Compile
  PROVE  Grounded'
<1>0. RegistryTypes /\ GraphFits /\ Grounded
  BY DEF Safe
<1>1. /\ systems \in Seq(Names) /\ UNCHANGED <<systems, eventOrdering>>
      /\ \A i, j \in DOMAIN systems : systems[i] = systems[j] => i = j
  BY <1>0 DEF Compile, RegistryTypes
<1>2. Registered' = Registered /\ Barrier \notin Registered
  <2>1. Registered \subseteq Names
    BY <1>1, LenProperties DEF Registered, ToSet
  <2> QED
    BY <1>1, <2>1, ScheduleAssumption DEF Registered, Barrier
<1>3. pending' = <<>> /\ explicit' = Resolved
  BY DEF Compile
<1>4. /\ Resolved \in SUBSET (Registered \X Registered)
      /\ explicit \subseteq Resolved
      /\ \A e \in Resolved \ explicit : e[1] # e[2] /\ e[2] \notin nodes
      /\ ~dirty => Resolved = explicit
  <2>1. \A e \in Resolved \ explicit : \E d \in ToSet(pending) : e = d.pair
    BY <1>0, ResolvedFrom
  <2>2. \A d \in ToSet(pending) : d.pair[1] # d.pair[2] /\ d.pair[2] \notin nodes
    BY <1>0 DEF Grounded
  <2>3. ~dirty => pending = <<>>
    BY <1>0 DEF Grounded
  <2> QED
    BY <1>0, <2>1, <2>2, <2>3, ResolvedFacts, ResolvedFrom
<1>5. CASE dirty /\ Unknown # {}
  <2>1. UNCHANGED <<nodes, edges, dirty, plan>> /\ outcome' = "missing"
    BY <1>5 DEF Compile
  <2>2. ToSet(pending') = {}
    BY <1>3 DEF ToSet
  <2>3. "missing" # "cycle"
    OBVIOUS
  <2> QED
    BY <1>0, <1>1, <1>3, <1>4, <2>1, <2>2, <2>3, GroundedKept
<1>6. \A i, j : Conflict(systems[i], systems[j])' = Conflict(systems'[i], systems'[j])
  <2>1. eventOrdering' = eventOrdering
    BY <1>1
  <2> QED
    BY <2>1 DEF Conflict, Checks
<1>7. CASE ~(dirty /\ Unknown # {})
  <2> DEFINE E == IF dirty THEN NewEdges(Resolved) ELSE edges
  <2>1. /\ edges' = E /\ nodes' = Registered /\ dirty' = FALSE
        /\ outcome' = "cycle" => Cyclic(E)
    <3>1. "ok" # "cycle"
      OBVIOUS
    <3> QED
      BY <1>7, <3>1 DEF Compile
  <2>2. OrderedIn(Resolved) /\ SymmetricIn(Resolved)
    BY <1>0, <1>4 DEF Grounded, OrderedIn, SymmetricIn
  <2>3. Excuse(nodes, explicit) => Excuse(Registered, Resolved)
    <3> SUFFICES ASSUME NEW i \in DOMAIN systems, NEW j \in DOMAIN systems,
                        i < j, systems[j] \in nodes,
                        \/ <<systems[j], systems[i]>> \in explicit
                        \/ /\ Declares(systems[i]) /\ Declares(systems[j])
                           /\ Conflict(systems[i], systems[j]) = "both ways"
                           /\ <<systems[i], systems[j]>> \notin explicit
                 PROVE  Excuse(Registered, Resolved)
      BY DEF Excuse
    <3> DEFINE e == <<systems[i], systems[j]>>
    <3>1. e[2] = systems[j]
      OBVIOUS
    <3> HIDE DEF e
    <3>2. e \notin explicit => e \notin Resolved
      BY <1>4, <3>1
    <3>3. systems[j] \in Registered
      BY <1>0 DEF GraphFits
    <3> QED
      BY <1>4, <3>2, <3>3 DEF Excuse, e
  <2>4. Excuse(Registered, Resolved) \/ Acyclic(E)
    <3> SUFFICES ASSUME ~Excuse(Registered, Resolved) PROVE Acyclic(E)
      OBVIOUS
    <3>1. Acyclic(edges)
      BY <1>0, <2>3 DEF Grounded
    <3>2. Sorted(Resolved)
      BY <1>0, <1>1, <1>2, <1>4, <2>2, <3>1 DEF Sorted, GraphFits, Grounded
    <3> QED
      BY <3>1, <3>2, NewEdgesAcyclic
  <2>5. Without(edges, Barrier) \subseteq E
    <3>1. Without(edges, Barrier) \subseteq NewEdges(Resolved)
      BY <1>1, NewEdgesFacts DEF Base, WithBarrier
    <3>2. Without(edges, Barrier) \subseteq edges
      BY DEF Without
    <3> QED
      BY <3>1, <3>2
  <2>6. \A e \in Resolved : e \in E
    <3> SUFFICES ASSUME NEW e \in Resolved PROVE e \in E
      OBVIOUS
    <3>1. e[1] \in Registered /\ e[2] \in Registered /\ e[1] # Barrier /\ e[2] # Barrier
      BY <1>2, <1>4
    <3>2. CASE e[2] \in nodes
      BY <2>2, <2>5, <3>1, <3>2 DEF OrderedIn, Without
    <3>3. CASE e[2] \notin nodes
      <4>1. dirty
        BY <1>0, <3>1, <3>3 DEF GraphFits
      <4>2. e \in ExplicitEdges(Resolved)
        BY <3>1, <3>3 DEF ExplicitEdges, Processed
      <4>3. e \in NewEdges(Resolved)
        BY <1>1, <4>2, NewEdgesFacts DEF Base, WithBarrier
      <4> QED
        BY <4>1, <4>3
    <3> QED
      BY <3>2, <3>3
  <2>7. ASSUME NEW i \in DOMAIN systems, NEW j \in DOMAIN systems, i < j,
               Declares(systems[i]), Declares(systems[j]),
               Conflict(systems[i], systems[j]) \in Symmetric,
               <<systems[j], systems[i]>> \notin Resolved
        PROVE  <<systems[i], systems[j]>> \in E
    <3> DEFINE a == systems[i]
               b == systems[j]
    <3>1. a \in Registered /\ b \in Registered
      BY DEF Registered, ToSet
    <3>2. CASE b \in nodes
      <4>1. <<a, b>> \in edges
        BY <2>2, <2>7, <3>2 DEF SymmetricIn
      <4>2. <<a, b>> \in Without(edges, Barrier)
        BY <1>2, <3>1, <4>1 DEF Without
      <4> QED
        BY <2>5, <4>2
    <3>3. CASE b \notin nodes
      <4>1. nodes = {}
        BY <1>0, <2>7, <3>3 DEF GraphFits, NewFits
      <4>2. dirty /\ a \in Processed
        BY <1>0, <3>1, <4>1 DEF GraphFits, Processed
      <4>3. CASE <<a, b>> \in Resolved
        BY <2>6, <4>3
      <4>4. CASE <<a, b>> \notin Resolved
        <5>1. PICK K \in SUBSET NewEdges(Resolved) :
                 ConflictEdges(K, Resolved, i, j) \subseteq NewEdges(Resolved)
          BY <1>1, NewEdgesFacts
        <5>2. i # j
          BY <1>1, <2>7, LenProperties
        <5>3. <<a, b>> \in ConflictEdges(K, Resolved, i, j)
          BY <2>7, <4>2, <4>4, <5>2 DEF ConflictEdges
        <5> QED
          BY <4>2, <5>1, <5>3
      <4> QED
        BY <4>3, <4>4
    <3> QED
      BY <3>2, <3>3
  <2> HIDE DEF E
  <2>8. OrderedIn(explicit)'
    BY <1>3, <1>4, <2>1, <2>2, <2>6 DEF OrderedIn
  <2>9. SymmetricIn(explicit)'
    <3>1. ASSUME NEW i \in DOMAIN systems', NEW j \in DOMAIN systems', i < j,
                 Declares(systems'[i]), Declares(systems'[j]),
                 Conflict(systems[i], systems[j])' \in Symmetric,
                 <<systems'[j], systems'[i]>> \notin explicit'
          PROVE  <<systems'[i], systems'[j]>> \in edges'
      <4>1. systems' = systems
        BY <1>1
      <4>2. Conflict(systems[i], systems[j]) \in Symmetric
        BY <1>6, <3>1, <4>1
      <4> QED
        BY <1>3, <2>1, <2>7, <3>1, <4>1, <4>2
    <3> QED
      BY <3>1 DEF SymmetricIn
  <2>10. Excuse(Registered, Resolved) => Excuse(nodes, explicit)'
    <3> SUFFICES ASSUME NEW i \in DOMAIN systems, NEW j \in DOMAIN systems,
                        i < j, systems[j] \in Registered,
                        \/ <<systems[j], systems[i]>> \in Resolved
                        \/ /\ Declares(systems[i]) /\ Declares(systems[j])
                           /\ Conflict(systems[i], systems[j]) = "both ways"
                           /\ <<systems[i], systems[j]>> \notin Resolved
                 PROVE  Excuse(nodes, explicit)'
      BY DEF Excuse
    <3>1. systems' = systems /\ eventOrdering' = eventOrdering
          /\ nodes' = Registered /\ explicit' = Resolved
      BY <1>1, <1>3, <2>1
    <3>2. Conflict(systems[i], systems[j])' = Conflict(systems[i], systems[j])
      BY <1>6, <3>1
    <3>3. (Declares(systems[i]) <=> Declares(systems[i])')
          /\ (Declares(systems[j]) <=> Declares(systems[j])')
      BY <3>1 DEF Declares
    <3> QED
      BY <3>1, <3>2, <3>3 DEF Excuse
  <2>11. Acyclic(E) => Acyclic(edges)'
    BY <2>1 DEF Acyclic, Leads
  <2>12. Cyclic(E) <=> ~Acyclic(E)
    BY CyclicFacts
  <2>13. edges' \subseteq (nodes' \cup {Barrier}) \X (nodes' \cup {Barrier})
    <3>1. GraphFits'
      BY CompileSafe DEF Safe
    <3> QED
      BY <1>2, <2>1, <3>1 DEF GraphFits
  <2>14. \A d \in ToSet(pending)' : d.pair[1] # d.pair[2] /\ d.pair[2] \notin nodes'
    <3>1. ToSet(pending') = {}
      BY <1>3 DEF ToSet
    <3> QED
      BY <3>1
  <2> QED
    BY <1>3, <2>1, <2>4, <2>8, <2>9, <2>10, <2>11, <2>12, <2>13, <2>14 DEF Grounded
<1> QED
  BY <1>5, <1>7

\* Steps that leave the systems as they are.
LEMMA GroundedSame ==
  ASSUME Grounded, RegistryTypes,
         UNCHANGED <<systems, edges, nodes, eventOrdering>>,
         explicit \subseteq explicit',
         \A e \in explicit' \ explicit : e[1] # e[2] /\ e[2] \notin nodes,
         \A d \in ToSet(pending') : d.pair[1] # d.pair[2] /\ d.pair[2] \notin nodes,
         ~dirty' => pending' = <<>>,
         outcome' = "cycle" /\ ~dirty' => outcome = "cycle" /\ ~dirty
  PROVE  Grounded'
<1>1. systems \in Seq(Names) /\ systems' = systems
  BY DEF RegistryTypes
<1>2. \A j \in DOMAIN systems' : systems'[j] \in nodes =>
            \A i \in DOMAIN systems' : i <= j => i \in DOMAIN systems
  BY <1>1
<1> QED
  BY <1>1, <1>2, GroundedKept

LEMMA RegisterGrounded ==
  ASSUME Safe, Grounded, NEW s \in Names, Register(s)
  PROVE  Grounded'
<1> DEFINE n == Len(systems)
<1>0. RegistryTypes /\ GraphFits
  BY DEF Safe
<1>1. /\ n \in Nat /\ DOMAIN systems = 1 .. n
      /\ systems \in Seq(Names)
      /\ DOMAIN systems' = 1 .. (n + 1)
      /\ \A i \in 1 .. n : systems'[i] = systems[i]
      /\ systems'[n + 1] = s
  BY <1>0, LenProperties, AppendProperties DEF Register, RegistryTypes
<1>2. s \notin nodes
  BY <1>0 DEF Register, GraphFits
<1>3. /\ UNCHANGED <<explicit, pending, eventOrdering, nodes, edges, outcome>>
      /\ dirty' = TRUE
  BY DEF Register, Invalidate
<1> HIDE DEF n
<1>4. DOMAIN systems \subseteq DOMAIN systems'
  BY <1>1
<1>5. ASSUME NEW j \in DOMAIN systems', systems'[j] \in nodes,
             NEW i \in DOMAIN systems', i <= j
      PROVE  i \in DOMAIN systems
  <2>1. j # n + 1
    BY <1>1, <1>2, <1>5
  <2> QED
    BY <1>1, <1>5, <2>1
<1>6. \A d \in ToSet(pending') : d.pair[1] # d.pair[2] /\ d.pair[2] \notin nodes
  BY <1>3 DEF Grounded
<1>7. explicit' = explicit /\ UNCHANGED <<edges, nodes, eventOrdering>>
  BY <1>3
<1> HIDE DEF Grounded
<1> QED
  BY <1>1, <1>3, <1>4, <1>5, <1>6, <1>7, GroundedKept

LEMMA OrderGrounded ==
  ASSUME ~LateConflicts, Safe, Grounded, NEW a, NEW b, Order(a, b)
  PROVE  Grounded'
<1>1. a # b /\ b \notin nodes
  BY DEF Order, MayOrder
<1>2. /\ UNCHANGED <<systems, pending, eventOrdering, nodes, edges, outcome>>
      /\ dirty' = TRUE /\ explicit' = explicit \cup {<<a, b>>}
  BY DEF Order, Invalidate
<1>3. \A e \in explicit' \ explicit : e[1] # e[2] /\ e[2] \notin nodes
  <2> DEFINE w == <<a, b>>
  <2>1. w[1] # w[2] /\ w[2] \notin nodes
    BY <1>1
  <2>2. explicit' = explicit \cup {w}
    BY <1>2
  <2> HIDE DEF w
  <2> QED
    BY <2>1, <2>2
<1>4. \A d \in ToSet(pending') : d.pair[1] # d.pair[2] /\ d.pair[2] \notin nodes
  BY <1>2 DEF Grounded
<1> QED
  BY <1>2, <1>3, <1>4, GroundedSame DEF Safe

LEMMA DeclareGrounded ==
  ASSUME ~LateConflicts, Safe, Grounded, NEW owner, NEW a, NEW b, Declare(owner, a, b)
  PROVE  Grounded'
<1> DEFINE w == [pair |-> <<a, b>>, owner |-> owner]
<1>1. a # b /\ b \notin nodes
  BY DEF Declare, MayOrder
<1>2. /\ UNCHANGED <<systems, explicit, eventOrdering, nodes, edges, outcome>>
      /\ dirty' = TRUE /\ pending' = Append(pending, w)
  BY DEF Declare, Invalidate
<1>3. w.pair[1] # w.pair[2] /\ w.pair[2] \notin nodes
  BY <1>1
<1> HIDE DEF w
<1>4. ToSet(pending') \subseteq ToSet(pending) \cup {w}
  <2> DEFINE D == [pair : Known \X Known, owner : Names]
  <2>1. pending \in Seq(D)
    BY DEF Safe, RegistryTypes
  <2> HIDE DEF D
  <2>2. /\ Len(pending) \in Nat /\ DOMAIN pending = 1 .. Len(pending)
        /\ DOMAIN pending' = 1 .. (Len(pending) + 1)
        /\ pending'[Len(pending) + 1] = w
        /\ \A i \in 1 .. Len(pending) : pending'[i] = pending[i]
    <3>1. pending \in Seq(D \cup {w})
      BY <2>1
    <3>2. w \in D \cup {w}
      OBVIOUS
    <3> DEFINE U == D \cup {w}
    <3> HIDE DEF U
    <3> QED
      BY <1>2, <3>1, <3>2, LenProperties, AppendProperties DEF U
  <2>3. \A i \in 1 .. (Len(pending) + 1) : i = Len(pending) + 1 \/ i \in 1 .. Len(pending)
    BY <2>2
  <2> QED
    BY <2>2, <2>3 DEF ToSet
<1>5. \A d \in ToSet(pending') : d.pair[1] # d.pair[2] /\ d.pair[2] \notin nodes
  BY <1>3, <1>4 DEF Grounded
<1> QED
  BY <1>2, <1>5, GroundedSame DEF Safe

LEMMA RemoveSystemGrounded ==
  ASSUME Safe, Grounded, NEW s, RemoveSystem(s)
  PROVE  Grounded'
<1> DEFINE D == [pair : Known \X Known, owner : Names]
           K == {d \in ToSet(pending) : d.owner # s}
<1>1. nodes' = {} /\ edges' = {} /\ dirty' = TRUE /\ explicit' \subseteq explicit
      /\ pending' = Among(pending, K)
  BY DEF RemoveSystem, Invalidate, Without
<1>2. pending \in Seq(D)
  BY DEF Safe, RegistryTypes
<1> HIDE DEF D, K
<1>3. pending' \in Seq(D \cap K)
  BY <1>1, <1>2, AmongFacts
<1>4. ToSet(pending') \subseteq K
  BY <1>3, LenProperties DEF ToSet
<1>5. \A d \in ToSet(pending') : d.pair[1] # d.pair[2] /\ d.pair[2] \notin nodes'
  BY <1>1, <1>4 DEF Grounded, K
<1>6. OrderedIn(explicit)' /\ SymmetricIn(explicit)' /\ Acyclic(edges)'
  BY <1>1 DEF Grounded, OrderedIn, SymmetricIn, Acyclic
<1> QED
  BY <1>1, <1>5, <1>6 DEF Grounded

LEMMA NextGrounded ==
  ASSUME ~LateConflicts, EventOrders \subseteq {TRUE}, Safe, Grounded, [Next]_vars
  PROVE  Grounded'
<1>0. RegistryTypes /\ GraphFits
  BY DEF Safe
<1>1. ASSUME UNCHANGED <<systems, edges, nodes, eventOrdering, explicit, pending, outcome>>,
             dirty' = TRUE \/ UNCHANGED dirty
      PROVE  Grounded'
  <2>1. \A d \in ToSet(pending') : d.pair[1] # d.pair[2] /\ d.pair[2] \notin nodes
    BY <1>1 DEF Grounded
  <2>2. (~dirty' => pending' = <<>>)
        /\ (outcome' = "cycle" /\ ~dirty' => outcome = "cycle" /\ ~dirty)
    BY <1>1 DEF Grounded
  <2> QED
    BY <1>0, <1>1, <2>1, <2>2, GroundedSame
<1>2. ASSUME NEW s \in Names, Register(s) PROVE Grounded'
  BY <1>2, RegisterGrounded
<1>3. ASSUME NEW a \in Registered, NEW b \in Registered, Order(a, b) PROVE Grounded'
  BY <1>3, OrderGrounded
<1>4. ASSUME NEW other \in Forward,
             Declare(Last(systems), Last(systems), other)
             \/ Declare(Last(systems), other, Last(systems))
      PROVE  Grounded'
  BY <1>4, DeclareGrounded
<1>5. ASSUME NEW s \in Registered, RemoveSystem(s) PROVE Grounded'
  BY <1>5, RemoveSystemGrounded
<1>6. ASSUME NEW order \in Orders, ConfigureStages(order) PROVE Grounded'
  BY <1>1, <1>6 DEF ConfigureStages, Invalidate
<1>7. ASSUME NEW b \in EventOrders, EnableEventOrdering(b) PROVE Grounded'
  <2>1. eventOrdering' = eventOrdering
    BY <1>0, <1>7 DEF EnableEventOrdering, GraphFits
  <2> QED
    BY <1>1, <1>7, <2>1 DEF EnableEventOrdering, Invalidate
<1>8. ASSUME Compile PROVE Grounded'
  BY <1>8, CompileGrounded
<1>9. ASSUME UNCHANGED <<registry, compiled>> PROVE Grounded'
  BY <1>1, <1>9 DEF registry, compiled
<1>10. ASSUME NEW steps \in 0 .. MaxSteps, BeginFrame(steps) PROVE Grounded'
  BY <1>9, <1>10 DEF BeginFrame
<1>11. ASSUME SkipStage PROVE Grounded'
  BY <1>9, <1>11 DEF SkipStage
<1>12. ASSUME NEW holding \in SUBSET Members, NEW how \in {"sequential", "parallel"},
              OpenStage(holding, how)
       PROVE  Grounded'
  BY <1>9, <1>12 DEF OpenStage
<1>13. ASSUME NEW s \in enabled, Start(s) \/ Finish(s) PROVE Grounded'
  BY <1>9, <1>13 DEF Start, Finish
<1>14. ASSUME CloseStage PROVE Grounded'
  BY <1>9, <1>14 DEF CloseStage
<1>15. ASSUME EndFrame PROVE Grounded'
  BY <1>9, <1>15 DEF EndFrame
<1>16. ASSUME UNCHANGED vars PROVE Grounded'
  BY <1>9, <1>16 DEF vars
<1> QED
  BY <1>2, <1>3, <1>4, <1>5, <1>6, <1>7, <1>8, <1>10, <1>11, <1>12, <1>13, <1>14,
     <1>15, <1>16 DEF Next

\* compile() turns a schedule down only for what its author can see: a pair of
\* systems that feed each other without an ordering, or an ordering against the
\* order of registration.  The edges it adds for conflicts never close a cycle
\* by themselves, in whatever order systems come, go and are compiled: each is
\* either checked against the paths already there, or leads on in the order of
\* registration before any edge that leads back from further on.
THEOREM CyclesHaveReasons ==
  ASSUME ~LateConflicts, EventOrders \subseteq {TRUE}
  PROVE  Spec => []CyclesAreReal
<1>1. Safe /\ Grounded /\ [Next]_vars => Safe' /\ Grounded'
  BY NextSafe, NextGrounded
<1>2. Init => Safe /\ Grounded
  BY InitSafe, InitGrounded
<1> QED
  BY <1>1, <1>2, GroundedCycles, PTL DEF Spec

-----------------------------------------------------------------------------
(* Where the elements of a sequence that was put together come from.       *)

\* a holds, in their order, the elements of S among the first n of seq.
Picks(a, seq, n, S, place) ==
  /\ place \in [1 .. Len(a) -> 1 .. n]
  /\ \A i \in 1 .. Len(a) : a[i] = seq[place[i]] /\ seq[place[i]] \in S
  /\ \A i, j \in 1 .. Len(a) : i < j => place[i] < place[j]
  /\ \A p \in 1 .. n : seq[p] \in S => \E i \in 1 .. Len(a) : place[i] = p

LEMMA AmongPlaces ==
  ASSUME NEW T, NEW seq \in Seq(T), NEW S
  PROVE  \E place : Picks(Among(seq, S), seq, Len(seq), S, place)
<1> DEFINE N == Len(seq)
<1>1. N \in Nat /\ \A n \in 1 .. N : seq[n] \in T
  BY LenProperties
<1>2. PICK f : AmongBy(f, T, seq, S)
  BY AmongSteps
<1>3. /\ f \in [0 .. N -> Seq(T \cap S)] /\ f[0] = <<>> /\ Among(seq, S) = f[N]
      /\ \A n \in 1 .. N :
            f[n] = IF seq[n] \in S THEN Append(f[n - 1], seq[n]) ELSE f[n - 1]
  BY <1>2 DEF AmongBy
<1> DEFINE P == {n \in Nat : n <= N => \E place : Picks(f[n], seq, n, S, place)}
<1> HIDE DEF N
<1>4. 0 \in P
  <2>1. Len(f[0]) = 0
    BY <1>3
  <2>2. Picks(f[0], seq, 0, S, [i \in 1 .. 0 |-> 1])
    BY <2>1 DEF Picks
  <2> QED
    BY <2>2
<1>5. ASSUME NEW n \in Nat, n \in P PROVE n + 1 \in P
  <2> SUFFICES ASSUME n + 1 <= N PROVE \E place : Picks(f[n + 1], seq, n + 1, S, place)
    OBVIOUS
  <2>1. n <= N /\ n \in 0 .. N /\ n + 1 \in 1 .. N /\ (n + 1) - 1 = n
    BY <1>1
  <2>2. PICK place : Picks(f[n], seq, n, S, place)
    BY <1>5, <2>1
  <2> DEFINE a == f[n]
             x == seq[n + 1]
             k == Len(a)
  <2>3. a \in Seq(T \cap S) /\ k \in Nat
    BY <1>3, <2>1, LenProperties
  <2>4. f[n + 1] = IF x \in S THEN Append(a, x) ELSE a
    BY <1>3, <2>1
  <2>5. /\ place \in [1 .. k -> 1 .. n]
        /\ \A i \in 1 .. k : a[i] = seq[place[i]] /\ seq[place[i]] \in S
        /\ \A i, j \in 1 .. k : i < j => place[i] < place[j]
        /\ \A p \in 1 .. n : seq[p] \in S => \E i \in 1 .. k : place[i] = p
    BY <2>2 DEF Picks
  <2> HIDE DEF a
  <2>6. \A p \in 1 .. (n + 1) : p = n + 1 \/ p \in 1 .. n
    OBVIOUS
  <2>7. CASE x \notin S
    <3>1. place \in [1 .. k -> 1 .. (n + 1)]
      BY <2>5
    <3>2. f[n + 1] = a
      BY <2>4, <2>7
    <3>3. Picks(a, seq, n + 1, S, place)
      BY <2>5, <2>6, <2>7, <3>1 DEF Picks
    <3> QED
      BY <3>2, <3>3
  <2>8. CASE x \in S
    <3> DEFINE b == Append(a, x)
               q == [i \in 1 .. (k + 1) |-> IF i = k + 1 THEN n + 1 ELSE place[i]]
    <3>1. x \in T \cap S
      BY <1>1, <2>1, <2>8
    <3>2. /\ Len(b) = k + 1 /\ b[k + 1] = x
          /\ \A i \in 1 .. k : b[i] = a[i]
      BY <2>3, <3>1, AppendProperties
    <3>3. \A i \in 1 .. (k + 1) : i = k + 1 \/ i \in 1 .. k
      BY <2>3
    <3>4. k + 1 \in 1 .. (k + 1) /\ \A i \in 1 .. k : i \in 1 .. (k + 1) /\ i # k + 1
      BY <2>3
    <3>5. /\ q \in [1 .. (k + 1) -> 1 .. (n + 1)] /\ q[k + 1] = n + 1
          /\ \A i \in 1 .. k : q[i] = place[i]
      BY <2>5, <3>3, <3>4
    <3> HIDE DEF b, q, k, x
    <3>6. \A i \in 1 .. (k + 1) : b[i] = seq[q[i]] /\ seq[q[i]] \in S
      BY <2>5, <2>8, <3>2, <3>3, <3>5 DEF x
    <3>7. ASSUME NEW i \in 1 .. (k + 1), NEW j \in 1 .. (k + 1), i < j
          PROVE  q[i] < q[j]
      <4>1. i \in 1 .. k
        BY <2>3, <3>7
      <4>2. CASE j = k + 1
        BY <2>5, <3>5, <4>1, <4>2
      <4>3. CASE j # k + 1
        BY <2>5, <3>3, <3>5, <3>7, <4>1, <4>3
      <4> QED
        BY <4>2, <4>3
    <3>8. \A p \in 1 .. (n + 1) : seq[p] \in S => \E i \in 1 .. (k + 1) : q[i] = p
      BY <2>5, <2>6, <3>4, <3>5
    <3>9. Picks(b, seq, n + 1, S, q)
      BY <3>2, <3>5, <3>6, <3>7, <3>8 DEF Picks
    <3>10. f[n + 1] = b
      BY <2>4, <2>8 DEF b, x
    <3> QED
      BY <3>9, <3>10
  <2> QED
    BY <2>7, <2>8
<1>6. N \in P
  <2>1. Nat \subseteq P
    <3> HIDE DEF P
    <3> QED
      BY <1>4, <1>5, Induction
  <2> QED
    BY <1>1, <2>1
<1>7. \E place : Picks(f[N], seq, N, S, place)
  BY <1>1, <1>6
<1> QED
  BY <1>3, <1>7 DEF N

LEMMA AmongSet ==
  ASSUME NEW T, NEW seq \in Seq(T), NEW S
  PROVE  ToSet(Among(seq, S)) = ToSet(seq) \cap S
<1> DEFINE a == Among(seq, S)
<1>1. DOMAIN a = 1 .. Len(a) /\ DOMAIN seq = 1 .. Len(seq)
  BY AmongFacts, LenProperties
<1>2. PICK place : Picks(a, seq, Len(seq), S, place)
  BY AmongPlaces
<1>3. /\ \A i \in 1 .. Len(a) : place[i] \in 1 .. Len(seq) /\ a[i] = seq[place[i]]
      /\ \A p \in 1 .. Len(seq) : seq[p] \in S => \E i \in 1 .. Len(a) : place[i] = p
      /\ \A i \in 1 .. Len(a) : seq[place[i]] \in S
  BY <1>2 DEF Picks
<1> HIDE DEF a
<1>4. ToSet(a) = ToSet(seq) \cap S
  BY <1>1, <1>3 DEF ToSet
<1> QED
  BY <1>4 DEF a

\* Who was once in seq is once in what Among makes of it, if in S at all.
LEMMA AmongExact ==
  ASSUME NEW T, NEW seq \in Seq(T), NEW S, IsInjective(seq)
  PROVE  /\ IsInjective(Among(seq, S))
         /\ ToSet(Among(seq, S)) = ToSet(seq) \cap S
<1> DEFINE a == Among(seq, S)
<1>1. a \in Seq(T \cap S) /\ DOMAIN a = 1 .. Len(a) /\ DOMAIN seq = 1 .. Len(seq)
  BY AmongFacts, LenProperties
<1>2. PICK place : Picks(a, seq, Len(seq), S, place)
  BY AmongPlaces
<1>3. /\ \A i \in 1 .. Len(a) : place[i] \in 1 .. Len(seq) /\ a[i] = seq[place[i]]
      /\ \A i, j \in 1 .. Len(a) : i < j => place[i] < place[j]
      /\ \A p \in 1 .. Len(seq) : seq[p] \in S => \E i \in 1 .. Len(a) : place[i] = p
      /\ \A i \in 1 .. Len(a) : seq[place[i]] \in S
  BY <1>2 DEF Picks
<1> HIDE DEF a
<1>4. ASSUME NEW i \in 1 .. Len(a), NEW j \in 1 .. Len(a), a[i] = a[j] PROVE i = j
  <2>1. place[i] = place[j]
    BY <1>1, <1>3, <1>4 DEF IsInjective
  <2>2. ~(i < j) /\ ~(j < i)
    BY <1>3, <2>1
  <2> QED
    BY <2>2
<1>5. ToSet(a) = ToSet(seq) \cap S
  BY AmongSet DEF a
<1> QED
  BY <1>1, <1>4, <1>5 DEF IsInjective, a

\* The elements of flat are those of the first n sequences, row after row.
Rows(flat, seqs, n, row, col) ==
  /\ row \in [1 .. Len(flat) -> 1 .. n] /\ col \in [1 .. Len(flat) -> Nat]
  /\ \A i \in 1 .. Len(flat) :
        col[i] \in 1 .. Len(seqs[row[i]]) /\ flat[i] = seqs[row[i]][col[i]]
  /\ \A i, j \in 1 .. Len(flat) :
        i < j => row[i] < row[j] \/ (row[i] = row[j] /\ col[i] < col[j])
  /\ \A m \in 1 .. n : \A c \in 1 .. Len(seqs[m]) :
        \E i \in 1 .. Len(flat) : row[i] = m /\ col[i] = c

LEMMA RowsGrow ==
  ASSUME NEW T, NEW u \in Seq(T), NEW seqs, NEW n \in Nat, seqs[n + 1] \in Seq(T),
         NEW row, NEW col, Rows(u, seqs, n, row, col)
  PROVE  \E r, c : Rows(u \o seqs[n + 1], seqs, n + 1, r, c)
<1> DEFINE w == seqs[n + 1]
           k == Len(u)
           l == Len(w)
           b == u \o w
           r == [i \in 1 .. (k + l) |-> IF i <= k THEN row[i] ELSE n + 1]
           c == [i \in 1 .. (k + l) |-> IF i <= k THEN col[i] ELSE i - k]
<1>1. k \in Nat /\ l \in Nat /\ Len(b) = k + l
      /\ \A i \in 1 .. (k + l) : b[i] = IF i <= k THEN u[i] ELSE w[i - k]
  BY LenProperties, ConcatProperties
<1>2. /\ row \in [1 .. k -> 1 .. n] /\ col \in [1 .. k -> Nat]
      /\ \A i \in 1 .. k : col[i] \in 1 .. Len(seqs[row[i]]) /\ u[i] = seqs[row[i]][col[i]]
      /\ \A i, j \in 1 .. k :
            i < j => row[i] < row[j] \/ (row[i] = row[j] /\ col[i] < col[j])
      /\ \A m \in 1 .. n : \A d \in 1 .. Len(seqs[m]) :
            \E i \in 1 .. k : row[i] = m /\ col[i] = d
  BY DEF Rows
<1> HIDE DEF b, k, l
<1>3. \A i \in 1 .. (k + l) : i <= k => i \in 1 .. k
  BY <1>1
<1>4. \A i \in 1 .. (k + l) : ~(i <= k) => i - k \in 1 .. l
  BY <1>1
<1>5. r \in [1 .. (k + l) -> 1 .. (n + 1)] /\ c \in [1 .. (k + l) -> Nat]
  BY <1>2, <1>3, <1>4
<1>6. \A i \in 1 .. (k + l) : /\ i <= k => r[i] = row[i] /\ c[i] = col[i]
                              /\ ~(i <= k) => r[i] = n + 1 /\ c[i] = i - k
  OBVIOUS
<1> HIDE DEF r, c
<1>7. ASSUME NEW i \in 1 .. (k + l)
      PROVE  c[i] \in 1 .. Len(seqs[r[i]]) /\ b[i] = seqs[r[i]][c[i]]
  <2>1. CASE i <= k
    BY <1>1, <1>2, <1>3, <1>6, <2>1
  <2>2. CASE ~(i <= k)
    BY <1>1, <1>4, <1>6, <2>2 DEF l
  <2> QED
    BY <2>1, <2>2
<1>8. ASSUME NEW i \in 1 .. (k + l), NEW j \in 1 .. (k + l), i < j
      PROVE  r[i] < r[j] \/ (r[i] = r[j] /\ c[i] < c[j])
  <2>1. CASE j <= k
    <3>1. i \in 1 .. k /\ j \in 1 .. k /\ i <= k
      BY <1>1, <1>8, <2>1
    <3> QED
      BY <1>2, <1>6, <1>8, <2>1, <3>1
  <2>2. CASE i <= k /\ ~(j <= k)
    <3>1. row[i] \in 1 .. n
      BY <1>2, <1>3, <2>2
    <3> QED
      BY <1>6, <2>2, <3>1
  <2>3. CASE ~(i <= k) /\ ~(j <= k)
    BY <1>1, <1>6, <1>8, <2>3
  <2> QED
    BY <1>1, <1>8, <2>1, <2>2, <2>3
<1>9. ASSUME NEW m \in 1 .. (n + 1), NEW d \in 1 .. Len(seqs[m])
      PROVE  \E i \in 1 .. (k + l) : r[i] = m /\ c[i] = d
  <2>1. CASE m = n + 1
    <3>1. /\ k + d \in 1 .. (k + l) /\ ~(k + d <= k) /\ (k + d) - k = d
      BY <1>1, <1>9, <2>1 DEF l
    <3> QED
      BY <1>6, <2>1, <3>1
  <2>2. CASE m # n + 1
    <3>1. m \in 1 .. n
      BY <2>2
    <3>2. PICK i \in 1 .. k : row[i] = m /\ col[i] = d
      BY <1>2, <3>1
    <3>3. i \in 1 .. (k + l) /\ i <= k
      BY <1>1
    <3> QED
      BY <1>6, <3>2, <3>3
  <2> QED
    BY <2>1, <2>2
<1>10. Rows(b, seqs, n + 1, r, c)
  BY <1>1, <1>5, <1>7, <1>8, <1>9 DEF Rows
<1> QED
  BY <1>10 DEF b

LEMMA FlattenPlaces ==
  ASSUME NEW T, NEW seqs \in Seq(Seq(T))
  PROVE  \E row, col : Rows(FlattenSeq(seqs), seqs, Len(seqs), row, col)
<1> DEFINE N == Len(seqs)
<1>1. N \in Nat /\ \A n \in 1 .. N : seqs[n] \in Seq(T)
  BY LenProperties
<1>2. PICK f : FlattenBy(f, T, seqs)
  BY FlattenSteps
<1>3. /\ f \in [1 .. N -> Seq(T)]
      /\ \A n \in 1 .. N : f[n] = IF n = 1 THEN seqs[n] ELSE f[n - 1] \o seqs[n]
      /\ FlattenSeq(seqs) = IF N = 0 THEN <<>> ELSE f[N]
  BY <1>2 DEF FlattenBy
<1> DEFINE g(n) == IF n = 0 THEN <<>> ELSE f[n]
           P == {n \in Nat : n <= N => \E row, col : Rows(g(n), seqs, n, row, col)}
<1> HIDE DEF N
<1>4. 0 \in P
  <2> DEFINE none == [i \in 1 .. 0 |-> 1]
  <2>1. Len(<<>>) = 0
    OBVIOUS
  <2>2. Rows(<<>>, seqs, 0, none, none)
    BY <2>1 DEF Rows
  <2> QED
    BY <2>2
<1>5. ASSUME NEW n \in Nat, n \in P PROVE n + 1 \in P
  <2> SUFFICES ASSUME n + 1 <= N
               PROVE  \E row, col : Rows(g(n + 1), seqs, n + 1, row, col)
    OBVIOUS
  <2>1. n <= N /\ n + 1 \in 1 .. N /\ (n # 0 => n \in 1 .. N /\ n + 1 # 1 /\ (n + 1) - 1 = n)
    BY <1>1
  <2>2. PICK row, col : Rows(g(n), seqs, n, row, col)
    BY <1>5, <2>1
  <2>3. g(n) \in Seq(T)
    BY <1>3, <2>1, EmptySeq
  <2>4. seqs[n + 1] \in Seq(T)
    BY <1>1, <2>1
  <2>5. g(n + 1) = g(n) \o seqs[n + 1]
    <3>1. CASE n = 0
      <4>1. n + 1 = 1 /\ 1 \in 1 .. N
        BY <2>1, <3>1
      <4>2. f[1] = seqs[1]
        BY <1>3, <4>1
      <4>3. <<>> \o seqs[1] = seqs[1]
        BY <2>4, <4>1, ConcatEmptySeq
      <4>4. g(0) = <<>> /\ g(1) = f[1]
        OBVIOUS
      <4> HIDE DEF g
      <4> QED
        BY <3>1, <4>1, <4>2, <4>3, <4>4
    <3>2. CASE n # 0
      <4>1. f[n + 1] = f[n] \o seqs[n + 1]
        BY <1>3, <2>1, <3>2
      <4>2. g(n) = f[n] /\ g(n + 1) = f[n + 1]
        BY <2>1, <3>2
      <4> HIDE DEF g
      <4> QED
        BY <4>1, <4>2
    <3> QED
      BY <3>1, <3>2
  <2> HIDE DEF g
  <2>6. \E r, c : Rows(g(n) \o seqs[n + 1], seqs, n + 1, r, c)
    BY <2>2, <2>3, <2>4, RowsGrow
  <2> QED
    BY <2>5, <2>6
<1>6. N \in P
  <2>1. Nat \subseteq P
    <3> HIDE DEF P
    <3> QED
      BY <1>4, <1>5, Induction
  <2> QED
    BY <1>1, <2>1
<1>7. \E row, col : Rows(g(N), seqs, N, row, col)
  BY <1>1, <1>6
<1>8. FlattenSeq(seqs) = g(N)
  BY <1>3
<1> QED
  BY <1>7, <1>8 DEF N

\* Nothing stands twice in the sequences, neither in one nor in two of them.
Apart(seqs) ==
  \A m, n \in DOMAIN seqs : \A c \in DOMAIN seqs[m] : \A d \in DOMAIN seqs[n] :
     seqs[m][c] = seqs[n][d] => m = n /\ c = d

\* x stands in one of the sequences.
In(x, seqs) == \E n \in DOMAIN seqs : \E c \in DOMAIN seqs[n] : x = seqs[n][c]

LEMMA FlattenExact ==
  ASSUME NEW T, NEW seqs \in Seq(Seq(T)), Apart(seqs)
  PROVE  /\ IsInjective(FlattenSeq(seqs))
         /\ \A x : x \in ToSet(FlattenSeq(seqs)) <=> In(x, seqs)
<1> DEFINE flat == FlattenSeq(seqs)
<1>1. /\ flat \in Seq(T) /\ DOMAIN flat = 1 .. Len(flat)
      /\ Len(flat) \in Nat /\ DOMAIN seqs = 1 .. Len(seqs)
      /\ \A n \in 1 .. Len(seqs) : seqs[n] \in Seq(T)
  BY FlattenFacts, LenProperties
<1>2. \A n \in 1 .. Len(seqs) : DOMAIN seqs[n] = 1 .. Len(seqs[n])
  BY <1>1, LenProperties
<1>3. PICK row, col : Rows(flat, seqs, Len(seqs), row, col)
  BY FlattenPlaces
<1>4. /\ \A i \in 1 .. Len(flat) :
            /\ row[i] \in 1 .. Len(seqs) /\ col[i] \in 1 .. Len(seqs[row[i]])
            /\ col[i] \in Nat /\ flat[i] = seqs[row[i]][col[i]]
      /\ \A i, j \in 1 .. Len(flat) :
            i < j => row[i] < row[j] \/ (row[i] = row[j] /\ col[i] < col[j])
      /\ \A m \in 1 .. Len(seqs) : \A c \in 1 .. Len(seqs[m]) :
            \E i \in 1 .. Len(flat) : row[i] = m /\ col[i] = c
  BY <1>3 DEF Rows
<1> HIDE DEF flat
<1>5. ASSUME NEW i \in 1 .. Len(flat), NEW j \in 1 .. Len(flat), flat[i] = flat[j]
      PROVE  i = j
  <2>1. seqs[row[i]][col[i]] = seqs[row[j]][col[j]]
    BY <1>4, <1>5
  <2>2. /\ row[i] \in 1 .. Len(seqs) /\ row[j] \in 1 .. Len(seqs)
        /\ col[i] \in 1 .. Len(seqs[row[i]]) /\ col[j] \in 1 .. Len(seqs[row[j]])
        /\ col[i] \in Nat /\ col[j] \in Nat
    BY <1>4
  <2>3. /\ row[i] \in DOMAIN seqs /\ col[i] \in DOMAIN seqs[row[i]]
        /\ row[j] \in DOMAIN seqs /\ col[j] \in DOMAIN seqs[row[j]]
    BY <1>1, <1>2, <2>2
  <2>4. row[i] = row[j] /\ col[i] = col[j]
    BY <2>1, <2>3 DEF Apart
  <2>5. ~(i < j) /\ ~(j < i)
    <3>1. i < j => row[i] < row[j] \/ (row[i] = row[j] /\ col[i] < col[j])
      BY <1>4
    <3>2. j < i => row[j] < row[i] \/ (row[j] = row[i] /\ col[j] < col[i])
      BY <1>4
    <3>3. row[i] \in Nat /\ row[j] \in Nat
      BY <1>1, <2>2
    <3> QED
      BY <2>2, <2>4, <3>1, <3>2, <3>3
  <2> QED
    BY <2>5
<1>6. ASSUME NEW x PROVE x \in ToSet(flat) <=> In(x, seqs)
  <2>1. ASSUME x \in ToSet(flat) PROVE In(x, seqs)
    <3>1. PICK i \in 1 .. Len(flat) : x = flat[i]
      BY <1>1, <2>1 DEF ToSet
    <3>2. row[i] \in DOMAIN seqs /\ col[i] \in DOMAIN seqs[row[i]]
          /\ x = seqs[row[i]][col[i]]
      BY <1>1, <1>2, <1>4, <3>1
    <3> QED
      BY <3>2 DEF In
  <2>2. ASSUME In(x, seqs) PROVE x \in ToSet(flat)
    <3>1. PICK n \in DOMAIN seqs : \E c \in DOMAIN seqs[n] : x = seqs[n][c]
      BY <2>2 DEF In
    <3>2. PICK c \in DOMAIN seqs[n] : x = seqs[n][c]
      BY <3>1
    <3>3. n \in 1 .. Len(seqs) /\ c \in 1 .. Len(seqs[n])
      BY <1>1, <1>2
    <3>4. PICK i \in 1 .. Len(flat) : row[i] = n /\ col[i] = c
      BY <1>4, <3>3
    <3>5. flat[i] = x
      BY <1>4, <3>2, <3>4
    <3> QED
      BY <1>1, <3>5 DEF ToSet
  <2> QED
    BY <2>1, <2>2
<1> QED
  BY <1>1, <1>5, <1>6 DEF IsInjective, flat

\* Cutting a stage leaves each of its systems in one part.
LEMMA SplitExact ==
  ASSUME NEW T, NEW ids \in Seq(T), NEW order, IsInjective(ids)
  PROVE  /\ Apart(Split(order, ids))
         /\ \A x : In(x, Split(order, ids)) <=> x \in ToSet(ids)
         /\ \A n \in DOMAIN Split(order, ids) : 1 \in DOMAIN Split(order, ids)[n]
<1> DEFINE N      == Len(ids)
           cuts   == {i \in 2 .. Len(ids) : CutAfter(order, ids, i - 1)}
           places == [i \in DOMAIN ids |-> i]
           starts == Among(places, {1} \cup cuts)
           ends(i) == {Len(ids)} \cup {j - 1 : j \in {k \in cuts : k > i}}
           end(i) == Min(ends(i))
           part(n) == SubSeq(ids, starts[n], end(starts[n]))
           P      == Split(order, ids)
<1>1. N \in Nat /\ DOMAIN ids = 1 .. N /\ \A i \in 1 .. N : ids[i] \in T
  BY LenProperties
<1>2. cuts \subseteq 2 .. N
  OBVIOUS
<1>3. places \in Seq(1 .. N) /\ \A i \in 1 .. N : places[i] = i
  BY <1>1, Enumerated
<1>4. Len(places) = N
  BY <1>1, <1>3, LenProperties
<1>5. P = [n \in DOMAIN starts |-> part(n)]
  BY DEF Split
<1>6. PICK place : Picks(starts, places, N, {1} \cup cuts, place)
  BY <1>3, <1>4, AmongPlaces
<1>7. starts \in Seq((1 .. N) \cap ({1} \cup cuts))
  BY <1>3, AmongFacts
<1>8. \A i \in 1 .. N :
         /\ end(i) \in ends(i) /\ \A j \in ends(i) : end(i) <= j
         /\ end(i) \in i .. N
         /\ \A j \in cuts : j > i => end(i) < j
  <2> SUFFICES ASSUME NEW i \in 1 .. N
               PROVE  /\ end(i) \in ends(i) /\ \A j \in ends(i) : end(i) <= j
                      /\ end(i) \in i .. N
                      /\ \A j \in cuts : j > i => end(i) < j
    OBVIOUS
  <2>1. ends(i) \subseteq i .. N
    BY <1>1, <1>2
  <2>2. ends(i) \subseteq Nat /\ ends(i) # {}
    BY <2>1
  <2>3. end(i) \in ends(i) /\ \A j \in ends(i) : end(i) <= j
    BY <2>2, Least
  <2>4. \A j \in cuts : j > i => j - 1 \in ends(i)
    OBVIOUS
  <2>5. \A j \in cuts : j \in Nat
    BY <1>2
  <2> HIDE DEF ends, end, cuts, N
  <2>6. end(i) \in i .. N
    BY <2>1, <2>3
  <2>7. \A j \in cuts : j > i => end(i) < j
    BY <2>3, <2>4, <2>5, <2>6
  <2> QED
    BY <2>3, <2>6, <2>7
<1>9. \A i \in 1 .. N : end(i) = N \/ \E j \in cuts : j > i /\ end(i) = j - 1
  BY <1>8
<1> HIDE DEF places, ends, end
<1>10. /\ Len(starts) \in Nat /\ DOMAIN starts = 1 .. Len(starts)
       /\ \A n \in 1 .. Len(starts) : starts[n] \in (1 .. N) \cap ({1} \cup cuts)
  BY <1>7, LenProperties
<1>11. /\ \A m, n \in 1 .. Len(starts) : m < n => starts[m] < starts[n]
       /\ \A p \in 1 .. N : p \in {1} \cup cuts => \E n \in 1 .. Len(starts) : starts[n] = p
  <2>1. /\ \A i \in 1 .. Len(starts) : place[i] \in 1 .. N /\ starts[i] = places[place[i]]
        /\ \A i, j \in 1 .. Len(starts) : i < j => place[i] < place[j]
        /\ \A p \in 1 .. N :
              places[p] \in {1} \cup cuts => \E i \in 1 .. Len(starts) : place[i] = p
    BY <1>6 DEF Picks
  <2> HIDE DEF starts, cuts, N
  <2>2. \A i \in 1 .. Len(starts) : starts[i] = place[i]
    BY <1>3, <2>1
  <2> QED
    BY <1>3, <2>1, <2>2
<1> HIDE DEF starts
<1>12. ASSUME NEW n \in 1 .. Len(starts)
       PROVE  /\ starts[n] \in 1 .. N /\ end(starts[n]) \in starts[n] .. N
              /\ DOMAIN P[n] = 1 .. (end(starts[n]) - starts[n] + 1)
              /\ \A c \in DOMAIN P[n] : P[n][c] = ids[starts[n] + c - 1]
  <2> DEFINE from == starts[n]
             to   == end(starts[n])
  <2>1. from \in 1 .. N /\ to \in from .. N
    BY <1>8, <1>10
  <2>2. P[n] = SubSeq(ids, from, to)
    BY <1>5, <1>10
  <2> HIDE DEF from, to, P, N
  <2>3. \A i \in from .. to : ids[i] \in T
    BY <1>1, <2>1
  <2>4. /\ SubSeq(ids, from, to) \in Seq(T)
        /\ Len(SubSeq(ids, from, to)) = to - from + 1
        /\ \A i \in 1 .. to - from + 1 : SubSeq(ids, from, to)[i] = ids[from + i - 1]
    BY <1>1, <2>1, <2>3, SubSeqProperties
  <2>5. DOMAIN P[n] = 1 .. (to - from + 1)
    BY <2>2, <2>4, LenProperties
  <2>6. \A c \in DOMAIN P[n] : P[n][c] = ids[from + c - 1]
    BY <2>2, <2>4, <2>5
  <2> QED
    BY <2>1, <2>5, <2>6 DEF from, to
<1>13. DOMAIN P = 1 .. Len(starts)
  BY <1>5, <1>10
<1> HIDE DEF P, N, cuts
<1>14. \A m, n \in 1 .. Len(starts) : m < n => end(starts[m]) < starts[n]
  <2> SUFFICES ASSUME NEW m \in 1 .. Len(starts), NEW n \in 1 .. Len(starts), m < n
               PROVE  end(starts[m]) < starts[n]
    OBVIOUS
  <2>1. starts[m] \in 1 .. N /\ starts[n] \in 1 .. N /\ starts[m] < starts[n]
    BY <1>10, <1>11
  <2>2. starts[n] \in cuts
    BY <1>10, <2>1
  <2> QED
    BY <1>8, <2>1, <2>2
<1>15. ASSUME NEW m \in DOMAIN P, NEW n \in DOMAIN P, NEW c \in DOMAIN P[m],
              NEW d \in DOMAIN P[n], P[m][c] = P[n][d]
       PROVE  m = n /\ c = d
  <2> DEFINE i == starts[m] + c - 1
             j == starts[n] + d - 1
  <2>1. m \in 1 .. Len(starts) /\ n \in 1 .. Len(starts)
    BY <1>13
  <2>2. /\ starts[m] \in 1 .. N /\ end(starts[m]) \in starts[m] .. N
        /\ DOMAIN P[m] = 1 .. (end(starts[m]) - starts[m] + 1)
        /\ P[m][c] = ids[i]
    BY <1>12, <2>1
  <2>3. /\ starts[n] \in 1 .. N /\ end(starts[n]) \in starts[n] .. N
        /\ DOMAIN P[n] = 1 .. (end(starts[n]) - starts[n] + 1)
        /\ P[n][d] = ids[j]
    BY <1>12, <2>1
  <2>4. c \in Nat /\ i \in starts[m] .. end(starts[m]) /\ i \in 1 .. N
    BY <1>1, <2>2
  <2>5. d \in Nat /\ j \in starts[n] .. end(starts[n]) /\ j \in 1 .. N
    BY <1>1, <2>3
  <2>6. ids[i] = ids[j]
    BY <1>15, <2>2, <2>3
  <2> HIDE DEF i, j
  <2>7. i = j
    BY <1>1, <2>4, <2>5, <2>6 DEF IsInjective
  <2>8. ~(m < n) /\ ~(n < m)
    <3>1. /\ m < n => end(starts[m]) < starts[n]
          /\ n < m => end(starts[n]) < starts[m]
      BY <1>14, <2>1
    <3>2. /\ starts[m] \in Nat /\ starts[n] \in Nat /\ N \in Nat
          /\ end(starts[m]) \in Nat /\ end(starts[n]) \in Nat
      BY <1>1, <2>2, <2>3
    <3>3. ~(m < n)
      BY <2>4, <2>5, <2>7, <3>1, <3>2
    <3>4. ~(n < m)
      BY <2>4, <2>5, <2>7, <3>1, <3>2
    <3> QED
      BY <3>3, <3>4
  <2>9. m = n
    BY <1>10, <2>1, <2>8
  <2>10. starts[m] + c - 1 = starts[m] + d - 1
    BY <2>7, <2>9 DEF i, j
  <2> QED
    BY <2>2, <2>4, <2>5, <2>9, <2>10
<1>16. ASSUME NEW x, In(x, P) PROVE x \in ToSet(ids)
  <2>1. PICK n \in DOMAIN P : \E c \in DOMAIN P[n] : x = P[n][c]
    BY <1>16 DEF In
  <2>2. PICK c \in DOMAIN P[n] : x = P[n][c]
    BY <2>1
  <2>3. n \in 1 .. Len(starts)
    BY <1>13
  <2>4. /\ starts[n] \in 1 .. N /\ end(starts[n]) \in starts[n] .. N
        /\ DOMAIN P[n] = 1 .. (end(starts[n]) - starts[n] + 1)
        /\ x = ids[starts[n] + c - 1]
    BY <1>12, <2>2, <2>3
  <2>5. starts[n] + c - 1 \in 1 .. N
    BY <1>1, <2>4
  <2> QED
    BY <1>1, <2>4, <2>5 DEF ToSet
<1>17. ASSUME NEW x, x \in ToSet(ids) PROVE In(x, P)
  <2>1. PICK p \in 1 .. N : x = ids[p]
    BY <1>1, <1>17 DEF ToSet
  <2> DEFINE below == {s \in {1} \cup cuts : s <= p}
             s == Max(below)
  <2>2. below \subseteq 1 .. N /\ below \subseteq Nat /\ 1 \in below
    <3>1. p \in Nat /\ 1 <= p /\ 1 \in 1 .. N
      BY <1>1, <2>1
    <3>2. \A y \in cuts : y \in 1 .. N
      BY <1>1, <1>2
    <3>3. 1 \in below
      BY <3>1
    <3>4. \A y \in below : y \in 1 .. N
      BY <3>1, <3>2
    <3>5. \A y \in 1 .. N : y \in Nat
      BY <1>1
    <3> HIDE DEF below
    <3> QED
      BY <3>3, <3>4, <3>5
  <2>3. IsFiniteSet(below)
    BY <1>1, <2>2, FS_Interval, FS_Subset
  <2>4. s \in below /\ \A y \in below : s >= y
    BY <2>2, <2>3, Greatest
  <2> HIDE DEF s
  <2>5. s \in 1 .. N /\ s \in {1} \cup cuts /\ s <= p
    BY <2>2, <2>4
  <2>6. PICK n \in 1 .. Len(starts) : starts[n] = s
    BY <1>11, <2>5
  <2>7. end(s) >= p
    <3>1. CASE end(s) = N
      BY <1>1, <2>1, <3>1
    <3>2. CASE end(s) # N
      <4>1. PICK j \in cuts : j > s /\ end(s) = j - 1
        BY <1>9, <2>5, <3>2
      <4>2. j \in Nat /\ j \notin below
        BY <1>1, <1>2, <2>4, <2>5, <4>1
      <4>3. j > p
        BY <2>1, <4>2
      <4> QED
        BY <2>1, <4>1, <4>2, <4>3
    <3> QED
      BY <3>1, <3>2
  <2> DEFINE c == p - s + 1
  <2>8. /\ end(s) \in s .. N /\ DOMAIN P[n] = 1 .. (end(s) - s + 1)
        /\ \A d \in DOMAIN P[n] : P[n][d] = ids[s + d - 1]
    BY <1>12, <2>6
  <2>9. c \in 1 .. (end(s) - s + 1) /\ s + c - 1 = p
    BY <1>1, <2>1, <2>5, <2>7, <2>8
  <2>10. c \in DOMAIN P[n] /\ P[n][c] = x
    BY <2>1, <2>8, <2>9
  <2> HIDE DEF c
  <2> QED
    BY <1>13, <2>10 DEF In
<1>18. ASSUME NEW n \in DOMAIN P PROVE 1 \in DOMAIN P[n]
  <2>1. n \in 1 .. Len(starts)
    BY <1>13
  <2>2. /\ starts[n] \in 1 .. N /\ end(starts[n]) \in starts[n] .. N
        /\ DOMAIN P[n] = 1 .. (end(starts[n]) - starts[n] + 1)
    BY <1>12, <2>1
  <2> QED
    BY <1>1, <2>2
<1> QED
  BY <1>15, <1>16, <1>17, <1>18 DEF Apart, P

-----------------------------------------------------------------------------
(* Whose turn it is in an order.                                           *)

Ahead(G, R, g) == {h \in G : <<h, g>> \in R}

\* R is a strict order of G in which any two are comparable.
StrictlyOrders(R, G) ==
  /\ \A g \in G : <<g, g>> \notin R
  /\ \A f, g, h \in G : <<f, g>> \in R /\ <<g, h>> \in R => <<f, h>> \in R
  /\ \A g, h \in G : g # h => <<g, h>> \in R \/ <<h, g>> \in R

\* Counting those ahead numbers the elements from 0, each number once.
LEMMA TurnFacts ==
  ASSUME NEW G, IsFiniteSet(G), NEW R, StrictlyOrders(R, G)
  PROVE  /\ \A g \in G : Cardinality(Ahead(G, R, g)) \in 0 .. (Cardinality(G) - 1)
         /\ \A g, h \in G :
               <<g, h>> \in R <=> Cardinality(Ahead(G, R, g)) < Cardinality(Ahead(G, R, h))
         /\ \A n \in 1 .. Cardinality(G) :
               \E g \in G : Cardinality(Ahead(G, R, g)) = n - 1
<1> DEFINE K == Cardinality(G)
           A(g) == Ahead(G, R, g)
           turn == [g \in G |-> Cardinality(A(g))]
<1>1. K \in Nat
  BY FS_CardinalityType
<1>2. \A g : IsFiniteSet(A(g)) /\ Cardinality(A(g)) \in Nat
  <2>1. \A g : A(g) \in SUBSET G
    BY DEF Ahead
  <2> HIDE DEF A
  <2> QED
    BY <2>1, FS_Subset, FS_CardinalityType
<1>3. ASSUME NEW g \in G PROVE Cardinality(A(g)) \in 0 .. (K - 1)
  <2>1. A(g) \in SUBSET (G \ {g})
    BY DEF Ahead, StrictlyOrders
  <2>2. IsFiniteSet(G \ {g}) /\ Cardinality(G \ {g}) = K - 1
    BY FS_RemoveElement
  <2> HIDE DEF A, K
  <2>3. Cardinality(A(g)) <= K - 1
    BY <2>1, <2>2, FS_Subset
  <2> QED
    BY <1>1, <1>2, <2>3
<1>4. ASSUME NEW g \in G, NEW h \in G, <<g, h>> \in R
      PROVE  Cardinality(A(g)) < Cardinality(A(h))
  <2>1. A(g) \cup {g} \in SUBSET A(h) /\ g \notin A(g)
    BY <1>4 DEF Ahead, StrictlyOrders
  <2> HIDE DEF A
  <2>2. Cardinality(A(g) \cup {g}) = Cardinality(A(g)) + 1
    BY <1>2, <2>1, FS_AddElement
  <2>3. Cardinality(A(g) \cup {g}) <= Cardinality(A(h))
    BY <1>2, <2>1, FS_Subset
  <2> QED
    BY <1>2, <2>2, <2>3
<1>5. ASSUME NEW g \in G, NEW h \in G
      PROVE  <<g, h>> \in R <=> Cardinality(A(g)) < Cardinality(A(h))
  <2>1. CASE g = h
    BY <1>2, <2>1 DEF StrictlyOrders
  <2>2. CASE g # h
    <3>1. <<g, h>> \in R \/ <<h, g>> \in R
      BY <2>2 DEF StrictlyOrders
    <3>2. <<h, g>> \in R => ~(Cardinality(A(g)) < Cardinality(A(h)))
      BY <1>2, <1>4
    <3> QED
      BY <1>4, <3>1, <3>2
  <2> QED
    BY <2>1, <2>2
<1> HIDE DEF A
<1>6. turn \in Injection(G, 0 .. (K - 1))
  <2>1. turn \in [G -> 0 .. (K - 1)]
    BY <1>3
  <2>2. ASSUME NEW g \in G, NEW h \in G, turn[g] = turn[h] PROVE g = h
    <3>1. <<g, h>> \notin R /\ <<h, g>> \notin R
      BY <1>2, <1>5, <2>2
    <3> QED
      BY <3>1 DEF StrictlyOrders
  <2> HIDE DEF turn
  <2> QED
    BY <2>1, <2>2 DEF Injection, IsInjective
<1>7. turn \in Surjection(G, 0 .. (K - 1))
  <2>1. IsFiniteSet(0 .. (K - 1)) /\ Cardinality(0 .. (K - 1)) = K
    <3>1. 0 \in Int /\ K - 1 \in Int
      BY <1>1
    <3>2. /\ IsFiniteSet(0 .. (K - 1))
          /\ Cardinality(0 .. (K - 1)) = IF 0 > K - 1 THEN 0 ELSE K - 1 - 0 + 1
      BY <3>1, FS_Interval
    <3> QED
      BY <1>1, <3>2
  <2> HIDE DEF turn
  <2> QED
    BY <1>6, <2>1, FS_Injection DEF K
<1>8. \A n \in 1 .. K : \E g \in G : Cardinality(A(g)) = n - 1
  <2> SUFFICES ASSUME NEW n \in 1 .. K PROVE \E g \in G : Cardinality(A(g)) = n - 1
    OBVIOUS
  <2>1. n - 1 \in 0 .. (K - 1)
    BY <1>1
  <2>2. \E g \in G : turn[g] = n - 1
    BY <1>7, <2>1 DEF Surjection
  <2> QED
    BY <2>2
<1> QED
  BY <1>3, <1>5, <1>8 DEF A, K

PlaceOf(l) == SelectInSeq(stageOrder, LAMBDA z : z = l)

\* What a label at a level is sorted by.
Key(l, n) ==
  IF stageOrder = <<>> THEN <<Priority(l), n, l>>
  ELSE IF PlaceOf(l) > 0 THEN <<0, PlaceOf(l), n>>
  ELSE <<1, l, n>>

Lower(p, q) == \E i \in 1 .. 3 : p[i] < q[i] /\ \A j \in 1 .. (i - 1) : p[j] = q[j]

LEMMA PlacedByKey ==
  ASSUME NEW x, NEW k, NEW y, NEW m
  PROVE  PlacedBefore(x, k, y, m) <=> Lower(Key(x, k), Key(y, m))
  BY DEF PlacedBefore, Lower, Key, PlaceOf

LEMMA LowerFacts ==
  ASSUME NEW p \in Nat \X Nat \X Nat, NEW q \in Nat \X Nat \X Nat
  PROVE  Lower(p, q) <=> \/ p[1] < q[1]
                         \/ p[1] = q[1] /\ p[2] < q[2]
                         \/ p[1] = q[1] /\ p[2] = q[2] /\ p[3] < q[3]
<1>1. 1 \in 1 .. 3 /\ 2 \in 1 .. 3 /\ 3 \in 1 .. 3
  OBVIOUS
<1>2. \A i \in 1 .. 3 : i = 1 \/ i = 2 \/ i = 3
  OBVIOUS
<1>3. \A j : j \in 1 .. (1 - 1) <=> FALSE
  OBVIOUS
<1>4. \A j : j \in 1 .. (2 - 1) <=> j = 1
  OBVIOUS
<1>5. \A j : j \in 1 .. (3 - 1) <=> (j = 1 \/ j = 2)
  OBVIOUS
<1> DEFINE At(i) == p[i] < q[i] /\ \A j \in 1 .. (i - 1) : p[j] = q[j]
<1>6. At(1) <=> p[1] < q[1]
  BY <1>3
<1>7. At(2) <=> p[1] = q[1] /\ p[2] < q[2]
  BY <1>4
<1>8. At(3) <=> p[1] = q[1] /\ p[2] = q[2] /\ p[3] < q[3]
  BY <1>5
<1>9. Lower(p, q) <=> \E i \in 1 .. 3 : At(i)
  BY DEF Lower
<1> HIDE DEF At
<1>10. Lower(p, q) <=> At(1) \/ At(2) \/ At(3)
  BY <1>1, <1>2, <1>9
<1> QED
  BY <1>6, <1>7, <1>8, <1>10

\* The keys of two labels, or of two levels, differ.
LEMMA KeyFacts ==
  ASSUME stageOrder \in Seq(Nat)
  PROVE  /\ \A l, n \in Nat : Key(l, n) \in Nat \X Nat \X Nat
         /\ \A l, n, x, m \in Nat : Key(l, n) = Key(x, m) => l = x /\ n = m
<1>1. ASSUME NEW l \in Nat
      PROVE  PlaceOf(l) \in Nat /\ (PlaceOf(l) > 0 => stageOrder[PlaceOf(l)] = l)
  <2> DEFINE I == {i \in 1 .. Len(stageOrder) : stageOrder[i] = l}
  <2>1. I \subseteq Nat
    BY LenProperties
  <2>2. PlaceOf(l) = IF I # {} THEN Min(I) ELSE 0
    BY DEF PlaceOf, SelectInSeq
  <2>3. I # {} => Min(I) \in I
    BY <2>1, Least
  <2>4. \A i \in I : stageOrder[i] = l
    OBVIOUS
  <2> HIDE DEF I
  <2>5. CASE I = {}
    BY <2>2, <2>5
  <2>6. CASE I # {}
    <3>1. PlaceOf(l) \in I
      BY <2>2, <2>3, <2>6
    <3> QED
      BY <2>1, <2>4, <3>1
  <2> QED
    BY <2>5, <2>6
<1>2. \A l \in Nat : Priority(l) \in Nat
  BY DEF Priority, Custom
<1>3. \A l, n \in Nat : Key(l, n) \in Nat \X Nat \X Nat
  BY <1>1, <1>2 DEF Key
<1>4. ASSUME NEW l \in Nat, NEW n \in Nat, NEW x \in Nat, NEW m \in Nat, Key(l, n) = Key(x, m)
      PROVE  l = x /\ n = m
  <2>1. CASE stageOrder = <<>>
    BY <1>4, <2>1 DEF Key
  <2>2. CASE stageOrder # <<>> /\ PlaceOf(l) > 0
    <3>1. PlaceOf(x) > 0 /\ PlaceOf(l) = PlaceOf(x) /\ n = m
      BY <1>4, <2>2 DEF Key
    <3> QED
      BY <1>1, <2>2, <3>1
  <2>3. CASE stageOrder # <<>> /\ ~(PlaceOf(l) > 0)
    BY <1>4, <2>3 DEF Key
  <2> QED
    BY <2>1, <2>2, <2>3
<1> QED
  BY <1>3, <1>4

Placed(G) == {p \in G \X G : PlacedBefore(p[1][1], p[1][2], p[2][1], p[2][2])}

\* Of two labels at their levels one is placed before the other.
LEMMA PlacedOrders ==
  ASSUME stageOrder \in Seq(Nat), NEW G \in SUBSET (Nat \X Nat)
  PROVE  StrictlyOrders(Placed(G), G)
<1> DEFINE K(g) == Key(g[1], g[2])
<1>1. \A g, h \in G : <<g, h>> \in Placed(G) <=> Lower(K(g), K(h))
  <2>1. \A g, h \in G : <<g, h>> \in Placed(G) <=> PlacedBefore(g[1], g[2], h[1], h[2])
    BY DEF Placed
  <2> QED
    BY <2>1, PlacedByKey
<1>2. \A g \in G : K(g) \in Nat \X Nat \X Nat
  BY KeyFacts
<1>3. \A g, h \in G : K(g) = K(h) => g = h
  <2> SUFFICES ASSUME NEW g \in G, NEW h \in G, K(g) = K(h) PROVE g = h
    OBVIOUS
  <2>1. g[1] \in Nat /\ g[2] \in Nat /\ h[1] \in Nat /\ h[2] \in Nat
        /\ g = <<g[1], g[2]>> /\ h = <<h[1], h[2]>>
    OBVIOUS
  <2>2. \A l, n, x, m \in Nat : Key(l, n) = Key(x, m) => l = x /\ n = m
    BY KeyFacts
  <2>3. Key(g[1], g[2]) = Key(h[1], h[2])
    OBVIOUS
  <2>4. g[1] = h[1] /\ g[2] = h[2]
    BY <2>1, <2>2, <2>3
  <2> QED
    BY <2>1, <2>4
<1> HIDE DEF K
<1>4. ASSUME NEW g \in G PROVE <<g, g>> \notin Placed(G)
  <2> DEFINE p == K(g)
  <2>1. p \in Nat \X Nat \X Nat
    BY <1>2
  <2> HIDE DEF p
  <2>2. ~Lower(p, p)
    <3>1. p[1] \in Nat /\ p[2] \in Nat /\ p[3] \in Nat
      BY <2>1
    <3> QED
      BY <2>1, <3>1, LowerFacts
  <2> QED
    BY <1>1, <2>2 DEF p
<1>5. ASSUME NEW f \in G, NEW g \in G, NEW h \in G,
             <<f, g>> \in Placed(G), <<g, h>> \in Placed(G)
      PROVE  <<f, h>> \in Placed(G)
  <2> DEFINE p == K(f)
             q == K(g)
             r == K(h)
  <2>1. p \in Nat \X Nat \X Nat /\ q \in Nat \X Nat \X Nat /\ r \in Nat \X Nat \X Nat
        /\ Lower(p, q) /\ Lower(q, r)
    BY <1>1, <1>2, <1>5
  <2> HIDE DEF p, q, r
  <2>2. Lower(p, r)
    <3>1. \A x, y : x \in Nat \X Nat \X Nat /\ y \in Nat \X Nat \X Nat =>
             (Lower(x, y) <=> \/ x[1] < y[1]
                              \/ x[1] = y[1] /\ x[2] < y[2]
                              \/ x[1] = y[1] /\ x[2] = y[2] /\ x[3] < y[3])
      BY LowerFacts
    <3>2. /\ p[1] \in Nat /\ p[2] \in Nat /\ p[3] \in Nat
          /\ q[1] \in Nat /\ q[2] \in Nat /\ q[3] \in Nat
          /\ r[1] \in Nat /\ r[2] \in Nat /\ r[3] \in Nat
      BY <2>1
    <3>3. \/ p[1] < q[1]
          \/ p[1] = q[1] /\ p[2] < q[2]
          \/ p[1] = q[1] /\ p[2] = q[2] /\ p[3] < q[3]
      BY <2>1, <3>1
    <3>4. \/ q[1] < r[1]
          \/ q[1] = r[1] /\ q[2] < r[2]
          \/ q[1] = r[1] /\ q[2] = r[2] /\ q[3] < r[3]
      BY <2>1, <3>1
    <3>5. \/ p[1] < r[1]
          \/ p[1] = r[1] /\ p[2] < r[2]
          \/ p[1] = r[1] /\ p[2] = r[2] /\ p[3] < r[3]
      <4>0. \A a, b, c \in Nat : a < b /\ b < c => a < c
        OBVIOUS
      <4>1. CASE p[1] < q[1]
        <5>1. CASE q[1] < r[1]
          BY <3>2, <4>0, <4>1, <5>1
        <5>2. CASE q[1] = r[1]
          BY <4>1, <5>2
        <5> QED
          BY <3>4, <5>1, <5>2
      <4>2. CASE p[1] = q[1] /\ p[2] < q[2]
        <5>1. CASE q[1] < r[1]
          BY <4>2, <5>1
        <5>2. CASE q[1] = r[1] /\ q[2] < r[2]
          <6>1. p[2] < r[2]
            BY <3>2, <4>0, <4>2, <5>2
          <6> QED
            BY <4>2, <5>2, <6>1
        <5>3. CASE q[1] = r[1] /\ q[2] = r[2]
          BY <4>2, <5>3
        <5> QED
          BY <3>4, <5>1, <5>2, <5>3
      <4>3. CASE p[1] = q[1] /\ p[2] = q[2] /\ p[3] < q[3]
        <5>1. CASE q[1] = r[1] /\ q[2] = r[2] /\ q[3] < r[3]
          <6>1. p[3] < r[3]
            BY <3>2, <4>0, <4>3, <5>1
          <6> QED
            BY <4>3, <5>1, <6>1
        <5>2. CASE q[1] < r[1] \/ (q[1] = r[1] /\ q[2] < r[2])
          BY <4>3, <5>2
        <5> QED
          BY <3>4, <5>1, <5>2
      <4> QED
        BY <3>3, <4>1, <4>2, <4>3
    <3> QED
      BY <2>1, <3>1, <3>5
  <2> QED
    BY <1>1, <2>2 DEF p, r
<1>6. ASSUME NEW g \in G, NEW h \in G, g # h
      PROVE  <<g, h>> \in Placed(G) \/ <<h, g>> \in Placed(G)
  <2> DEFINE p == K(g)
             q == K(h)
  <2>1. p \in Nat \X Nat \X Nat /\ q \in Nat \X Nat \X Nat /\ p # q
    BY <1>2, <1>3, <1>6
  <2> HIDE DEF p, q
  <2>2. p[1] # q[1] \/ p[2] # q[2] \/ p[3] # q[3]
    <3>1. p = <<p[1], p[2], p[3]>> /\ q = <<q[1], q[2], q[3]>>
      BY <2>1
    <3> QED
      BY <2>1, <3>1
  <2>3. Lower(p, q) \/ Lower(q, p)
    <3>1. /\ p[1] \in Nat /\ p[2] \in Nat /\ p[3] \in Nat
          /\ q[1] \in Nat /\ q[2] \in Nat /\ q[3] \in Nat
      BY <2>1
    <3> QED
      BY <2>1, <2>2, <3>1, LowerFacts
  <2> QED
    BY <1>1, <2>3 DEF p, q
<1> QED
  BY <1>4, <1>5, <1>6 DEF StrictlyOrders

-----------------------------------------------------------------------------
(* A compiled plan holds every system once.                                *)

SystemsOf(stages) == [i \in DOMAIN stages |-> stages[i].systems]

\* The systems of stages stand in them once each.
Holds(stages, S) ==
  /\ stages \in Seq({Stage(q) : q \in Seq(S)})
  /\ Apart(SystemsOf(stages))
  /\ \A x : In(x, SystemsOf(stages)) <=> x \in S

\* A stage holds systems of one label and one level, and no later stage is one
\* that is placed before it.
Levelled(stages, level) ==
  /\ \A i \in DOMAIN stages : 1 \in DOMAIN stages[i].systems
  /\ \A i \in DOMAIN stages : \A c \in DOMAIN stages[i].systems :
        /\ stages[i].label = Label(stages[i].systems[c])
        /\ level[stages[i].systems[1]] = level[stages[i].systems[c]]
  /\ \A i, j \in DOMAIN stages :
        i < j => ~PlacedBefore(stages[j].label, level[stages[j].systems[1]],
                               stages[i].label, level[stages[i].systems[1]])

LEMMA SortedFacts ==
  ASSUME NEW S, IsFiniteSet(S), NEW sorted \in SetToSeqs(S)
  PROVE  sorted \in Seq(S) /\ IsInjective(sorted) /\ ToSet(sorted) = S
<1> DEFINE n == Cardinality(S)
           D == 1 .. n
<1>1. n \in Nat
  BY FS_CardinalityType
<1>2. sorted \in [D -> S] /\ \A i, j \in D : i # j => sorted[i] # sorted[j]
  BY DEF SetToSeqs
<1>3. IsFiniteSet(D) /\ Cardinality(D) = n
  <2>1. IsFiniteSet(1 .. n) /\ Cardinality(1 .. n) = IF 1 > n THEN 0 ELSE n - 1 + 1
    BY <1>1, FS_Interval
  <2> QED
    BY <1>1, <2>1
<1>4. sorted \in Seq(S)
  BY <1>1, <1>2, SeqDef
<1> HIDE DEF D
<1>5. IsInjective(sorted)
  BY <1>2 DEF IsInjective
<1>6. sorted \in Injection(D, S)
  BY <1>2, <1>5 DEF Injection
<1>7. sorted \in Surjection(D, S)
  BY <1>3, <1>6, FS_Injection
<1>8. ToSet(sorted) = S
  BY <1>2, <1>7 DEF Surjection, ToSet
<1> QED
  BY <1>4, <1>5, <1>8

LEMMA StagesHold ==
  ASSUME systems \in Seq(Names), stageOrder \in Seq(Nat), NEW order,
         NEW sorted \in SetToSeqs(Registered),
         NEW E \in SUBSET ((Registered \cup {Barrier}) \X (Registered \cup {Barrier})),
         ~Cyclic(E)
  PROVE  /\ Holds(Stages(E, order, sorted), Registered)
         /\ Levelled(Stages(E, order, sorted), LevelIn(E))
<1> DEFINE level == LevelIn(E)
           groups == {<<Label(s), level[s]>> : s \in Registered}
           before(g) == {h \in groups : PlacedBefore(h[1], h[2], g[1], g[2])}
           group(n) == CHOOSE g \in groups : Cardinality(before(g)) = n - 1
           same(g) == {s \in Registered : Label(s) = g[1] /\ level[s] = g[2]}
           members(g) == Among(sorted, same(g))
           parts(g) == Split(order, members(g))
           stagesOf(g) == [n \in DOMAIN parts(g) |-> Stage(parts(g)[n])]
           K == Cardinality(groups)
           T == {Stage(q) : q \in Seq(Registered)}
           all == [n \in 1 .. K |-> stagesOf(group(n))]
           P == Stages(E, order, sorted)
<1>0. P = FlattenSeq(all)
  BY DEF Stages
<1>1. Registered \subseteq Names /\ IsFiniteSet(Registered)
  BY RegisteredFinite DEF Registered, ToSet
<1>2. sorted \in Seq(Registered) /\ IsInjective(sorted) /\ ToSet(sorted) = Registered
  BY <1>1, SortedFacts
<1>3. \A s \in Registered : Label(s) \in Nat /\ level[s] \in Nat
  <2>1. \A s \in Registered : Label(s) \in Nat
    BY <1>1, ScheduleAssumption DEF Label
  <2>2. \A s \in Registered : level[s] \in Nat
    BY <1>1, LevelInFacts
  <2> QED
    BY <2>1, <2>2
<1> HIDE DEF level
<1>4. groups \in SUBSET (Nat \X Nat) /\ IsFiniteSet(groups) /\ K \in Nat
  <2>1. groups \in SUBSET (Nat \X Nat)
    BY <1>3
  <2>2. [s \in Registered |-> <<Label(s), level[s]>>] \in Surjection(Registered, groups)
    BY DEF Surjection
  <2> QED
    BY <2>1, <2>2, <1>1, FS_Surjection, FS_CardinalityType
<1>4a. \A g, h \in groups :
          <<g, h>> \in Placed(groups) <=> PlacedBefore(g[1], g[2], h[1], h[2])
  BY DEF Placed
<1>5. \A g \in groups : before(g) = Ahead(groups, Placed(groups), g)
  BY DEF Ahead, Placed
<1>6. \A s \in Registered : /\ <<Label(s), level[s]>> \in groups
                            /\ s \in same(<<Label(s), level[s]>>)
  OBVIOUS
<1>7. \A g : \A s \in same(g) : s \in Registered /\ g[1] = Label(s) /\ g[2] = level[s]
  OBVIOUS
<1>8. \A g \in groups : g = <<g[1], g[2]>>
  OBVIOUS
<1> HIDE DEF groups, before, same
<1>9. /\ \A g \in groups : Cardinality(before(g)) \in 0 .. (K - 1)
      /\ \A g, h \in groups : Cardinality(before(g)) = Cardinality(before(h)) => g = h
      /\ \A n \in 1 .. K : \E g \in groups : Cardinality(before(g)) = n - 1
      /\ \A g, h \in groups :
            PlacedBefore(g[1], g[2], h[1], h[2])
               => Cardinality(before(g)) < Cardinality(before(h))
  <2>1. StrictlyOrders(Placed(groups), groups)
    BY <1>4, PlacedOrders
  <2>2. /\ \A g \in groups : Cardinality(before(g)) \in 0 .. (K - 1)
        /\ \A g, h \in groups :
              <<g, h>> \in Placed(groups) <=> Cardinality(before(g)) < Cardinality(before(h))
        /\ \A n \in 1 .. K : \E g \in groups : Cardinality(before(g)) = n - 1
    BY <1>4, <1>5, <2>1, TurnFacts
  <2>3. ASSUME NEW g \in groups, NEW h \in groups,
               Cardinality(before(g)) = Cardinality(before(h))
        PROVE  g = h
    <3>1. <<g, h>> \notin Placed(groups) /\ <<h, g>> \notin Placed(groups)
      BY <1>4, <2>2, <2>3
    <3> QED
      BY <2>1, <3>1 DEF StrictlyOrders
  <2>4. \A g, h \in groups :
           PlacedBefore(g[1], g[2], h[1], h[2])
              => Cardinality(before(g)) < Cardinality(before(h))
    BY <1>4a, <2>2
  <2> QED
    BY <2>2, <2>3, <2>4
<1>10. \A n \in 1 .. K : group(n) \in groups /\ Cardinality(before(group(n))) = n - 1
  BY <1>9
<1>11. ASSUME NEW g \in groups PROVE \E n \in 1 .. K : group(n) = g
  <2> DEFINE n == Cardinality(before(g)) + 1
  <2>1. n \in 1 .. K /\ Cardinality(before(g)) = n - 1
    BY <1>4, <1>9, <1>11
  <2> HIDE DEF n
  <2>2. group(n) \in groups /\ Cardinality(before(group(n))) = n - 1
    BY <1>10, <2>1
  <2>3. group(n) = g
    BY <1>9, <1>11, <2>1, <2>2
  <2> QED
    BY <2>1, <2>3
<1> HIDE DEF group, K
<1>12. ASSUME NEW m \in 1 .. K, NEW n \in 1 .. K, group(m) = group(n) PROVE m = n
  <2>1. Cardinality(before(group(m))) = m - 1 /\ Cardinality(before(group(n))) = n - 1
    BY <1>10
  <2>2. m - 1 = n - 1 /\ m \in Int /\ n \in Int
    BY <1>4, <1>12, <2>1
  <2> QED
    BY <2>2
<1>13. ASSUME NEW g
       PROVE  /\ members(g) \in Seq(Registered) /\ IsInjective(members(g))
              /\ ToSet(members(g)) = same(g)
  <2>1. members(g) \in Seq(Registered \cap same(g))
    BY <1>2, AmongFacts
  <2>2. Registered \cap same(g) = same(g)
    BY <1>7
  <2>3. same(g) \subseteq Registered
    BY <1>7
  <2>4. IsInjective(members(g)) /\ ToSet(members(g)) = Registered \cap same(g)
    BY <1>2, AmongExact
  <2> HIDE DEF members
  <2>5. members(g) \in Seq(Registered)
    BY <2>1, <2>2, <2>3
  <2> QED
    BY <2>2, <2>4, <2>5
<1> HIDE DEF members
<1>14. ASSUME NEW g
       PROVE  /\ parts(g) \in Seq(Seq(Registered)) /\ Apart(parts(g))
              /\ \A x : In(x, parts(g)) <=> x \in same(g)
              /\ \A n \in DOMAIN parts(g) : 1 \in DOMAIN parts(g)[n]
  BY <1>13, SplitFacts, SplitExact
<1> HIDE DEF parts
<1>15. ASSUME NEW g
       PROVE  /\ stagesOf(g) \in Seq(T) /\ DOMAIN stagesOf(g) = DOMAIN parts(g)
              /\ \A n \in DOMAIN parts(g) :
                    /\ stagesOf(g)[n].systems = parts(g)[n]
                    /\ stagesOf(g)[n].label = Label(parts(g)[n][1])
  <2> DEFINE p == parts(g)
  <2>1. Len(p) \in Nat /\ DOMAIN p = 1 .. Len(p) /\ \A n \in 1 .. Len(p) : p[n] \in Seq(Registered)
    BY <1>14, LenProperties
  <2>2. \A n \in 1 .. Len(p) : Stage(p[n]) \in T
    BY <2>1
  <2>3. stagesOf(g) = [n \in 1 .. Len(p) |-> Stage(p[n])]
    BY <2>1
  <2>4. \A n \in DOMAIN p : /\ stagesOf(g)[n].systems = p[n]
                            /\ stagesOf(g)[n].label = Label(p[n][1])
    BY DEF Stage
  <2> HIDE DEF p, T, stagesOf
  <2>5. stagesOf(g) \in Seq(T)
    BY <2>1, <2>2, <2>3, Enumerated
  <2>6. DOMAIN stagesOf(g) = DOMAIN p
    BY <2>1, <2>3
  <2> QED
    BY <2>4, <2>5, <2>6 DEF p
<1> HIDE DEF stagesOf, T
<1>16. /\ all \in Seq(Seq(T)) /\ Len(all) = K
       /\ \A n \in 1 .. K : all[n] = stagesOf(group(n))
  <2>1. \A n \in 1 .. K : all[n] = stagesOf(group(n)) /\ all[n] \in Seq(T)
    BY <1>15
  <2>2. all \in Seq(Seq(T))
    BY <1>4, <2>1, Enumerated
  <2>3. Len(all) = K
    <3>1. DOMAIN all = 1 .. Len(all) /\ DOMAIN all = 1 .. K /\ Len(all) \in Nat
      BY <2>2, LenProperties
    <3> QED
      BY <1>4, <3>1
  <2> QED
    BY <2>1, <2>2, <2>3
<1> HIDE DEF all, P
<1>17. P \in Seq(T) /\ DOMAIN P = 1 .. Len(P) /\ Len(P) \in Nat
  BY <1>0, <1>16, FlattenFacts, LenProperties
<1>18. PICK row, col : Rows(P, all, K, row, col)
  BY <1>0, <1>16, FlattenPlaces
<1> DEFINE G(i) == group(row[i])
<1>19. ASSUME NEW i \in 1 .. Len(P)
       PROVE  /\ row[i] \in 1 .. K /\ row[i] \in Nat /\ col[i] \in Nat /\ G(i) \in groups
              /\ col[i] \in DOMAIN parts(G(i)) /\ P[i].systems = parts(G(i))[col[i]]
              /\ P[i].label = Label(P[i].systems[1])
  <2>1. row[i] \in 1 .. K /\ col[i] \in 1 .. Len(all[row[i]]) /\ P[i] = all[row[i]][col[i]]
    BY <1>18 DEF Rows
  <2>2. all[row[i]] = stagesOf(G(i)) /\ G(i) \in groups
    BY <1>10, <1>16, <2>1
  <2>3. col[i] \in DOMAIN stagesOf(G(i))
    BY <1>15, <2>1, <2>2, LenProperties
  <2> HIDE DEF G
  <2>4. P[i].systems = parts(G(i))[col[i]] /\ col[i] \in DOMAIN parts(G(i))
        /\ P[i].label = Label(P[i].systems[1])
    BY <1>15, <2>1, <2>2, <2>3
  <2> QED
    BY <1>4, <2>1, <2>2, <2>4
<1>20. /\ \A i, j \in 1 .. Len(P) :
             i < j => row[i] < row[j] \/ (row[i] = row[j] /\ col[i] < col[j])
       /\ \A m \in 1 .. K : \A c \in DOMAIN parts(group(m)) :
             \E i \in 1 .. Len(P) : row[i] = m /\ col[i] = c
  <2>1. \A i, j \in 1 .. Len(P) :
           i < j => row[i] < row[j] \/ (row[i] = row[j] /\ col[i] < col[j])
    BY <1>18 DEF Rows
  <2>2. ASSUME NEW m \in 1 .. K, NEW c \in DOMAIN parts(group(m))
        PROVE  \E i \in 1 .. Len(P) : row[i] = m /\ col[i] = c
    <3>1. all[m] = stagesOf(group(m)) /\ c \in DOMAIN all[m] /\ all[m] \in Seq(T)
      BY <1>15, <1>16
    <3>2. c \in 1 .. Len(all[m])
      BY <3>1, LenProperties
    <3> QED
      BY <1>18, <3>2 DEF Rows
  <2> QED
    BY <2>1, <2>2
<1>21. DOMAIN SystemsOf(P) = 1 .. Len(P) /\ \A i \in 1 .. Len(P) : SystemsOf(P)[i] = P[i].systems
  BY <1>17 DEF SystemsOf
<1> HIDE DEF G
<1>22. ASSUME NEW i \in 1 .. Len(P), NEW c \in DOMAIN SystemsOf(P)[i]
       PROVE  /\ SystemsOf(P)[i][c] \in Registered
              /\ G(i) = <<Label(SystemsOf(P)[i][c]), level[SystemsOf(P)[i][c]]>>
  <2> DEFINE x == SystemsOf(P)[i][c]
  <2>1. SystemsOf(P)[i] = parts(G(i))[col[i]] /\ col[i] \in DOMAIN parts(G(i)) /\ G(i) \in groups
    BY <1>19, <1>21
  <2>2. In(x, parts(G(i)))
    BY <1>22, <2>1 DEF In
  <2> HIDE DEF x
  <2>3. x \in same(G(i))
    BY <1>14, <2>2
  <2>4. x \in Registered /\ G(i) = <<Label(x), level[x]>>
    BY <1>7, <1>8, <2>1, <2>3
  <2> QED
    BY <2>4 DEF x
<1>23. ASSUME NEW i \in 1 .. Len(P), NEW j \in 1 .. Len(P),
              NEW c \in DOMAIN SystemsOf(P)[i], NEW d \in DOMAIN SystemsOf(P)[j],
              SystemsOf(P)[i][c] = SystemsOf(P)[j][d]
       PROVE  i = j /\ c = d
  <2>1. G(i) = G(j)
    BY <1>22, <1>23
  <2>2. /\ row[i] \in 1 .. K /\ row[i] \in Nat /\ col[i] \in Nat
        /\ col[i] \in DOMAIN parts(G(i)) /\ SystemsOf(P)[i] = parts(G(i))[col[i]]
    BY <1>19, <1>21
  <2>3. /\ row[j] \in 1 .. K /\ row[j] \in Nat /\ col[j] \in Nat
        /\ col[j] \in DOMAIN parts(G(i)) /\ SystemsOf(P)[j] = parts(G(i))[col[j]]
    BY <1>19, <1>21, <2>1
  <2>4. row[i] = row[j]
    BY <1>12, <2>1, <2>2, <2>3 DEF G
  <2>5. col[i] = col[j] /\ c = d
    <3>1. Apart(parts(G(i)))
      BY <1>14
    <3>2. c \in DOMAIN parts(G(i))[col[i]] /\ d \in DOMAIN parts(G(i))[col[j]]
          /\ parts(G(i))[col[i]][c] = parts(G(i))[col[j]][d]
      BY <1>23, <2>2, <2>3
    <3> QED
      BY <2>2, <2>3, <3>1, <3>2 DEF Apart
  <2>6. ~(i < j) /\ ~(j < i)
    <3>1. i < j => row[i] < row[j] \/ (row[i] = row[j] /\ col[i] < col[j])
      BY <1>20
    <3>2. j < i => row[j] < row[i] \/ (row[j] = row[i] /\ col[j] < col[i])
      BY <1>20
    <3> QED
      BY <2>2, <2>3, <2>4, <2>5, <3>1, <3>2
  <2>7. i = j
    BY <1>17, <2>6
  <2> QED
    BY <2>5, <2>7
<1>24. ASSUME NEW x PROVE In(x, SystemsOf(P)) <=> x \in Registered
  <2>1. ASSUME In(x, SystemsOf(P)) PROVE x \in Registered
    <3>1. PICK i \in 1 .. Len(P) : \E c \in DOMAIN SystemsOf(P)[i] : x = SystemsOf(P)[i][c]
      BY <1>21, <2>1 DEF In
    <3> QED
      BY <1>22, <3>1
  <2>2. ASSUME x \in Registered PROVE In(x, SystemsOf(P))
    <3> DEFINE g == <<Label(x), level[x]>>
    <3>1. g \in groups /\ x \in same(g)
      BY <1>6, <2>2
    <3> HIDE DEF g
    <3>2. PICK m \in 1 .. K : group(m) = g
      BY <1>11, <3>1
    <3>3. In(x, parts(g))
      BY <1>14, <3>1
    <3>4. PICK n \in DOMAIN parts(g) : \E c \in DOMAIN parts(g)[n] : x = parts(g)[n][c]
      BY <3>3 DEF In
    <3>5. PICK i \in 1 .. Len(P) : row[i] = m /\ col[i] = n
      BY <1>20, <3>2, <3>4
    <3>6. SystemsOf(P)[i] = parts(g)[n]
      BY <1>19, <1>21, <3>2, <3>5 DEF G
    <3> QED
      BY <1>21, <3>4, <3>6 DEF In
  <2> QED
    BY <2>1, <2>2
<1>25. Holds(P, Registered)
  BY <1>17, <1>21, <1>23, <1>24 DEF Holds, Apart, T
<1>26. ASSUME NEW i \in 1 .. Len(P)
       PROVE  /\ 1 \in DOMAIN P[i].systems
              /\ P[i].label = Label(P[i].systems[1])
              /\ G(i) = <<P[i].label, level[P[i].systems[1]]>>
              /\ \A c \in DOMAIN P[i].systems :
                    G(i) = <<Label(P[i].systems[c]), level[P[i].systems[c]]>>
  <2>1. 1 \in DOMAIN P[i].systems /\ P[i].label = Label(P[i].systems[1])
    <3>1. /\ col[i] \in DOMAIN parts(G(i)) /\ P[i].systems = parts(G(i))[col[i]]
          /\ P[i].label = Label(P[i].systems[1])
      BY <1>19
    <3>2. \A n \in DOMAIN parts(G(i)) : 1 \in DOMAIN parts(G(i))[n]
      BY <1>14
    <3> QED
      BY <3>1, <3>2
  <2>2. \A c \in DOMAIN P[i].systems :
           G(i) = <<Label(P[i].systems[c]), level[P[i].systems[c]]>>
    BY <1>21, <1>22
  <2> QED
    BY <2>1, <2>2
<1>27. ASSUME NEW i \in 1 .. Len(P), NEW j \in 1 .. Len(P), i < j
       PROVE  ~PlacedBefore(P[j].label, level[P[j].systems[1]],
                            P[i].label, level[P[i].systems[1]])
  <2>1. /\ row[i] \in 1 .. K /\ row[i] \in Nat /\ G(i) \in groups
        /\ row[j] \in 1 .. K /\ row[j] \in Nat /\ G(j) \in groups
    BY <1>19
  <2>2. row[i] <= row[j]
    <3>1. row[i] < row[j] \/ row[i] = row[j]
      BY <1>20, <1>27
    <3> QED
      BY <2>1, <3>1
  <2>3. Cardinality(before(G(i))) = row[i] - 1 /\ Cardinality(before(G(j))) = row[j] - 1
    BY <1>10, <2>1 DEF G
  <2>4. ~(Cardinality(before(G(j))) < Cardinality(before(G(i))))
    BY <2>1, <2>2, <2>3
  <2>5. ~PlacedBefore(G(j)[1], G(j)[2], G(i)[1], G(i)[2])
    BY <1>9, <2>1, <2>4
  <2>6. /\ G(i)[1] = P[i].label /\ G(i)[2] = level[P[i].systems[1]]
        /\ G(j)[1] = P[j].label /\ G(j)[2] = level[P[j].systems[1]]
    BY <1>26
  <2> QED
    BY <2>5, <2>6
<1>28. Levelled(P, level)
  <2>1. \A i \in 1 .. Len(P) : \A c \in DOMAIN P[i].systems :
           /\ P[i].label = Label(P[i].systems[c])
           /\ level[P[i].systems[1]] = level[P[i].systems[c]]
    BY <1>26
  <2> QED
    BY <1>17, <1>26, <1>27, <2>1 DEF Levelled
<1> QED
  BY <1>25, <1>28 DEF P, level

\* No later stage is of an earlier label, and of two systems of one label an edge
\* leads to the later stage.
InTurn(stages, E) ==
  /\ \A i \in DOMAIN stages :
        /\ stages[i].label \in Nat
        /\ \A c \in DOMAIN stages[i].systems : stages[i].label = Label(stages[i].systems[c])
  /\ \A i, j \in DOMAIN stages :
        i < j => ~EarlierLabel(stages[j].label, stages[i].label)
  /\ \A i, j \in DOMAIN stages :
        \A c \in DOMAIN stages[i].systems : \A d \in DOMAIN stages[j].systems :
           /\ <<stages[i].systems[c], stages[j].systems[d]>> \in E
           /\ stages[i].label = stages[j].label
           => i < j

\* A label that is earlier at level 0 is earlier at any level.
LEMMA EarlierPlaced ==
  ASSUME stageOrder \in Seq(Nat), NEW x \in Nat, NEW y \in Nat, NEW k \in Nat, NEW m \in Nat,
         EarlierLabel(x, y)
  PROVE  PlacedBefore(x, k, y, m)
<1>1. \A l, n \in Nat : Key(l, n) \in Nat \X Nat \X Nat
  BY KeyFacts
<1>2. Lower(Key(x, k), Key(y, m)) <=> PlacedBefore(x, k, y, m)
  BY PlacedByKey
<1>3. CASE stageOrder = <<>>
  <2>1. Key(x, k)[1] = Priority(x) /\ Key(y, m)[1] = Priority(y)
    BY <1>3 DEF Key
  <2>2. Priority(x) < Priority(y)
    BY <1>3 DEF EarlierLabel
  <2> QED
    BY <1>1, <1>2, <2>1, <2>2, LowerFacts
<1>4. CASE stageOrder # <<>>
  <2>1. Lower(Key(x, 0), Key(y, 0))
    BY <1>4, PlacedByKey DEF EarlierLabel
  <2>2. CASE x = y
    <3>1. Key(x, 0) \in Nat \X Nat \X Nat
      BY <1>1
    <3> DEFINE q == Key(x, 0)
    <3> HIDE DEF q
    <3>2. q \in Nat \X Nat \X Nat /\ Lower(q, q)
      BY <2>1, <2>2, <3>1 DEF q
    <3>3. q[1] \in Nat /\ q[2] \in Nat /\ q[3] \in Nat
      BY <3>2
    <3> QED
      BY <3>2, <3>3, LowerFacts
  <2>3. CASE x # y
    <3>1. \A l, n : Key(l, n) = IF PlaceOf(l) > 0 THEN <<0, PlaceOf(l), n>> ELSE <<1, l, n>>
      BY <1>4 DEF Key
    <3>2. \A l, n : Key(l, n)[1] = Key(l, 0)[1] /\ Key(l, n)[2] = Key(l, 0)[2]
                   /\ Key(l, n)[3] = n
      BY <3>1
    <3>3. \A n \in Nat : \A o \in Nat :
             Lower(Key(x, n), Key(y, o))
                <=> \/ Key(x, 0)[1] < Key(y, 0)[1]
                    \/ Key(x, 0)[1] = Key(y, 0)[1] /\ Key(x, 0)[2] < Key(y, 0)[2]
                    \/ Key(x, 0)[1] = Key(y, 0)[1] /\ Key(x, 0)[2] = Key(y, 0)[2] /\ n < o
      <4> SUFFICES ASSUME NEW n \in Nat, NEW o \in Nat
                   PROVE  Lower(Key(x, n), Key(y, o))
                            <=> \/ Key(x, 0)[1] < Key(y, 0)[1]
                                \/ Key(x, 0)[1] = Key(y, 0)[1] /\ Key(x, 0)[2] < Key(y, 0)[2]
                                \/ Key(x, 0)[1] = Key(y, 0)[1] /\ Key(x, 0)[2] = Key(y, 0)[2] /\ n < o
        OBVIOUS
      <4>1. Key(x, n) \in Nat \X Nat \X Nat /\ Key(y, o) \in Nat \X Nat \X Nat
        BY <1>1
      <4>2. Lower(Key(x, n), Key(y, o))
               <=> \/ Key(x, n)[1] < Key(y, o)[1]
                   \/ Key(x, n)[1] = Key(y, o)[1] /\ Key(x, n)[2] < Key(y, o)[2]
                   \/ /\ Key(x, n)[1] = Key(y, o)[1] /\ Key(x, n)[2] = Key(y, o)[2]
                      /\ Key(x, n)[3] < Key(y, o)[3]
        BY <4>1, LowerFacts
      <4>3. /\ Key(x, n)[1] = Key(x, 0)[1] /\ Key(x, n)[2] = Key(x, 0)[2] /\ Key(x, n)[3] = n
            /\ Key(y, o)[1] = Key(y, 0)[1] /\ Key(y, o)[2] = Key(y, 0)[2] /\ Key(y, o)[3] = o
        BY <3>2
      <4> QED
        BY <4>2, <4>3
    <3>4. \/ Key(x, 0)[1] < Key(y, 0)[1]
          \/ Key(x, 0)[1] = Key(y, 0)[1] /\ Key(x, 0)[2] < Key(y, 0)[2]
      BY <2>1, <3>3
    <3> QED
      BY <1>2, <3>3, <3>4
  <2> QED
    BY <2>2, <2>3
<1> QED
  BY <1>3, <1>4

\* Of one label, what is at a lower level is placed before.
LEMMA LevelPlaced ==
  ASSUME stageOrder \in Seq(Nat), NEW x \in Nat, NEW k \in Nat, NEW m \in Nat, k < m
  PROVE  PlacedBefore(x, k, x, m)
<1>1. Key(x, k) \in Nat \X Nat \X Nat /\ Key(x, m) \in Nat \X Nat \X Nat
  BY KeyFacts
<1>2. \/ /\ Key(x, k)[1] = Key(x, m)[1] /\ Key(x, k)[2] = Key(x, m)[2]
         /\ Key(x, k)[3] = k /\ Key(x, m)[3] = m
      \/ /\ Key(x, k)[1] = Key(x, m)[1]
         /\ Key(x, k)[2] = k /\ Key(x, m)[2] = m
  BY DEF Key
<1>3. Lower(Key(x, k), Key(x, m))
  BY <1>1, <1>2, LowerFacts
<1> QED
  BY <1>3, PlacedByKey

LEMMA LevelledInTurn ==
  ASSUME systems \in Seq(Names), stageOrder \in Seq(Nat), NEW stages,
         NEW E \in SUBSET ((Registered \cup {Barrier}) \X (Registered \cup {Barrier})),
         ~Cyclic(E), Holds(stages, Registered), Levelled(stages, LevelIn(E))
  PROVE  InTurn(stages, E)
<1> DEFINE level == LevelIn(E)
           Sys(i) == stages[i].systems
<1>1. Registered \subseteq Names /\ IsFiniteSet(Registered)
  BY RegisteredFinite DEF Registered, ToSet
<1>2. \A s \in Registered : Label(s) \in Nat /\ level[s] \in Nat
  <2>1. \A s \in Registered : Label(s) \in Nat
    BY <1>1, ScheduleAssumption DEF Label
  <2>2. \A s \in Registered : level[s] \in Nat
    BY <1>1, LevelInFacts
  <2> QED
    BY <2>1, <2>2
<1>3. \A e \in E : level[e[1]] < level[e[2]]
  BY <1>1, LevelInFacts
<1> HIDE DEF level
<1>4. \A i \in DOMAIN stages : \A c \in DOMAIN Sys(i) : Sys(i)[c] \in Registered
  <2> SUFFICES ASSUME NEW i \in DOMAIN stages, NEW c \in DOMAIN Sys(i)
               PROVE  Sys(i)[c] \in Registered
    OBVIOUS
  <2>1. In(Sys(i)[c], SystemsOf(stages))
    BY DEF In, SystemsOf
  <2> QED
    BY <2>1 DEF Holds
<1>5. \A i \in DOMAIN stages :
         /\ 1 \in DOMAIN Sys(i)
         /\ \A c \in DOMAIN Sys(i) : /\ stages[i].label = Label(Sys(i)[c])
                                     /\ level[Sys(i)[1]] = level[Sys(i)[c]]
  BY DEF Levelled, level
<1>6. \A i, j \in DOMAIN stages :
         i < j => ~PlacedBefore(stages[j].label, level[Sys(j)[1]],
                                stages[i].label, level[Sys(i)[1]])
  BY DEF Levelled, level
<1>7. DOMAIN stages = 1 .. Len(stages) /\ Len(stages) \in Nat
  <2> DEFINE T == {Stage(q) : q \in Seq(Registered)}
  <2>1. stages \in Seq(T)
    BY DEF Holds
  <2> HIDE DEF T
  <2> QED
    BY <2>1, LenProperties
<1> HIDE DEF Sys
<1>8. \A i \in DOMAIN stages : stages[i].label \in Nat /\ level[Sys(i)[1]] \in Nat
  BY <1>2, <1>4, <1>5
<1>9. \A i, j \in DOMAIN stages : i < j => ~EarlierLabel(stages[j].label, stages[i].label)
  BY <1>6, <1>8, EarlierPlaced
<1>10. ASSUME NEW i \in DOMAIN stages, NEW j \in DOMAIN stages,
              NEW c \in DOMAIN Sys(i), NEW d \in DOMAIN Sys(j),
              <<Sys(i)[c], Sys(j)[d]>> \in E, stages[i].label = stages[j].label
       PROVE  i < j
  <2>1. level[Sys(i)[c]] < level[Sys(j)[d]]
    <3> DEFINE e == <<Sys(i)[c], Sys(j)[d]>>
    <3>1. e \in E /\ e[1] = Sys(i)[c] /\ e[2] = Sys(j)[d]
      BY <1>10
    <3> HIDE DEF e
    <3> QED
      BY <1>3, <3>1
  <2>2. level[Sys(i)[1]] < level[Sys(j)[1]]
    BY <1>5, <2>1
  <2>3. PlacedBefore(stages[i].label, level[Sys(i)[1]], stages[j].label, level[Sys(j)[1]])
    BY <1>8, <1>10, <2>2, LevelPlaced
  <2>4. ~(j < i)
    BY <1>6, <2>3
  <2>5. i # j
    BY <1>8, <2>2
  <2> QED
    BY <1>7, <2>4, <2>5
<1>11. \A i \in DOMAIN stages : \A c \in DOMAIN Sys(i) : stages[i].label = Label(Sys(i)[c])
  BY <1>5
<1> QED
  BY <1>8, <1>9, <1>10, <1>11 DEF InTurn, Sys

LEMMA EarlierKept ==
  ASSUME UNCHANGED stageOrder, NEW x, NEW y
  PROVE  EarlierLabel(x, y)' <=> EarlierLabel(x, y)
<1>1. Key(x, 0)' = Key(x, 0) /\ Key(y, 0)' = Key(y, 0)
  BY DEF Key, PlaceOf, Priority, SelectInSeq
<1>2. PlacedBefore(x, 0, y, 0) <=> Lower(Key(x, 0), Key(y, 0))
  BY PlacedByKey
<1>3. PlacedBefore(x, 0, y, 0)' <=> Lower(Key(x, 0), Key(y, 0))'
  BY DEF PlacedBefore, Lower, Key, PlaceOf
<1>4. Lower(Key(x, 0), Key(y, 0))' <=> Lower(Key(x, 0), Key(y, 0))
  BY <1>1 DEF Lower
<1> QED
  BY <1>2, <1>3, <1>4 DEF EarlierLabel, Priority

Held ==
  /\ RegistryTypes
  /\ edges \subseteq (Registered \cup {Barrier}) \X (Registered \cup {Barrier})
  /\ stageOrder \in Seq(Nat)
  /\ HasPlan => Holds(plan, Registered) /\ InTurn(plan, edges)

LEMMA HeldExact == Held => PlanExact
<1> SUFFICES ASSUME Held, HasPlan
             PROVE  /\ IsInjective(FlattenSeq(SystemsOf(plan)))
                    /\ ToSet(FlattenSeq(SystemsOf(plan))) = Registered
  BY DEF PlanExact, SystemsOf
<1> DEFINE T == {Stage(q) : q \in Seq(Registered)}
<1>1. plan \in Seq(T) /\ Apart(SystemsOf(plan))
      /\ \A x : In(x, SystemsOf(plan)) <=> x \in Registered
  BY DEF Held, Holds
<1>2. \A t \in T : t.systems \in Seq(Registered)
  BY DEF Stage
<1> HIDE DEF T
<1>3. SystemsOf(plan) \in Seq(Seq(Registered))
  <2>1. Len(plan) \in Nat /\ DOMAIN plan = 1 .. Len(plan)
        /\ \A i \in 1 .. Len(plan) : plan[i] \in T
    BY <1>1, LenProperties
  <2>2. SystemsOf(plan) = [i \in 1 .. Len(plan) |-> SystemsOf(plan)[i]]
        /\ \A i \in 1 .. Len(plan) : SystemsOf(plan)[i] \in Seq(Registered)
    BY <1>2, <2>1 DEF SystemsOf
  <2> QED
    BY <2>1, <2>2, Enumerated
<1> QED
  BY <1>1, <1>3, FlattenExact

LEMMA InitHeld == Init => Held
<1> SUFFICES ASSUME Init PROVE Held
  OBVIOUS
<1>1. RegistryTypes
  BY InitSafe DEF Safe
<1> QED
  BY <1>1, EmptySeq DEF Init, Held, HasPlan

\* A compile that finds no cycle makes a plan of all systems.
LEMMA CompileHeld ==
  ASSUME Held, Compile
  PROVE  Held'
<1> DEFINE N == Registered \cup {Barrier}
           E == IF dirty THEN NewEdges(Resolved) ELSE edges
<1>1. /\ RegistryTypes /\ edges \subseteq N \X N /\ stageOrder \in Seq(Nat)
      /\ systems \in Seq(Names) /\ ~HasPlan
  BY DEF Held, RegistryTypes, Compile
<1>2. UNCHANGED <<systems, stageOrder>> /\ Registered' = Registered
  BY DEF Compile, Registered
<1>3. RegistryTypes'
  BY <1>1, CompileTypes
<1>4. CASE dirty /\ Unknown # {}
  <2>1. outcome' = "missing" /\ edges' = edges
    BY <1>4 DEF Compile
  <2> QED
    BY <1>1, <1>2, <1>3, <2>1 DEF Held, HasPlan
<1>5. CASE ~(dirty /\ Unknown # {})
  <2>1. /\ edges' = E
        /\ \/ Cyclic(E) /\ outcome' = "cycle"
           \/ /\ ~Cyclic(E)
              /\ \E sorted \in SetToSeqs(Registered) : plan' = Stages(E, Resolved, sorted)
    BY <1>5 DEF Compile
  <2>2. E \in SUBSET (N \X N)
    <3>1. NewEdges(Resolved) \subseteq N \X N
      BY <1>1, ResolvedFacts, NewEdgesTyped
    <3> QED
      BY <1>1, <3>1
  <2> HIDE DEF E, N
  <2>3. CASE Cyclic(E)
    <3>1. outcome' = "cycle" /\ edges' \subseteq N \X N
      BY <2>1, <2>2, <2>3
    <3> QED
      BY <1>1, <1>2, <1>3, <3>1 DEF Held, HasPlan, N
  <2>4. CASE ~Cyclic(E)
    <3>1. PICK sorted \in SetToSeqs(Registered) : plan' = Stages(E, Resolved, sorted)
      BY <2>1, <2>4
    <3>2. Holds(plan', Registered) /\ InTurn(plan', E)
      BY <1>1, <2>2, <2>4, <3>1, StagesHold, LevelledInTurn DEF N
    <3>3. edges' \subseteq N \X N
      BY <2>1, <2>2
    <3>4. Holds(plan, Registered)'
      BY <1>2, <3>2 DEF Holds, SystemsOf, Apart, In, Stage, Label
    <3>5. InTurn(plan, edges)'
      <4>1. \A x, y : EarlierLabel(x, y)' <=> EarlierLabel(x, y)
        BY <1>2, EarlierKept
      <4> QED
        BY <2>1, <3>2, <4>1 DEF InTurn, Label
    <3> QED
      BY <1>1, <1>2, <1>3, <3>3, <3>4, <3>5 DEF Held, N
  <2> QED
    BY <2>3, <2>4
<1> QED
  BY <1>4, <1>5

LEMMA NextHeld ==
  ASSUME Held, [Next]_vars
  PROVE  Held'
<1> DEFINE N == Registered \cup {Barrier}
<1>1. /\ RegistryTypes /\ edges \subseteq N \X N /\ stageOrder \in Seq(Nat)
      /\ HasPlan => Holds(plan, Registered) /\ InTurn(plan, edges)
  BY DEF Held
<1>2. ASSUME UNCHANGED <<registry, compiled>> PROVE Held'
  <2>1. UNCHANGED <<systems, explicit, pending, stageOrder, edges, dirty, plan, outcome>>
    BY <1>2 DEF registry, compiled
  <2>2. RegistryTypes' /\ Registered' = Registered /\ HasPlan' = HasPlan
    BY <1>1, <2>1 DEF RegistryTypes, Registered, HasPlan
  <2>3. Holds(plan, Registered) => Holds(plan, Registered)'
    BY <2>1, <2>2 DEF Holds, SystemsOf, Apart, In, Stage, Label
  <2>4. InTurn(plan, edges) => InTurn(plan, edges)'
    <3>1. \A x, y : EarlierLabel(x, y)' <=> EarlierLabel(x, y)
      BY <2>1, EarlierKept
    <3> QED
      BY <2>1, <3>1 DEF InTurn, Label
  <2> QED
    BY <1>1, <2>1, <2>2, <2>3, <2>4 DEF Held
<1>3. ASSUME NEW s \in Names, Register(s) PROVE Held'
  <2>1. RegistryTypes' /\ Registered' = Registered \cup {s}
    BY <1>1, <1>3, RegisterFacts
  <2> QED
    BY <1>1, <1>3, <2>1 DEF Register, Invalidate, Held, HasPlan
<1>4. ASSUME NEW a \in Registered, NEW b \in Registered, Order(a, b) PROVE Held'
  <2>1. RegistryTypes'
    BY <1>1, <1>4, OrderTypes
  <2> QED
    BY <1>1, <1>4, <2>1 DEF Order, Invalidate, Held, HasPlan, Registered
<1>5. ASSUME systems # <<>>, NEW other \in Forward,
             Declare(Last(systems), Last(systems), other)
             \/ Declare(Last(systems), other, Last(systems))
      PROVE  Held'
  <2>1. Last(systems) \in Names /\ Last(systems) \in Known /\ other \in Known
    <3>1. Len(systems) \in Nat /\ Len(systems) # 0 /\ systems \in Seq(Names)
      BY <1>1, <1>5, EmptySeq DEF RegistryTypes
    <3>2. Len(systems) \in 1 .. Len(systems)
      BY <3>1
    <3>3. systems[Len(systems)] \in Names
      BY <3>1, <3>2, ElementOfSeq
    <3> QED
      BY <3>3 DEF Last, Known
  <2>2. RegistryTypes'
    BY <1>1, <1>5, <2>1, DeclareTypes
  <2> QED
    BY <1>1, <1>5, <2>2 DEF Declare, Invalidate, Held, HasPlan, Registered
<1>6. ASSUME NEW s \in Registered, RemoveSystem(s) PROVE Held'
  <2>1. RegistryTypes'
    BY <1>1, <1>6, RemoveSystemTypes
  <2> QED
    BY <1>1, <1>6, <2>1 DEF RemoveSystem, Invalidate, Held, HasPlan
<1>7. ASSUME NEW order \in Orders, ConfigureStages(order) PROVE Held'
  <2>1. order \in Seq(Nat)
    BY ScheduleAssumption
  <2>2. RegistryTypes'
    BY <1>1, <1>7 DEF ConfigureStages, RegistryTypes, Registered
  <2> QED
    BY <1>1, <1>7, <2>1, <2>2 DEF ConfigureStages, Invalidate, Held, HasPlan, Registered
<1>8. ASSUME NEW b \in EventOrders, EnableEventOrdering(b) PROVE Held'
  <2>1. RegistryTypes'
    BY <1>1, <1>8 DEF EnableEventOrdering, RegistryTypes, Registered
  <2> QED
    BY <1>1, <1>8, <2>1 DEF EnableEventOrdering, Invalidate, Held, HasPlan, Registered
<1>9. ASSUME Compile PROVE Held'
  BY <1>9, CompileHeld
<1>10. ASSUME NEW steps \in 0 .. MaxSteps, BeginFrame(steps) PROVE Held'
  BY <1>2, <1>10 DEF BeginFrame
<1>11. ASSUME SkipStage PROVE Held'
  BY <1>2, <1>11 DEF SkipStage
<1>12. ASSUME NEW holding \in SUBSET Members, NEW how \in {"sequential", "parallel"},
              OpenStage(holding, how)
       PROVE  Held'
  BY <1>2, <1>12 DEF OpenStage
<1>13. ASSUME NEW s \in enabled, Start(s) \/ Finish(s) PROVE Held'
  BY <1>2, <1>13 DEF Start, Finish
<1>14. ASSUME CloseStage PROVE Held'
  BY <1>2, <1>14 DEF CloseStage
<1>15. ASSUME EndFrame PROVE Held'
  BY <1>2, <1>15 DEF EndFrame
<1>16. ASSUME UNCHANGED vars PROVE Held'
  BY <1>2, <1>16 DEF vars
<1> QED
  BY <1>3, <1>4, <1>5, <1>6, <1>7, <1>8, <1>9, <1>10, <1>11, <1>12, <1>13, <1>14,
     <1>15, <1>16 DEF Next

\* A compiled plan holds every registered system once and nothing else: numbering
\* the groups of systems by how many go before them misses none and gives no
\* number twice, whatever labels are configured, and cutting a group at its apply
\* boundaries loses no system.  It needs no assumption on how systems are
\* registered, ordered or removed.
THEOREM PlanHoldsEveryone == Spec => []PlanExact
<1>1. Held /\ [Next]_vars => Held'
  BY NextHeld
<1> QED
  BY <1>1, InitHeld, HeldExact, PTL DEF Spec

-----------------------------------------------------------------------------
(* The stages of a frame.                                                  *)

FixedPlaces == {i \in DOMAIN plan : plan[i].label = FixedUpdate}
Block       == Among([i \in DOMAIN plan |-> i], FixedPlaces)
From        == IF FixedPlaces = {} THEN Len(plan) + 1 ELSE Min(FixedPlaces)

\* The FixedUpdate stages of the plan stand together.
Together ==
  \A i, k \in FixedPlaces : \A j \in DOMAIN plan : i < j /\ j < k => j \in FixedPlaces

\* The block is the FixedUpdate stages, from the first to the last.
LEMMA BlockFacts ==
  ASSUME NEW T, plan \in Seq(T), Together
  PROVE  /\ Block \in Seq(FixedPlaces) /\ Len(Block) \in Nat
         /\ From \in 1 .. (Len(plan) + 1) /\ From + Len(Block) <= Len(plan) + 1
         /\ FixedPlaces = From .. (From + Len(Block) - 1)
         /\ \A c \in 1 .. Len(Block) : Block[c] \in FixedPlaces
         /\ \A c, d \in 1 .. Len(Block) : c < d => Block[c] < Block[d]
         /\ \A i \in FixedPlaces : \E c \in 1 .. Len(Block) : Block[c] = i
<1> DEFINE n == Len(plan)
           F == FixedPlaces
           B == Len(Block)
           places == [i \in DOMAIN plan |-> i]
<1>1. n \in Nat /\ DOMAIN plan = 1 .. n
  BY LenProperties
<1>2. F \subseteq 1 .. n
  BY <1>1 DEF FixedPlaces
<1>3. places \in Seq(1 .. n) /\ \A i \in 1 .. n : places[i] = i
  BY <1>1, Enumerated
<1>4. Len(places) = n
  BY <1>1, <1>3, LenProperties
<1>5. Block = Among(places, F)
  BY DEF Block
<1> HIDE DEF places, F
<1>6. Block \in Seq(F) /\ B \in Nat /\ DOMAIN Block = 1 .. B
  <2>1. Block \in Seq((1 .. n) \cap F)
    BY <1>3, <1>5, AmongFacts
  <2>2. (1 .. n) \cap F = F
    BY <1>2
  <2>3. Block \in Seq(F)
    BY <2>1, <2>2
  <2> QED
    BY <2>3, LenProperties
<1>7. PICK place : Picks(Block, places, n, F, place)
  BY <1>3, <1>4, <1>5, AmongPlaces
<1>8. /\ \A c \in 1 .. B : Block[c] \in F
      /\ \A c, d \in 1 .. B : c < d => Block[c] < Block[d]
      /\ \A i \in F : \E c \in 1 .. B : Block[c] = i
  <2>1. /\ \A c \in 1 .. B : place[c] \in 1 .. n /\ Block[c] = places[place[c]]
        /\ \A c, d \in 1 .. B : c < d => place[c] < place[d]
        /\ \A p \in 1 .. n : places[p] \in F => \E c \in 1 .. B : place[c] = p
    BY <1>7 DEF Picks
  <2>2. \A c \in 1 .. B : Block[c] = place[c]
    BY <1>3, <2>1
  <2>3. \A c \in 1 .. B : Block[c] \in F
    BY <1>6, ElementOfSeq
  <2>4. \A i \in F : \E c \in 1 .. B : place[c] = i
    BY <1>2, <1>3, <2>1
  <2> QED
    BY <2>1, <2>2, <2>3, <2>4
<1>9. /\ From \in 1 .. (n + 1) /\ From + B <= n + 1
      /\ F = From .. (From + B - 1)
  <2>1. CASE F = {}
    <3>1. B = 0
      <4>1. 1 \notin 1 .. B
        BY <1>8, <2>1
      <4> QED
        BY <1>6, <4>1
    <3>2. From = n + 1
      BY <2>1 DEF From, F
    <3>3. F = From .. (From + B - 1)
      BY <1>1, <2>1, <3>1, <3>2
    <3> QED
      BY <1>1, <3>1, <3>2, <3>3
  <2>2. CASE F # {}
    <3> DEFINE lo == Min(F)
               hi == Max(F)
    <3>1. F \subseteq Nat /\ IsFiniteSet(F)
      <4>1. 1 \in Int /\ n \in Int /\ \A i \in 1 .. n : i \in Nat
        BY <1>1
      <4>2. IsFiniteSet(1 .. n)
        BY <4>1, FS_Interval
      <4> HIDE DEF n
      <4> QED
        BY <1>2, <4>1, <4>2, FS_Subset
    <3>2. lo \in F /\ \A y \in F : lo <= y
      BY <2>2, <3>1, Least
    <3>3. hi \in F /\ \A y \in F : hi >= y
      BY <2>2, <3>1, Greatest
    <3>4. From = lo
      BY <2>2 DEF From, F
    <3> HIDE DEF lo, hi
    <3>5. lo \in 1 .. n /\ hi \in 1 .. n /\ lo <= hi
      BY <1>2, <3>2, <3>3
    <3>6. F = lo .. hi
      <4>1. ASSUME NEW j \in lo .. hi PROVE j \in F
        <5>1. j \in 1 .. n
          BY <1>1, <3>5
        <5>2. j = lo \/ j = hi \/ (lo < j /\ j < hi)
          BY <3>5
        <5> QED
          BY <1>1, <3>2, <3>3, <5>1, <5>2 DEF Together, F
      <4>2. \A j \in F : j \in lo .. hi
        BY <1>2, <3>2, <3>3, <3>5
      <4> QED
        BY <4>1, <4>2
    <3>7. IsFiniteSet(F) /\ Cardinality(F) = hi - lo + 1
      <4>1. lo \in Int /\ hi \in Int /\ ~(lo > hi)
        BY <3>5
      <4>2. IsFiniteSet(lo .. hi) /\ Cardinality(lo .. hi) = IF lo > hi THEN 0 ELSE hi - lo + 1
        BY <4>1, FS_Interval
      <4> QED
        BY <3>6, <4>1, <4>2
    <3>8. Block \in Surjection(1 .. B, F) /\ Block \in Injection(1 .. B, F)
      <4>1. Block \in [1 .. B -> F]
        BY <1>6, <1>8, SeqDef
      <4>2. ASSUME NEW c \in 1 .. B, NEW d \in 1 .. B, Block[c] = Block[d] PROVE c = d
        <5>1. Block[c] \in Nat /\ Block[d] \in Nat
          BY <1>8, <3>1
        <5>2. ~(c < d) /\ ~(d < c)
          BY <1>8, <4>2, <5>1
        <5> QED
          BY <5>2
      <4> QED
        BY <1>8, <4>1, <4>2 DEF Surjection, Injection, IsInjective
    <3>9. Cardinality(1 .. B) = B /\ IsFiniteSet(1 .. B)
      <4>1. 1 \in Int /\ B \in Int /\ B \in Nat
        BY <1>6
      <4> HIDE DEF B
      <4>2. IsFiniteSet(1 .. B) /\ Cardinality(1 .. B) = IF 1 > B THEN 0 ELSE B - 1 + 1
        BY <4>1, FS_Interval
      <4> QED
        BY <4>1, <4>2
    <3>10. Cardinality(F) = B
      BY <3>8, <3>9, FS_Surjection
    <3>11. B = hi - lo + 1 /\ lo + B - 1 = hi /\ lo + B <= n + 1
      BY <3>5, <3>7, <3>10
    <3> QED
      BY <3>4, <3>5, <3>6, <3>11
  <2> QED
    BY <2>1, <2>2
<1> QED
  BY <1>6, <1>8, <1>9 DEF F

\* A schedule goes over the plan in laps: the l-th visit of a stage is in one of
\* the laps the stage has, the laps come one after another, and in a lap the
\* stages keep the order of the plan.
Visits(sched, lap, laps) ==
  /\ \A j \in 1 .. Len(sched) :
        sched[j] \in DOMAIN plan /\ lap[j] \in Nat /\ lap[j] \in laps[sched[j]]
  /\ \A i, j \in 1 .. Len(sched) :
        i < j => lap[i] < lap[j] \/ (lap[i] = lap[j] /\ sched[i] < sched[j])
  /\ \A a \in DOMAIN plan : \A l \in laps[a] :
        \E j \in 1 .. Len(sched) : sched[j] = a /\ lap[j] = l

\* Only FixedUpdate stages come again, and two stages on one side of them, or both
\* among them, have the same laps.
FixedLaps(sched, laps) ==
  /\ \A i, j \in 1 .. Len(sched) :
        i < j => sched[i] <= sched[j] \/ {sched[i], sched[j]} \subseteq FixedPlaces
  /\ \A a, b \in DOMAIN plan :
        a <= b => \/ laps[a] = laps[b]
                  \/ a \in FixedPlaces /\ b \notin FixedPlaces
                  \/ a \notin FixedPlaces /\ b \in FixedPlaces
                  \/ a \notin FixedPlaces /\ \E f \in FixedPlaces : a < f /\ f < b

LEMMA FrameLaps ==
  ASSUME NEW T, plan \in Seq(T), NEW steps \in Nat, Together
  PROVE  /\ Frame(steps) \in Seq(DOMAIN plan)
         /\ \E lap, laps : Visits(Frame(steps), lap, laps) /\ FixedLaps(Frame(steps), laps)
<1> DEFINE n      == Len(plan)
           F      == FixedPlaces
           B      == Len(Block)
           o      == From - 1
           before == [i \in 1 .. (From - 1) |-> i]
           after  == [i \in 1 .. (Len(plan) - Len(before) - Len(Block)) |->
                         i + Len(before) + Len(Block)]
           times  == [i \in 1 .. steps |-> Block]
           flat   == FlattenSeq(times)
           m      == Len(flat)
           k      == n - o - B
           sched  == Frame(steps)
<1>1. n \in Nat /\ DOMAIN plan = 1 .. n
  BY LenProperties
<1>2. sched = (before \o flat) \o after
  BY DEF Frame, FixedPlaces, Block, From
<1>3. /\ Block \in Seq(F) /\ B \in Nat /\ o \in Nat /\ o + B <= n
      /\ F = (o + 1) .. (o + B)
      /\ \A c \in 1 .. B : Block[c] \in F
      /\ \A c, d \in 1 .. B : c < d => Block[c] < Block[d]
      /\ \A i \in F : \E c \in 1 .. B : Block[c] = i
  <2>1. /\ Block \in Seq(F) /\ B \in Nat
        /\ From \in 1 .. (n + 1) /\ From + B <= n + 1
        /\ F = From .. (From + B - 1)
        /\ \A c \in 1 .. B : Block[c] \in F
        /\ \A c, d \in 1 .. B : c < d => Block[c] < Block[d]
        /\ \A i \in F : \E c \in 1 .. B : Block[c] = i
    BY BlockFacts
  <2> HIDE DEF n, F, B
  <2>2. o \in Nat /\ o + B <= n /\ From = o + 1 /\ From + B - 1 = o + B
    BY <1>1, <2>1
  <2> QED
    BY <2>1, <2>2
<1> HIDE DEF F, B, o
<1>4. before \in Seq(Nat) /\ Len(before) = o /\ \A i \in 1 .. o : before[i] = i
  <2>1. before = [i \in 1 .. o |-> i]
    BY DEF o
  <2> HIDE DEF before
  <2>2. before \in Seq(Nat) /\ DOMAIN before = 1 .. o /\ \A i \in 1 .. o : before[i] = i
    <3>1. DOMAIN before = 1 .. o /\ \A i \in 1 .. o : before[i] = i /\ before[i] \in Nat
      BY <1>3, <2>1
    <3>2. before = [i \in 1 .. o |-> before[i]] /\ o \in Int
      BY <1>3, <2>1
    <3>3. before \in Seq(Nat)
      BY <3>1, <3>2, Enumerated
    <3> QED
      BY <3>1, <3>3
  <2>3. Len(before) = o
    BY <1>3, <2>2, LenProperties
  <2> QED
    BY <2>2, <2>3
<1> HIDE DEF before
<1>5. after \in Seq(Nat) /\ Len(after) = k /\ k \in Nat
      /\ \A i \in 1 .. k : after[i] = i + o + B
  <2>1. after = [i \in 1 .. k |-> i + o + B]
    BY <1>4 DEF B
  <2>2. k \in Nat
    BY <1>1, <1>3
  <2> HIDE DEF after, k
  <2>3. after \in Seq(Nat) /\ DOMAIN after = 1 .. k /\ \A i \in 1 .. k : after[i] = i + o + B
    <3>1. DOMAIN after = 1 .. k /\ \A i \in 1 .. k : after[i] = i + o + B /\ after[i] \in Nat
      BY <1>3, <2>1, <2>2
    <3>2. after = [i \in 1 .. k |-> after[i]] /\ k \in Int
      BY <2>1, <2>2
    <3>3. after \in Seq(Nat)
      BY <3>1, <3>2, Enumerated
    <3> QED
      BY <3>1, <3>3
  <2>4. Len(after) = k
    BY <2>2, <2>3, LenProperties
  <2> QED
    BY <2>2, <2>3, <2>4
<1> HIDE DEF after
<1>6. times \in Seq(Seq(Nat)) /\ Len(times) = steps /\ \A i \in 1 .. steps : times[i] = Block
  <2>1. Block \in Seq(Nat)
    <3>1. F \subseteq Nat
      BY <1>3
    <3> QED
      BY <1>3, <3>1
  <2>2. times \in Seq(Seq(Nat)) /\ DOMAIN times = 1 .. steps
    BY <2>1, Enumerated
  <2>3. Len(times) = steps
    BY <2>2, LenProperties
  <2> QED
    BY <2>2, <2>3
<1> HIDE DEF times
<1>7. PICK row, col : Rows(flat, times, steps, row, col)
  BY <1>6, FlattenPlaces
<1>8. flat \in Seq(Nat) /\ m \in Nat
  BY <1>6, FlattenFacts, LenProperties
<1> HIDE DEF flat
<1>9. /\ \A i \in 1 .. m : /\ row[i] \in 1 .. steps /\ col[i] \in 1 .. B /\ flat[i] = Block[col[i]]
                           /\ flat[i] \in F
      /\ \A i, j \in 1 .. m : i < j => row[i] < row[j] \/ (row[i] = row[j] /\ col[i] < col[j])
      /\ \A l \in 1 .. steps : \A c \in 1 .. B : \E i \in 1 .. m : row[i] = l /\ col[i] = c
  <2>1. /\ \A i \in 1 .. m : row[i] \in 1 .. steps /\ col[i] \in 1 .. Len(times[row[i]])
                             /\ flat[i] = times[row[i]][col[i]]
        /\ \A i, j \in 1 .. m : i < j => row[i] < row[j] \/ (row[i] = row[j] /\ col[i] < col[j])
        /\ \A l \in 1 .. steps : \A c \in 1 .. Len(times[l]) :
              \E i \in 1 .. m : row[i] = l /\ col[i] = c
    BY <1>7 DEF Rows
  <2>2. \A l \in 1 .. steps : times[l] = Block /\ Len(times[l]) = B
    BY <1>6 DEF B
  <2>3. \A i \in 1 .. m : row[i] \in 1 .. steps /\ col[i] \in 1 .. B /\ flat[i] = Block[col[i]]
    BY <2>1, <2>2
  <2> QED
    BY <1>3, <2>1, <2>2, <2>3
<1> DEFINE last == IF steps = 0 THEN 1 ELSE steps
           lap  == [j \in 1 .. (o + m + k) |->
                      IF j <= o THEN 1 ELSE IF j <= o + m THEN row[j - o] ELSE last]
           laps == [a \in 1 .. n |-> IF a \in F THEN 1 .. steps
                                     ELSE IF a <= o THEN {1} ELSE {last}]
<1> HIDE DEF m, k
<1>10. /\ Len(sched) = o + m + k
       /\ \A j \in 1 .. (o + m + k) :
             sched[j] = IF j <= o THEN j ELSE IF j <= o + m THEN flat[j - o] ELSE j - m + B
  <2> DEFINE front == before \o flat
  <2>1. /\ front \in Seq(Nat) /\ Len(front) = o + m
        /\ \A j \in 1 .. (o + m) : front[j] = IF j <= o THEN before[j] ELSE flat[j - o]
    BY <1>4, <1>8, ConcatProperties DEF m
  <2> HIDE DEF front
  <2>2. sched = front \o after
    BY <1>2 DEF front
  <2> HIDE DEF sched
  <2>3. /\ Len(sched) = o + m + k
        /\ \A j \in 1 .. (o + m + k) :
              sched[j] = IF j <= o + m THEN front[j] ELSE after[j - (o + m)]
    <3>1. /\ Len(front \o after) = Len(front) + Len(after)
          /\ \A j \in 1 .. (Len(front) + Len(after)) :
                (front \o after)[j] = IF j <= Len(front) THEN front[j] ELSE after[j - Len(front)]
      BY <1>5, <2>1, ConcatProperties
    <3>2. Len(front) = o + m /\ Len(after) = k
      BY <1>5, <2>1
    <3> QED
      BY <2>2, <3>1, <3>2
  <2>4. ASSUME NEW j \in 1 .. (o + m + k)
        PROVE  sched[j] = IF j <= o THEN j ELSE IF j <= o + m THEN flat[j - o] ELSE j - m + B
    <3>1. CASE j <= o
      <4>1. j \in 1 .. o /\ j \in 1 .. (o + m) /\ j <= o + m
        BY <1>3, <1>5, <1>8, <3>1 DEF m
      <4> QED
        BY <1>4, <2>1, <2>3, <3>1, <4>1
    <3>2. CASE ~(j <= o) /\ j <= o + m
      <4>1. j \in 1 .. (o + m)
        BY <1>3, <1>5, <1>8, <3>2 DEF m
      <4> QED
        BY <2>1, <2>3, <3>2, <4>1
    <3>3. CASE ~(j <= o) /\ ~(j <= o + m)
      <4>1. j - (o + m) \in 1 .. k /\ j - (o + m) + o + B = j - m + B
        BY <1>3, <1>5, <1>8, <3>3 DEF m
      <4> QED
        BY <1>5, <2>3, <3>3, <4>1
    <3> QED
      BY <3>1, <3>2, <3>3
  <2> QED
    BY <2>3, <2>4
<1> HIDE DEF sched
<1>11. m \in Nat /\ k \in Nat /\ k = n - o - B
  BY <1>5, <1>8 DEF m, k
<1> DEFINE J == 1 .. (o + m + k)
           first(j)  == j \in 1 .. o
           middle(j) == j \in J /\ o < j /\ j <= o + m
           third(j)  == j \in J /\ o + m < j
<1>12. last \in Nat /\ last >= 1 /\ last >= steps /\ (steps >= 1 => last = steps)
  BY DEF last
<1> HIDE DEF last
<1>13. \A j \in J : first(j) \/ middle(j) \/ third(j)
  BY <1>3, <1>11
<1>14. \A j : first(j) => /\ j \in J /\ sched[j] = j /\ lap[j] = 1
                          /\ j \in 1 .. n /\ j \notin F /\ laps[j] = {1}
  <2> SUFFICES ASSUME NEW j, first(j)
               PROVE  /\ j \in J /\ sched[j] = j /\ lap[j] = 1
                      /\ j \in 1 .. n /\ j \notin F /\ laps[j] = {1}
    OBVIOUS
  <2>1. j \in J /\ j <= o /\ j \in 1 .. n
    BY <1>1, <1>3, <1>11
  <2>2. j \notin F
    BY <1>3
  <2> QED
    BY <1>10, <2>1, <2>2
<1>15. \A j : middle(j) => /\ j - o \in 1 .. m /\ sched[j] = flat[j - o] /\ lap[j] = row[j - o]
                           /\ sched[j] \in F /\ sched[j] \in 1 .. n /\ o < sched[j] /\ sched[j] <= o + B
                           /\ lap[j] \in 1 .. steps /\ laps[sched[j]] = 1 .. steps /\ last = steps
  <2> SUFFICES ASSUME NEW j, middle(j)
               PROVE  /\ j - o \in 1 .. m /\ sched[j] = flat[j - o] /\ lap[j] = row[j - o]
                      /\ sched[j] \in F /\ sched[j] \in 1 .. n /\ o < sched[j] /\ sched[j] <= o + B
                      /\ lap[j] \in 1 .. steps /\ laps[sched[j]] = 1 .. steps /\ last = steps
    OBVIOUS
  <2>1. j \in J /\ ~(j <= o) /\ j <= o + m /\ j - o \in 1 .. m
    BY <1>3, <1>11
  <2>2. sched[j] = flat[j - o] /\ lap[j] = row[j - o]
    BY <1>10, <2>1
  <2>3. row[j - o] \in 1 .. steps /\ flat[j - o] \in F
    BY <1>9, <2>1
  <2>4. sched[j] \in F /\ sched[j] \in 1 .. n /\ o < sched[j] /\ sched[j] <= o + B
    BY <1>1, <1>3, <2>2, <2>3
  <2>5. steps >= 1
    BY <2>3
  <2> QED
    BY <1>12, <2>1, <2>2, <2>3, <2>4, <2>5
<1>16. \A j : third(j) => /\ sched[j] = j - m + B /\ lap[j] = last
                          /\ sched[j] \in 1 .. n /\ sched[j] > o + B /\ sched[j] \notin F
                          /\ laps[sched[j]] = {last}
  <2> SUFFICES ASSUME NEW j, third(j)
               PROVE  /\ sched[j] = j - m + B /\ lap[j] = last
                      /\ sched[j] \in 1 .. n /\ sched[j] > o + B /\ sched[j] \notin F
                      /\ laps[sched[j]] = {last}
    OBVIOUS
  <2>1. j \in J /\ ~(j <= o) /\ ~(j <= o + m)
    BY <1>3, <1>11
  <2>2. sched[j] = j - m + B /\ lap[j] = last
    BY <1>10, <2>1
  <2>3. j - m + B \in 1 .. n /\ j - m + B > o + B /\ ~(j - m + B <= o)
    BY <1>1, <1>3, <1>11, <2>1
  <2>4. j - m + B \notin F
    BY <1>3, <2>3
  <2> QED
    BY <2>2, <2>3, <2>4
<1> HIDE DEF first, middle, third, lap, laps, J
<1> DEFINE Fits(j) == sched[j] \in 1 .. n /\ lap[j] \in Nat /\ lap[j] \in laps[sched[j]]
<1>17. \A j \in J : Fits(j)
  <2> SUFFICES ASSUME NEW j \in J PROVE Fits(j)
    OBVIOUS
  <2>1. CASE first(j)
    BY <1>14, <2>1
  <2>2. CASE middle(j)
    BY <1>15, <2>2
  <2>3. CASE third(j)
    BY <1>12, <1>16, <2>3
  <2> QED
    BY <1>13, <2>1, <2>2, <2>3
<1>18. \A i, j \in J :
          i < j => /\ lap[i] < lap[j] \/ (lap[i] = lap[j] /\ sched[i] < sched[j])
                   /\ sched[i] <= sched[j] \/ {sched[i], sched[j]} \subseteq F
  <2> SUFFICES ASSUME NEW i \in J, NEW j \in J, i < j
               PROVE  /\ lap[i] < lap[j] \/ (lap[i] = lap[j] /\ sched[i] < sched[j])
                      /\ sched[i] <= sched[j] \/ {sched[i], sched[j]} \subseteq F
    OBVIOUS
  <2>0. /\ first(i) => i <= o
        /\ first(j) => j <= o /\ first(i)
        /\ middle(i) => o < i /\ i <= o + m
        /\ middle(j) => o < j /\ j <= o + m
        /\ third(i) => third(j)
        /\ i \in Nat /\ j \in Nat
    BY <1>3, <1>11 DEF first, middle, third, J
  <2>1. CASE first(i) /\ first(j)
    BY <1>14, <2>0, <2>1
  <2>2. CASE first(i) /\ middle(j)
    <3>1. sched[i] = i /\ lap[i] = 1 /\ i <= o
      BY <1>14, <2>0, <2>2
    <3>2. o < sched[j] /\ sched[j] \in 1 .. n /\ lap[j] \in 1 .. steps
      BY <1>15, <2>2
    <3> QED
      BY <1>1, <1>3, <2>0, <3>1, <3>2
  <2>3. CASE first(i) /\ third(j)
    <3>1. sched[i] = i /\ lap[i] = 1 /\ i <= o
      BY <1>14, <2>0, <2>3
    <3>2. sched[j] > o + B /\ sched[j] \in 1 .. n /\ lap[j] = last
      BY <1>16, <2>3
    <3> QED
      BY <1>1, <1>3, <1>12, <2>0, <3>1, <3>2
  <2>4. CASE middle(i) /\ middle(j)
    <3> DEFINE p == i - o
               q == j - o
    <3>1. /\ p \in 1 .. m /\ sched[i] = flat[p] /\ lap[i] = row[p] /\ sched[i] \in F
          /\ q \in 1 .. m /\ sched[j] = flat[q] /\ lap[j] = row[q] /\ sched[j] \in F
          /\ p < q
      <4>1. p \in 1 .. m /\ sched[i] = flat[p] /\ lap[i] = row[p] /\ sched[i] \in F
        BY <1>15, <2>4
      <4>2. q \in 1 .. m /\ sched[j] = flat[q] /\ lap[j] = row[q] /\ sched[j] \in F
        BY <1>15, <2>4
      <4>3. p < q
        BY <1>3, <2>0
      <4> QED
        BY <4>1, <4>2, <4>3
    <3> HIDE DEF p, q
    <3>2. row[p] < row[q] \/ (row[p] = row[q] /\ col[p] < col[q])
      BY <1>9, <3>1
    <3>3. /\ col[p] \in 1 .. B /\ col[q] \in 1 .. B
          /\ flat[p] = Block[col[p]] /\ flat[q] = Block[col[q]]
      BY <1>9, <3>1
    <3>4. col[p] < col[q] => flat[p] < flat[q]
      BY <1>3, <3>3
    <3> QED
      BY <3>1, <3>2, <3>4
  <2>5. CASE middle(i) /\ third(j)
    <3>1. sched[i] <= o + B /\ sched[i] \in 1 .. n /\ lap[i] \in 1 .. steps /\ last = steps
      BY <1>15, <2>5
    <3>2. sched[j] > o + B /\ sched[j] \in 1 .. n /\ lap[j] = last
      BY <1>16, <2>5
    <3>3. sched[i] < sched[j]
      BY <1>1, <1>3, <3>1, <3>2
    <3>4. lap[i] < lap[j] \/ lap[i] = lap[j]
      BY <3>1, <3>2
    <3> QED
      BY <1>1, <3>1, <3>2, <3>3, <3>4
  <2>6. CASE third(i) /\ third(j)
    <3>1. sched[i] = i - m + B /\ sched[j] = j - m + B /\ lap[i] = lap[j]
      BY <1>16, <2>6
    <3>2. i - m + B < j - m + B
      BY <1>3, <1>11, <2>0
    <3> QED
      BY <1>3, <1>11, <2>0, <3>1, <3>2
  <2>7. \/ first(i) /\ first(j)
        \/ first(i) /\ middle(j)
        \/ first(i) /\ third(j)
        \/ middle(i) /\ middle(j)
        \/ middle(i) /\ third(j)
        \/ third(i) /\ third(j)
    <3>1. first(i) \/ middle(i) \/ third(i)
      BY <1>13
    <3>2. first(j) \/ middle(j) \/ third(j)
      BY <1>13
    <3>3. ~(middle(i) /\ first(j))
      BY <1>3, <2>0
    <3> QED
      BY <2>0, <3>1, <3>2, <3>3
  <2> QED
    BY <2>1, <2>2, <2>3, <2>4, <2>5, <2>6, <2>7
<1>19. ASSUME NEW a \in 1 .. n, NEW l \in laps[a]
       PROVE  \E j \in J : sched[j] = a /\ lap[j] = l
  <2>0. laps[a] = IF a \in F THEN 1 .. steps ELSE IF a <= o THEN {1} ELSE {last}
    BY DEF laps
  <2>1. CASE a \in F
    <3>1. l \in 1 .. steps
      BY <2>0, <2>1
    <3>2. PICK c \in 1 .. B : Block[c] = a
      BY <1>3, <2>1
    <3>3. PICK i \in 1 .. m : row[i] = l /\ col[i] = c
      BY <1>9, <3>1
    <3>4. flat[i] = a
      BY <1>9, <3>2, <3>3
    <3> DEFINE j == i + o
    <3>5. middle(j) /\ j \in J /\ j - o = i
      BY <1>3, <1>11 DEF middle, J
    <3> HIDE DEF j
    <3>6. sched[j] = flat[j - o] /\ lap[j] = row[j - o]
      BY <1>15, <3>5
    <3> QED
      BY <3>3, <3>4, <3>5, <3>6
  <2>2. CASE a \notin F /\ a <= o
    <3>1. first(a) /\ l = 1
      BY <1>1, <1>3, <2>0, <2>2 DEF first
    <3> QED
      BY <1>14, <3>1
  <2>3. CASE a \notin F /\ ~(a <= o)
    <3>1. l = last
      BY <2>0, <2>3
    <3>2. a > o + B
      BY <1>1, <1>3, <2>3
    <3> DEFINE j == a - B + m
    <3>3. third(j) /\ j \in J /\ j - m + B = a
      BY <1>1, <1>3, <1>11, <3>2 DEF third, J
    <3> HIDE DEF j
    <3> QED
      BY <1>16, <3>1, <3>3
  <2> QED
    BY <2>1, <2>2, <2>3
<1>20. ASSUME NEW a \in 1 .. n, NEW b \in 1 .. n, a <= b
       PROVE  \/ laps[a] = laps[b]
              \/ a \in F /\ b \notin F
              \/ a \notin F /\ b \in F
              \/ a \notin F /\ \E f \in F : a < f /\ f < b
  <2>0. /\ laps[a] = IF a \in F THEN 1 .. steps ELSE IF a <= o THEN {1} ELSE {last}
        /\ laps[b] = IF b \in F THEN 1 .. steps ELSE IF b <= o THEN {1} ELSE {last}
    BY DEF laps
  <2>1. CASE a \notin F /\ b \notin F /\ a <= o /\ ~(b <= o)
    <3>1. CASE B = 0
      <4>1. \A i \in 1 .. m : FALSE
        BY <1>9, <3>1
      <4>2. F = {}
        BY <1>3, <3>1
      <4>3. o = n
        BY <4>2, <1>1, <1>3 DEF F, o, From
      <4> QED
        BY <1>1, <2>1, <4>3
    <3>2. CASE B # 0
      <4>1. o + 1 \in F /\ a < o + 1
        BY <1>1, <1>3, <2>1, <3>2
      <4>2. o + 1 < b
        BY <1>1, <1>3, <2>1, <4>1
      <4> QED
        BY <2>1, <4>1, <4>2
    <3> QED
      BY <3>1, <3>2
  <2>2. CASE a \notin F /\ b \notin F /\ ~(a <= o /\ ~(b <= o))
    <3>1. a <= o <=> b <= o
      BY <1>1, <1>3, <1>20, <2>2
    <3> QED
      BY <2>0, <2>2, <3>1
  <2> QED
    BY <2>0, <2>1, <2>2
<1>21. DOMAIN plan = 1 .. n /\ 1 .. Len(sched) = J
  BY <1>1, <1>10 DEF J
<1>22. Visits(sched, lap, laps)
  <2>1. \A i, j \in J : i < j => lap[i] < lap[j] \/ (lap[i] = lap[j] /\ sched[i] < sched[j])
    BY <1>18
  <2> QED
    BY <1>17, <1>19, <1>21, <2>1 DEF Visits
<1>23. FixedLaps(sched, laps)
  <2>1. \A i, j \in J : i < j => sched[i] <= sched[j] \/ {sched[i], sched[j]} \subseteq FixedPlaces
    BY <1>18 DEF F
  <2>2. \A a, b \in 1 .. n :
           a <= b => \/ laps[a] = laps[b]
                     \/ a \in FixedPlaces /\ b \notin FixedPlaces
                     \/ a \notin FixedPlaces /\ b \in FixedPlaces
                     \/ a \notin FixedPlaces /\ \E f \in FixedPlaces : a < f /\ f < b
    BY <1>20 DEF F
  <2> QED
    BY <1>21, <2>1, <2>2 DEF FixedLaps
<1>24. sched \in Seq(DOMAIN plan)
  BY FrameFacts DEF sched
<1> QED
  BY <1>22, <1>23, <1>24 DEF sched

\* The visits of stage a before the t-th of all visits.
VisitsOf(sched, t, a) == {j \in 1 .. (t - 1) : sched[j] = a}

\* How often a stage has been visited before it is the turn of another that has the
\* same laps: once more if it stands before it in the plan, as often if not.
LEMMA CountVisits ==
  ASSUME NEW sched, NEW lap, NEW laps, Visits(sched, lap, laps), DOMAIN plan \subseteq Nat,
         Len(sched) \in Nat, NEW t \in 1 .. Len(sched), NEW a \in DOMAIN plan,
         laps[a] = laps[sched[t]]
  PROVE  /\ Cardinality(VisitsOf(sched, t, sched[t])) \in Nat
         /\ Cardinality(VisitsOf(sched, t, a))
               = Cardinality(VisitsOf(sched, t, sched[t])) + IF a < sched[t] THEN 1 ELSE 0
<1> DEFINE N == Len(sched)
           b == sched[t]
           L == lap[t]
           S == laps[b]
           below == {l \in S : l < L}
           V(x) == VisitsOf(sched, t, x)
           W(x) == IF x < b THEN below \cup {L} ELSE below
<1>1. /\ \A j \in 1 .. N : sched[j] \in DOMAIN plan /\ lap[j] \in Nat /\ lap[j] \in laps[sched[j]]
      /\ \A i, j \in 1 .. N :
            i < j => lap[i] < lap[j] \/ (lap[i] = lap[j] /\ sched[i] < sched[j])
      /\ \A x \in DOMAIN plan : \A l \in laps[x] :
            \E j \in 1 .. N : sched[j] = x /\ lap[j] = l
  BY DEF Visits
<1>2. N \in Nat /\ t \in 1 .. N /\ t \in Nat
  OBVIOUS
<1>3. b \in DOMAIN plan /\ b \in Nat /\ L \in Nat /\ L \in S
  BY <1>1
<1> HIDE DEF N, b, L, S
<1>4. ASSUME NEW x \in DOMAIN plan, laps[x] = S
      PROVE  IsFiniteSet(V(x)) /\ IsFiniteSet(W(x)) /\ Cardinality(W(x)) = Cardinality(V(x))
  <2> DEFINE f == [j \in V(x) |-> lap[j]]
  <2>1. \A j \in V(x) : j \in 1 .. N /\ j < t /\ sched[j] = x
    BY <1>2 DEF VisitsOf
  <2>2. IsFiniteSet(V(x))
    <3>1. 1 \in Int /\ t - 1 \in Int
      BY <1>2
    <3>2. IsFiniteSet(1 .. (t - 1))
      BY <3>1, FS_Interval
    <3> QED
      BY <3>2, FS_Subset DEF VisitsOf
  <2>3. x \in Nat
    OBVIOUS
  <2> HIDE DEF V
  <2>4. f \in [V(x) -> W(x)]
    <3> SUFFICES ASSUME NEW j \in V(x) PROVE lap[j] \in W(x)
      OBVIOUS
    <3>1. lap[j] \in S /\ lap[j] \in Nat
      BY <1>1, <1>4, <2>1
    <3>2. lap[j] < L \/ (lap[j] = L /\ x < b)
      <4>1. /\ j < t /\ sched[j] = x
            /\ lap[j] < lap[t] \/ (lap[j] = lap[t] /\ sched[j] < sched[t])
        BY <1>1, <1>2, <2>1
      <4> QED
        BY <4>1 DEF L, b
    <3> QED
      BY <3>1, <3>2
  <2>5. ASSUME NEW i \in V(x), NEW j \in V(x), f[i] = f[j] PROVE i = j
    <3>0. i \in 1 .. N /\ j \in 1 .. N /\ i \in Nat /\ j \in Nat
      BY <1>2, <2>1
    <3>1. lap[i] = lap[j] /\ i \in Nat /\ j \in Nat /\ lap[i] \in Nat
      <4>1. lap[i] \in Nat
        BY <1>1, <3>0
      <4> QED
        BY <2>5, <3>0, <4>1
    <3>2. ~(i < j)
      BY <1>1, <2>1, <2>3, <3>1
    <3>3. ~(j < i)
      BY <1>1, <2>1, <2>3, <3>1
    <3> QED
      BY <3>1, <3>2, <3>3
  <2>6. ASSUME NEW l \in W(x) PROVE \E j \in V(x) : f[j] = l
    <3>1. l \in S /\ (l < L \/ (l = L /\ x < b))
      BY <1>3, <2>6
    <3>2. PICK j \in 1 .. N : sched[j] = x /\ lap[j] = l
      BY <1>1, <1>4, <3>1
    <3>3. l \in Nat /\ j \in Nat
      BY <1>1, <1>2, <3>2
    <3>4. j # t
      BY <1>3, <2>3, <3>1, <3>2, <3>3 DEF b, L
    <3>5. ~(t < j)
      <4>1. t < j => L < l \/ (L = l /\ b < x)
        BY <1>1, <1>2, <3>2 DEF L, b
      <4> QED
        BY <1>3, <2>3, <3>1, <3>3, <4>1
    <3>6. j \in V(x)
      BY <1>2, <3>2, <3>3, <3>4, <3>5 DEF V, VisitsOf
    <3> QED
      BY <3>2, <3>6
  <2> HIDE DEF f, W
  <2>7. f \in Bijection(V(x), W(x))
    BY <2>4, <2>5, <2>6 DEF Bijection, Injection, Surjection, IsInjective
  <2>8. ExistsBijection(V(x), W(x))
    BY <2>7 DEF ExistsBijection
  <2> QED
    BY <2>2, <2>8, FS_Bijection
<1>5. W(b) = below
  BY <1>3
<1>6. IsFiniteSet(below) /\ Cardinality(below) = Cardinality(V(b)) /\ Cardinality(below) \in Nat
  BY <1>3, <1>4, <1>5, FS_CardinalityType DEF S
<1>7. Cardinality(V(a)) = Cardinality(W(a))
  BY <1>4 DEF S, b
<1>8. Cardinality(W(a)) = Cardinality(below) + IF a < b THEN 1 ELSE 0
  <2>1. CASE a < b
    <3>1. L \notin below
      BY <1>3
    <3>2. Cardinality(below \cup {L}) = Cardinality(below) + 1
      BY <1>6, <3>1, FS_AddElement
    <3> QED
      BY <2>1, <3>2
  <2>2. CASE ~(a < b)
    BY <1>6, <2>2
  <2> QED
    BY <2>1, <2>2
<1> HIDE DEF below, W
<1> QED
  BY <1>6, <1>7, <1>8 DEF V, b

\* FixedUpdate comes before or after any other label.
LEMMA FixedCompared ==
  ASSUME stageOrder \in Seq(Nat), NEW x \in Nat, x # FixedUpdate
  PROVE  EarlierLabel(x, FixedUpdate) \/ EarlierLabel(FixedUpdate, x)
<1>1. CASE stageOrder = <<>>
  BY <1>1 DEF EarlierLabel, Priority, FixedUpdate, Custom
<1>2. CASE stageOrder # <<>>
  <2> DEFINE g == <<x, 0>>
             h == <<FixedUpdate, 0>>
             G == {g, h}
  <2>1. G \in SUBSET (Nat \X Nat) /\ g \in G /\ h \in G /\ g # h
    BY DEF FixedUpdate
  <2>2. /\ g[1] = x /\ g[2] = 0 /\ h[1] = FixedUpdate /\ h[2] = 0
    OBVIOUS
  <2> HIDE DEF g, h, G
  <2>3. StrictlyOrders(Placed(G), G)
    BY <2>1, PlacedOrders
  <2>4. <<g, h>> \in Placed(G) \/ <<h, g>> \in Placed(G)
    BY <2>1, <2>3 DEF StrictlyOrders
  <2>5. \/ PlacedBefore(g[1], g[2], h[1], h[2])
        \/ PlacedBefore(h[1], h[2], g[1], g[2])
    BY <2>4 DEF Placed
  <2> QED
    BY <1>2, <2>2, <2>5 DEF EarlierLabel
<1> QED
  BY <1>1, <1>2

\* No label comes before itself.
LEMMA NotEarlierThanItself ==
  ASSUME stageOrder \in Seq(Nat), NEW x \in Nat
  PROVE  ~EarlierLabel(x, x)
<1> DEFINE g == <<x, 0>>
           G == {g}
<1>1. G \in SUBSET (Nat \X Nat) /\ g \in G /\ g[1] = x /\ g[2] = 0
  OBVIOUS
<1> HIDE DEF g, G
<1>2. StrictlyOrders(Placed(G), G)
  BY <1>1, PlacedOrders
<1>3. <<g, g>> \notin Placed(G)
  BY <1>1, <1>2 DEF StrictlyOrders
<1>4. ~PlacedBefore(g[1], g[2], g[1], g[2])
  BY <1>1, <1>3 DEF Placed
<1>5. Priority(x) \in Nat
  BY DEF Priority, Custom
<1> QED
  BY <1>1, <1>4, <1>5 DEF EarlierLabel

\* Nothing stands among the stages of one label that FixedUpdate would part.
LEMMA LabelsTogether ==
  ASSUME Held, HasPlan
  PROVE  /\ DOMAIN plan = 1 .. Len(plan) /\ Len(plan) \in Nat
         /\ Together
         /\ \A i, k \in DOMAIN plan : \A f \in FixedPlaces :
               i < f /\ f < k /\ i \notin FixedPlaces => plan[i].label # plan[k].label
<1>0. stageOrder \in Seq(Nat) /\ Holds(plan, Registered) /\ InTurn(plan, edges)
  BY DEF Held
<1>1. DOMAIN plan = 1 .. Len(plan) /\ Len(plan) \in Nat
  <2> DEFINE T == {Stage(q) : q \in Seq(Registered)}
  <2>1. plan \in Seq(T)
    BY <1>0 DEF Holds
  <2> HIDE DEF T
  <2> QED
    BY <2>1, LenProperties
<1>2. /\ \A i \in DOMAIN plan : plan[i].label \in Nat
      /\ \A i, j \in DOMAIN plan : i < j => ~EarlierLabel(plan[j].label, plan[i].label)
  BY <1>0 DEF InTurn
<1>3. Together
  <2> SUFFICES ASSUME NEW i \in FixedPlaces, NEW k \in FixedPlaces, NEW j \in DOMAIN plan,
                      i < j, j < k, j \notin FixedPlaces
               PROVE  FALSE
    BY DEF Together
  <2>1. /\ i \in DOMAIN plan /\ plan[i].label = FixedUpdate
        /\ k \in DOMAIN plan /\ plan[k].label = FixedUpdate
        /\ plan[j].label # FixedUpdate
    BY DEF FixedPlaces
  <2>2. /\ ~EarlierLabel(plan[j].label, FixedUpdate)
        /\ ~EarlierLabel(FixedUpdate, plan[j].label)
    BY <1>2, <2>1
  <2> QED
    BY <1>0, <1>2, <2>1, <2>2, FixedCompared
<1>4. ASSUME NEW i \in DOMAIN plan, NEW k \in DOMAIN plan, NEW f \in FixedPlaces,
             i < f, f < k, i \notin FixedPlaces, plan[i].label = plan[k].label
      PROVE  FALSE
  <2>1. f \in DOMAIN plan /\ plan[f].label = FixedUpdate /\ plan[i].label # FixedUpdate
    BY <1>4 DEF FixedPlaces
  <2>2. /\ ~EarlierLabel(FixedUpdate, plan[i].label)
        /\ ~EarlierLabel(plan[i].label, FixedUpdate)
    BY <1>2, <1>4, <2>1
  <2> QED
    BY <1>0, <1>2, <2>1, <2>2, FixedCompared
<1> QED
  BY <1>1, <1>3, <1>4

LEMMA SameLaps ==
  ASSUME Held, HasPlan, NEW sched, NEW laps, FixedLaps(sched, laps),
         NEW a \in DOMAIN plan, NEW b \in DOMAIN plan, plan[a].label = plan[b].label
  PROVE  laps[a] = laps[b]
<1>1. a \in FixedPlaces <=> b \in FixedPlaces
  BY DEF FixedPlaces
<1>2. ASSUME NEW x \in DOMAIN plan, NEW y \in DOMAIN plan, x <= y,
             plan[x].label = plan[y].label, x \in FixedPlaces <=> y \in FixedPlaces
      PROVE  laps[x] = laps[y]
  <2>1. \/ laps[x] = laps[y]
        \/ x \notin FixedPlaces /\ \E f \in FixedPlaces : x < f /\ f < y
    BY <1>2 DEF FixedLaps
  <2> QED
    BY <1>2, <2>1, LabelsTogether
<1>3. a <= b \/ b <= a
  BY LabelsTogether
<1> QED
  BY <1>1, <1>2, <1>3

\* The visits before now to stages of which s is one of the systems.
PassesOf(s) == {j \in 1 .. (at - 1) : s \in ToSet(plan[schedule[j]].systems)}

\* In a frame: the plan stands, the schedule goes over it in laps, and what a
\* system's stage has passed is how often the stage was visited.
FrameTurns ==
  /\ HasPlan
  /\ schedule \in Seq(DOMAIN plan)
  /\ \E lap, laps : Visits(schedule, lap, laps) /\ FixedLaps(schedule, laps)
  /\ passed = [s \in Names |-> Cardinality(PassesOf(s))]

Turns ==
  /\ at \in Nat
  /\ running \subseteq enabled /\ running \cap done = {}
  /\ enabled # {} => mode # "closed" /\ InFrame /\ enabled \subseteq Members
  /\ ~Idle => FrameTurns

\* Between frames nothing is open.
LEMMA TurnsIdle ==
  ASSUME Turns, Idle, UNCHANGED frame
  PROVE  Turns'
<1>1. at = 0 /\ enabled = {} /\ running = {}
  BY DEF Turns, Idle, InFrame
<1>2. at' = 0 /\ enabled' = {} /\ running' = {}
  BY <1>1 DEF frame
<1> QED
  BY <1>2 DEF Turns, Idle

\* Within a stage the frame stays where it is.
LEMMA TurnsStay ==
  ASSUME Turns, UNCHANGED <<registry, compiled, schedule, at, passed>>,
         running' \subseteq enabled', running' \cap done' = {},
         enabled' # {} => mode' # "closed" /\ InFrame /\ enabled' \subseteq Members
  PROVE  Turns'
<1>1. UNCHANGED <<plan, dirty, outcome>>
  BY DEF compiled
<1>2. Members' = Members /\ InFrame' = InFrame /\ Idle' = Idle /\ HasPlan' = HasPlan
  BY <1>1 DEF Members, InFrame, Idle, Open, HasPlan
<1>3. \A s : PassesOf(s)' = PassesOf(s)
  BY <1>1 DEF PassesOf
<1>4. FixedPlaces' = FixedPlaces
  BY <1>1 DEF FixedPlaces
<1>5. \A lap, laps : /\ Visits(schedule, lap, laps) => Visits(schedule, lap, laps)'
                     /\ FixedLaps(schedule, laps) => FixedLaps(schedule, laps)'
  BY <1>1, <1>4 DEF Visits, FixedLaps
<1>6. FrameTurns => FrameTurns'
  BY <1>1, <1>2, <1>3, <1>5 DEF FrameTurns
<1> QED
  BY <1>2, <1>6 DEF Turns

\* A stage that lets go of its systems has been visited once more.
LEMMA TurnsLeave ==
  ASSUME Turns, InFrame, LeaveStage, UNCHANGED <<registry, compiled, schedule>>,
         enabled' = {}, running' = {}
  PROVE  Turns'
<1>1. UNCHANGED <<plan, dirty, outcome>>
  BY DEF compiled
<1>2. at \in Nat /\ at # 0 /\ at' = at + 1 /\ FrameTurns
  BY DEF InFrame, Idle, LeaveStage, Turns
<1>3. ~Idle' /\ at' \in Nat
  BY <1>2 DEF Idle
<1>4. ASSUME NEW s
      PROVE  Cardinality(PassesOf(s))'
                = Cardinality(PassesOf(s)) + IF s \in Members THEN 1 ELSE 0
  <2>1. IsFiniteSet(PassesOf(s))
    <3>1. 1 \in Int /\ at - 1 \in Int
      BY <1>2
    <3>2. IsFiniteSet(1 .. (at - 1))
      BY <3>1, FS_Interval
    <3> QED
      BY <3>2, FS_Subset DEF PassesOf
  <2>2. at \notin PassesOf(s)
    BY <1>2 DEF PassesOf
  <2>3. PassesOf(s)' = IF s \in Members THEN PassesOf(s) \cup {at} ELSE PassesOf(s)
    <3>1. PassesOf(s)' = {j \in 1 .. at : s \in ToSet(plan[schedule[j]].systems)}
      BY <1>1, <1>2 DEF PassesOf
    <3>2. 1 .. at = (1 .. (at - 1)) \cup {at}
      BY <1>2
    <3>3. s \in Members <=> s \in ToSet(plan[schedule[at]].systems)
      BY DEF Members, Open
    <3> QED
      BY <3>1, <3>2, <3>3 DEF PassesOf
  <2>4. Cardinality(PassesOf(s)) \in Nat
        /\ Cardinality(PassesOf(s) \cup {at}) = Cardinality(PassesOf(s)) + 1
    BY <2>1, <2>2, FS_CardinalityType, FS_AddElement
  <2>5. Cardinality(PassesOf(s))' = Cardinality(PassesOf(s)')
    OBVIOUS
  <2> QED
    BY <2>3, <2>4, <2>5
<1>5. ASSUME NEW s PROVE Cardinality(PassesOf(s)) \in Nat
  <2>1. 1 \in Int /\ at - 1 \in Int
    BY <1>2
  <2>2. IsFiniteSet(1 .. (at - 1))
    BY <2>1, FS_Interval
  <2>3. IsFiniteSet(PassesOf(s))
    BY <2>2, FS_Subset DEF PassesOf
  <2> QED
    BY <2>3, FS_CardinalityType
<1>6. passed' = [s \in Names |-> Cardinality(PassesOf(s))]'
  <2>1. passed = [s \in Names |-> Cardinality(PassesOf(s))]
    BY <1>2 DEF FrameTurns
  <2>2. passed' = [s \in Names |-> IF s \in Members THEN passed[s] + 1 ELSE passed[s]]
    BY DEF LeaveStage
  <2>3. \A s \in Names : passed'[s] = Cardinality(PassesOf(s)) + IF s \in Members THEN 1 ELSE 0
    BY <1>5, <2>1, <2>2
  <2>4. \A s \in Names : passed'[s] = Cardinality(PassesOf(s))'
    BY <1>4, <2>3
  <2>5. passed' = [s \in Names |-> passed'[s]]
    BY <2>2
  <2> QED
    BY <2>4, <2>5
<1>7. FixedPlaces' = FixedPlaces
  BY <1>1 DEF FixedPlaces
<1>8. \A lap, laps : /\ Visits(schedule, lap, laps) => Visits(schedule, lap, laps)'
                     /\ FixedLaps(schedule, laps) => FixedLaps(schedule, laps)'
  BY <1>1, <1>7 DEF Visits, FixedLaps
<1>9. FrameTurns'
  BY <1>1, <1>2, <1>6, <1>8 DEF FrameTurns, HasPlan
<1> QED
  BY <1>3, <1>9 DEF Turns

\* A frame starts with nothing visited.
LEMMA TurnsBegin ==
  ASSUME Held, Turns, NEW steps \in Nat, BeginFrame(steps)
  PROVE  Turns'
<1>1. /\ UNCHANGED <<plan, dirty, outcome>> /\ HasPlan /\ at' = 1
      /\ schedule' = Frame(steps) /\ passed' = [s \in Names |-> 0]
  BY DEF BeginFrame, compiled
<1>2. enabled = {} /\ running = {}
  BY DEF Turns, BeginFrame, Idle, InFrame
<1>3. enabled' = {} /\ running' = {}
  BY <1>2 DEF BeginFrame
<1>4. Together /\ plan \in Seq({Stage(q) : q \in Seq(Registered)})
  BY <1>1, LabelsTogether DEF Held, Holds
<1>5. /\ Frame(steps) \in Seq(DOMAIN plan)
      /\ \E lap, laps : Visits(Frame(steps), lap, laps) /\ FixedLaps(Frame(steps), laps)
  BY <1>4, FrameLaps
<1>6. FixedPlaces' = FixedPlaces
  BY <1>1 DEF FixedPlaces
<1>7. \A lap, laps : /\ Visits(Frame(steps), lap, laps) => Visits(schedule, lap, laps)'
                     /\ FixedLaps(Frame(steps), laps) => FixedLaps(schedule, laps)'
  BY <1>1, <1>6 DEF Visits, FixedLaps
<1>8. \A s : PassesOf(s)' = {}
  BY <1>1 DEF PassesOf
<1>9. passed' = [s \in Names |-> Cardinality(PassesOf(s))]'
  BY <1>1, <1>8, FS_EmptySet
<1>10. FrameTurns'
  BY <1>1, <1>5, <1>7, <1>9 DEF FrameTurns, HasPlan
<1> QED
  BY <1>1, <1>3, <1>10 DEF Turns

LEMMA InitTurns == Init => Turns
  BY DEF Init, Turns, Idle

LEMMA NextTurns ==
  ASSUME Held, Turns, [Next]_vars
  PROVE  Turns'
<1>1. ASSUME NEW s \in Names, Register(s) PROVE Turns'
  BY <1>1, TurnsIdle DEF Register
<1>2. ASSUME NEW a \in Registered, NEW b \in Registered, Order(a, b) PROVE Turns'
  BY <1>2, TurnsIdle DEF Order, MayOrder
<1>3. ASSUME NEW owner, NEW a, NEW b, Declare(owner, a, b) PROVE Turns'
  BY <1>3, TurnsIdle DEF Declare, MayOrder
<1>4. ASSUME NEW s \in Registered, RemoveSystem(s) PROVE Turns'
  BY <1>4, TurnsIdle DEF RemoveSystem
<1>5. ASSUME NEW order \in Orders, ConfigureStages(order) PROVE Turns'
  BY <1>5, TurnsIdle DEF ConfigureStages
<1>6. ASSUME NEW b \in EventOrders, EnableEventOrdering(b) PROVE Turns'
  BY <1>6, TurnsIdle DEF EnableEventOrdering
<1>7. ASSUME Compile PROVE Turns'
  BY <1>7, TurnsIdle DEF Compile
<1>8. ASSUME NEW steps \in 0 .. MaxSteps, BeginFrame(steps) PROVE Turns'
  <2>1. steps \in Nat
    BY ScheduleAssumption
  <2> QED
    BY <1>8, <2>1, TurnsBegin
<1>9. ASSUME SkipStage PROVE Turns'
  <2>1. enabled = {} /\ running = {} /\ InFrame
    BY <1>9 DEF SkipStage, Turns
  <2> QED
    BY <1>9, <2>1, TurnsLeave DEF SkipStage
<1>10. ASSUME NEW holding \in SUBSET Members, NEW how \in {"sequential", "parallel"},
              OpenStage(holding, how)
       PROVE  Turns'
  <2>1. running = {} /\ InFrame
    BY <1>10 DEF OpenStage, Turns
  <2> QED
    BY <1>10, <2>1, TurnsStay DEF OpenStage
<1>11. ASSUME NEW s \in enabled, Start(s) PROVE Turns'
  <2>1. /\ UNCHANGED <<registry, compiled, schedule, at, enabled, mode, done, passed>>
        /\ running' = running \cup {s} /\ s \notin done
    BY <1>11 DEF Start
  <2>2. /\ running' \subseteq enabled' /\ running' \cap done' = {}
        /\ enabled' # {} => mode' # "closed" /\ InFrame /\ enabled' \subseteq Members
    BY <2>1 DEF Turns
  <2> QED
    BY <2>1, <2>2, TurnsStay
<1>12. ASSUME NEW s \in enabled, Finish(s) PROVE Turns'
  <2>1. /\ UNCHANGED <<registry, compiled, schedule, at, enabled, mode, passed>>
        /\ running' = running \ {s} /\ done' = done \cup {s}
    BY <1>12 DEF Finish
  <2>2. /\ running' \subseteq enabled' /\ running' \cap done' = {}
        /\ enabled' # {} => mode' # "closed" /\ InFrame /\ enabled' \subseteq Members
    BY <2>1 DEF Turns
  <2> QED
    BY <2>1, <2>2, TurnsStay
<1>13. ASSUME CloseStage PROVE Turns'
  <2>1. running = {} /\ InFrame
    BY <1>13 DEF CloseStage, Turns
  <2> QED
    BY <1>13, <2>1, TurnsLeave DEF CloseStage
<1>14. ASSUME EndFrame PROVE Turns'
  <2>1. enabled = {} /\ running = {} /\ at' = 0
    BY <1>14 DEF EndFrame, Turns, InFrame
  <2>2. enabled' = {} /\ running' = {}
    BY <1>14, <2>1 DEF EndFrame
  <2> QED
    BY <2>1, <2>2 DEF Turns, Idle
<1>15. ASSUME UNCHANGED vars PROVE Turns'
  <2>1. UNCHANGED <<registry, compiled, schedule, at, enabled, mode, running, done, passed>>
    BY <1>15 DEF vars, frame
  <2>2. /\ running' \subseteq enabled' /\ running' \cap done' = {}
        /\ enabled' # {} => mode' # "closed" /\ InFrame /\ enabled' \subseteq Members
    BY <2>1 DEF Turns
  <2> QED
    BY <2>1, <2>2, TurnsStay
<1> QED
  BY <1>1, <1>2, <1>3, <1>4, <1>5, <1>6, <1>7, <1>8, <1>9, <1>10, <1>11, <1>12,
     <1>13, <1>14, <1>15 DEF Next

\* Where a running system stands in the plan, where another of its label stands, and
\* which of the two has had its turn in this pass of the label.
LEMMA PassesCompared ==
  ASSUME Held, Turns, NEW b \in running, NEW a \in Registered, Label(a) = Label(b)
  PROVE  \E i, k \in DOMAIN plan :
            /\ \E c \in DOMAIN plan[i].systems : plan[i].systems[c] = a
            /\ \E d \in DOMAIN plan[k].systems : plan[k].systems[d] = b
            /\ plan[i].label = Label(a) /\ plan[k].label = Label(b)
            /\ passed[b] \in Nat
            /\ passed[a] = passed[b] + IF i < k THEN 1 ELSE 0
<1>1. InFrame /\ b \in Members /\ FrameTurns
  BY DEF Turns, InFrame
<1>2. /\ HasPlan /\ schedule \in Seq(DOMAIN plan)
      /\ passed = [s \in Names |-> Cardinality(PassesOf(s))]
      /\ Holds(plan, Registered) /\ InTurn(plan, edges)
  BY <1>1 DEF FrameTurns, Held
<1>3. Len(schedule) \in Nat /\ at \in 1 .. Len(schedule) /\ at \in Nat
      /\ \A j \in 1 .. Len(schedule) : schedule[j] \in DOMAIN plan
  BY <1>1, <1>2, LenProperties DEF Turns, InFrame, Idle
<1> DEFINE k == schedule[at]
<1>4. PICK lap, laps : Visits(schedule, lap, laps) /\ FixedLaps(schedule, laps)
  BY <1>1 DEF FrameTurns
<1>5. PICK i \in DOMAIN plan : \E c \in DOMAIN plan[i].systems : plan[i].systems[c] = a
  <2>1. In(a, SystemsOf(plan))
    BY <1>2 DEF Holds
  <2>2. DOMAIN SystemsOf(plan) = DOMAIN plan
        /\ \A n \in DOMAIN plan : SystemsOf(plan)[n] = plan[n].systems
    BY DEF SystemsOf
  <2> QED
    BY <2>1, <2>2 DEF In
<1>6. k \in DOMAIN plan /\ \E d \in DOMAIN plan[k].systems : plan[k].systems[d] = b
  BY <1>1, <1>3 DEF Members, Open, ToSet
<1>7. plan[i].label = Label(a) /\ plan[k].label = Label(b)
  BY <1>2, <1>5, <1>6 DEF InTurn
<1>8. laps[i] = laps[k]
  BY <1>2, <1>4, <1>6, <1>7, SameLaps
<1>9. ASSUME NEW s, NEW p \in DOMAIN plan,
             \E c \in DOMAIN plan[p].systems : plan[p].systems[c] = s
      PROVE  PassesOf(s) = VisitsOf(schedule, at, p)
  <2>1. ASSUME NEW q \in DOMAIN plan PROVE s \in ToSet(plan[q].systems) <=> q = p
    <3>1. s \in ToSet(plan[p].systems)
      BY <1>9 DEF ToSet
    <3>2. ASSUME s \in ToSet(plan[q].systems) PROVE q = p
      <4>1. PICK c \in DOMAIN plan[p].systems : plan[p].systems[c] = s
        BY <1>9
      <4>2. PICK d \in DOMAIN plan[q].systems : plan[q].systems[d] = s
        BY <3>2 DEF ToSet
      <4>3. Apart(SystemsOf(plan))
        BY <1>2 DEF Holds
      <4> QED
        BY <4>1, <4>2, <4>3 DEF Apart, SystemsOf
    <3> QED
      BY <3>1, <3>2
  <2>2. \A j \in 1 .. (at - 1) : schedule[j] \in DOMAIN plan
    BY <1>3
  <2> QED
    BY <2>1, <2>2 DEF PassesOf, VisitsOf
<1>10. PassesOf(a) = VisitsOf(schedule, at, i) /\ PassesOf(b) = VisitsOf(schedule, at, k)
  BY <1>5, <1>6, <1>9
<1>11. DOMAIN plan \subseteq Nat
  BY <1>2, LabelsTogether
<1>12. /\ Cardinality(PassesOf(b)) \in Nat
       /\ Cardinality(PassesOf(a)) = Cardinality(PassesOf(b)) + IF i < k THEN 1 ELSE 0
  <2>1. laps[i] = laps[schedule[at]]
    BY <1>8
  <2>2. /\ Cardinality(VisitsOf(schedule, at, schedule[at])) \in Nat
        /\ Cardinality(VisitsOf(schedule, at, i))
              = Cardinality(VisitsOf(schedule, at, schedule[at]))
                + IF i < schedule[at] THEN 1 ELSE 0
    BY <1>3, <1>4, <1>11, <2>1, CountVisits
  <2> QED
    BY <1>10, <2>2
<1>13. a \in Names /\ b \in Names
  <2>1. systems \in Seq(Names)
    BY DEF Held, RegistryTypes
  <2>2. Registered \subseteq Names
    BY <2>1, RegisteredFinite DEF Registered, ToSet
  <2>3. b \in Registered
    BY <1>2, <1>6 DEF Holds, In, SystemsOf
  <2> QED
    BY <2>2, <2>3
<1>14. passed[b] \in Nat /\ passed[a] = passed[b] + IF i < k THEN 1 ELSE 0
  BY <1>2, <1>12, <1>13
<1> QED
  BY <1>5, <1>6, <1>7, <1>14

LEMMA TurnsInOrder == Held /\ Turns => LabelsInOrder
<1> SUFFICES ASSUME Held, Turns, NEW b \in running
             PROVE  /\ \A i \in at .. Len(schedule) :
                          ~EarlierLabel(plan[schedule[i]].label, Label(b))
                    /\ \A a \in Registered :
                          Label(a) = Label(b) => passed[a] - passed[b] \in {0, 1}
  BY DEF LabelsInOrder
<1>1. ASSUME NEW a \in Registered, Label(a) = Label(b)
      PROVE  passed[a] - passed[b] \in {0, 1}
  BY <1>1, PassesCompared
<1>2. ASSUME NEW i \in at .. Len(schedule)
      PROVE  ~EarlierLabel(plan[schedule[i]].label, Label(b))
  <2> DEFINE k == schedule[at]
             m == schedule[i]
  <2>1. InFrame /\ b \in Members /\ FrameTurns
    BY DEF Turns, InFrame
  <2>2. /\ HasPlan /\ schedule \in Seq(DOMAIN plan) /\ InTurn(plan, edges)
        /\ stageOrder \in Seq(Nat)
    BY <2>1 DEF FrameTurns, Held
  <2>3. Len(schedule) \in Nat /\ at \in 1 .. Len(schedule) /\ i \in 1 .. Len(schedule)
        /\ at <= i
    BY <1>2, <2>1, <2>2, LenProperties DEF Turns, InFrame, Idle
  <2>4. k \in DOMAIN plan /\ m \in DOMAIN plan /\ k \in Nat /\ m \in Nat
    BY <2>2, <2>3, ElementOfSeq, LabelsTogether
  <2>5. plan[k].label = Label(b) /\ plan[k].label \in Nat
    <3>1. \E d \in DOMAIN plan[k].systems : plan[k].systems[d] = b
      BY <2>1 DEF Members, Open, ToSet
    <3> QED
      BY <2>2, <2>4, <3>1 DEF InTurn
  <2>6. k <= m \/ {k, m} \subseteq FixedPlaces
    <3>1. at = i \/ at < i
      BY <2>3
    <3>2. at < i => k <= m \/ {k, m} \subseteq FixedPlaces
      BY <2>1, <2>3 DEF FrameTurns, FixedLaps
    <3> QED
      BY <2>4, <3>1, <3>2
  <2>7. CASE plan[m].label = plan[k].label
    BY <2>2, <2>5, <2>7, NotEarlierThanItself
  <2>8. CASE plan[m].label # plan[k].label
    <3>1. k < m
      BY <2>4, <2>6, <2>8 DEF FixedPlaces
    <3> QED
      BY <2>2, <2>4, <2>5, <3>1 DEF InTurn
  <2> QED
    BY <2>7, <2>8
<1> QED
  BY <1>1, <1>2

\* While a system runs nothing of an earlier label is still to come in the frame,
\* and no other system of its label is a pass ahead of it or behind, however often
\* FixedUpdate is repeated and whatever order of labels is configured: numbering
\* the groups puts all stages of a label next to each other, so that the block that
\* is repeated is the label and nothing else.
THEOREM LabelsTakeTurns == Spec => []LabelsInOrder
<1>1. Held /\ Turns /\ [Next]_vars => Held' /\ Turns'
  BY NextHeld, NextTurns
<1>2. Init => Held /\ Turns
  BY InitHeld, InitTurns
<1> QED
  BY <1>1, <1>2, TurnsInOrder, PTL DEF Spec

-----------------------------------------------------------------------------
(* Orderings are kept.                                                     *)

\* What was asked for is in force or waits for the next compile, unless one has
\* thrown it away; an ordering waits on behalf of one of the two it names, for a
\* compile that has its second system to add; and an ordering in force whose second
\* system is in the graph is an edge of it.
Asked ==
  /\ outcome # "missing" => declared \subseteq explicit \cup PairsOf(pending)
  /\ \A d \in ToSet(pending) : d.owner \in {d.pair[1], d.pair[2]} /\ d.pair[2] \notin nodes
  /\ \A e \in explicit : e[2] \in nodes => e \in edges
  /\ nodes \subseteq Registered
  /\ ~dirty => nodes = Registered /\ pending = <<>>

LEMMA AppendedSet ==
  ASSUME NEW T, NEW q \in Seq(T), NEW w \in T
  PROVE  ToSet(Append(q, w)) = ToSet(q) \cup {w}
<1>1. /\ Len(q) \in Nat /\ DOMAIN q = 1 .. Len(q)
      /\ DOMAIN Append(q, w) = 1 .. (Len(q) + 1)
      /\ Append(q, w)[Len(q) + 1] = w
      /\ \A i \in 1 .. Len(q) : Append(q, w)[i] = q[i]
  BY LenProperties, AppendProperties
<1>2. \A i \in 1 .. (Len(q) + 1) : i = Len(q) + 1 \/ i \in 1 .. Len(q)
  BY <1>1
<1>3. Len(q) + 1 \in 1 .. (Len(q) + 1) /\ 1 .. Len(q) \subseteq 1 .. (Len(q) + 1)
  BY <1>1
<1> QED
  BY <1>1, <1>2, <1>3 DEF ToSet

LEMMA RegisterAsked ==
  ASSUME RegistryTypes, Asked, NEW s \in Names, Register(s)
  PROVE  Asked'
<1>1. UNCHANGED <<explicit, pending, declared, nodes, edges, outcome>> /\ dirty' = TRUE
  BY DEF Register, Invalidate
<1>2. Registered' = Registered \cup {s}
  BY RegisterFacts
<1> QED
  BY <1>1, <1>2 DEF Asked, PairsOf

LEMMA OrderAsked ==
  ASSUME ~LateConflicts, Asked, NEW a, NEW b, Order(a, b)
  PROVE  Asked'
<1> DEFINE w == <<a, b>>
<1>1. /\ UNCHANGED <<systems, pending, nodes, edges, outcome>> /\ dirty' = TRUE
      /\ explicit' = explicit \cup {w} /\ declared' = declared \cup {w}
  BY DEF Order, Invalidate
<1>2. w[2] \notin nodes
  BY DEF Order, MayOrder
<1> HIDE DEF w
<1>3. Registered' = Registered
  BY <1>1 DEF Registered
<1> QED
  BY <1>1, <1>2, <1>3 DEF Asked, PairsOf

LEMMA DeclareAsked ==
  ASSUME ~LateConflicts, RegistryTypes, Asked,
         NEW owner \in Names, NEW a \in Known, NEW b \in Known,
         owner \in {a, b}, Declare(owner, a, b)
  PROVE  Asked'
<1> DEFINE D == [pair : Known \X Known, owner : Names]
           w == [pair |-> <<a, b>>, owner |-> owner]
<1>1. /\ UNCHANGED <<systems, explicit, nodes, edges, outcome>> /\ dirty' = TRUE
      /\ pending' = Append(pending, w) /\ declared' = declared \cup {w.pair}
  BY DEF Declare, Invalidate
<1>2. pending \in Seq(D) /\ w \in D
  BY DEF RegistryTypes
<1>3. w.owner \in {w.pair[1], w.pair[2]} /\ w.pair[2] \notin nodes
  BY DEF Declare, MayOrder
<1> HIDE DEF D, w
<1>4. ToSet(pending') = ToSet(pending) \cup {w}
  BY <1>1, <1>2, AppendedSet
<1>5. Registered' = Registered
  BY <1>1 DEF Registered
<1> QED
  BY <1>1, <1>3, <1>4, <1>5 DEF Asked, PairsOf

LEMMA RemoveSystemAsked ==
  ASSUME RegistryTypes, Asked, NEW s, RemoveSystem(s)
  PROVE  Asked'
<1> DEFINE D == [pair : Known \X Known, owner : Names]
           K == {d \in ToSet(pending) : d.owner # s}
<1>1. /\ pending' = Among(pending, K) /\ outcome' = outcome
      /\ explicit' = Without(explicit, s)
      /\ declared' = Without(declared, s) \cup PairsOf(pending')
      /\ nodes' = {} /\ dirty' = TRUE
  BY DEF RemoveSystem, Invalidate
<1>2. pending \in Seq(D)
  BY DEF RegistryTypes
<1>3. K \subseteq ToSet(pending)
  OBVIOUS
<1> HIDE DEF D, K
<1>4. ToSet(pending') = K
  <2>1. ToSet(Among(pending, K)) = ToSet(pending) \cap K
    BY <1>2, AmongSet
  <2> QED
    BY <1>1, <1>3, <2>1
<1>5. ASSUME outcome # "missing", NEW p \in Without(declared, s)
      PROVE  p \in Without(explicit, s) \cup PairsOf(pending')
  <2>1. p \in declared /\ p[1] # s /\ p[2] # s
    BY DEF Without
  <2>2. CASE p \in explicit
    BY <2>1, <2>2 DEF Without
  <2>3. CASE p \notin explicit
    <3>1. PICK d \in ToSet(pending) : p = d.pair
      BY <1>5, <2>1, <2>3 DEF Asked, PairsOf
    <3>2. d.owner # s
      BY <2>1, <3>1 DEF Asked
    <3>3. d \in ToSet(pending')
      BY <1>4, <3>1, <3>2 DEF K
    <3> QED
      BY <3>1, <3>3 DEF PairsOf
  <2> QED
    BY <2>2, <2>3
<1>6. \A d \in ToSet(pending') : d.owner \in {d.pair[1], d.pair[2]}
  BY <1>3, <1>4 DEF Asked
<1>7. outcome' # "missing" => declared' \subseteq explicit' \cup PairsOf(pending')
  BY <1>1, <1>5
<1> QED
  BY <1>1, <1>6, <1>7 DEF Asked, PairsOf

\* A compile makes every ordering in force an edge, whatever else it adds.
LEMMA CompileAsked ==
  ASSUME ~Retry, RegistryTypes, Asked, Compile
  PROVE  Asked'
<1>1. /\ outcome # "missing" /\ pending' = <<>> /\ explicit' = Resolved
      /\ UNCHANGED <<systems, declared>> /\ Registered' = Registered
  BY DEF Compile, Registered
<1>2. ToSet(pending') = {}
  BY <1>1 DEF ToSet
<1>3. /\ Resolved \in SUBSET (Registered \X Registered)
      /\ explicit \subseteq Resolved
      /\ \A e \in Resolved \ explicit : e[2] \notin nodes
  BY ResolvedFacts, ResolvedFrom DEF Asked
<1>4. CASE dirty /\ Unknown # {}
  <2>1. outcome' = "missing" /\ UNCHANGED <<nodes, edges, dirty>>
    BY <1>4 DEF Compile
  <2>2. \A e \in explicit' : e[2] \in nodes' => e \in edges'
    BY <1>1, <1>3, <2>1 DEF Asked
  <2> QED
    BY <1>1, <1>2, <1>4, <2>1, <2>2 DEF Asked
<1>5. CASE ~(dirty /\ Unknown # {})
  <2> DEFINE E == IF dirty THEN NewEdges(Resolved) ELSE edges
  <2>1. nodes' = Registered /\ edges' = E /\ dirty' = FALSE
    BY <1>5 DEF Compile
  <2>2. Unknown = {}
    <3>1. CASE ~dirty
      BY <3>1 DEF Asked, Unknown
    <3> QED
      BY <1>5, <3>1
  <2>3. Resolved = explicit \cup PairsOf(pending)
    BY <2>2 DEF Resolved
  <2>4. ASSUME NEW e \in Resolved PROVE e \in E
    <3>1. e[1] \in Registered /\ e[2] \in Registered /\ e[1] # Barrier /\ e[2] # Barrier
      <4>1. Registered \subseteq Names
        BY LenProperties DEF RegistryTypes, Registered, ToSet
      <4> QED
        BY <1>3, <4>1, ScheduleAssumption DEF Barrier
    <3>2. CASE e[2] \in nodes
      <4>1. e \in edges
        BY <1>3, <3>2 DEF Asked
      <4>2. e \in Without(edges, Barrier)
        BY <3>1, <4>1 DEF Without
      <4>3. e \in NewEdges(Resolved)
        BY <4>2, NewEdgesFacts DEF Base, WithBarrier, RegistryTypes
      <4> QED
        BY <4>1, <4>3
    <3>3. CASE e[2] \notin nodes
      <4>1. dirty
        BY <3>1, <3>3 DEF Asked
      <4>2. e \in ExplicitEdges(Resolved)
        BY <3>1, <3>3 DEF ExplicitEdges, Processed
      <4>3. e \in NewEdges(Resolved)
        BY <4>2, NewEdgesFacts DEF Base, WithBarrier, RegistryTypes
      <4> QED
        BY <4>1, <4>3
    <3> QED
      BY <3>2, <3>3
  <2> HIDE DEF E
  <2>5. declared' \subseteq explicit'
    BY <1>1, <2>3 DEF Asked
  <2> QED
    BY <1>1, <1>2, <2>1, <2>4, <2>5 DEF Asked
<1> QED
  BY <1>4, <1>5

LEMMA NextAsked ==
  ASSUME ~LateConflicts, ~Retry, RegistryTypes, Asked, [Next]_vars
  PROVE  Asked'
<1>1. ASSUME UNCHANGED <<systems, explicit, pending, declared, nodes, edges, outcome>>,
             dirty' = TRUE \/ UNCHANGED dirty
      PROVE  Asked'
  <2>1. Registered' = Registered
    BY <1>1 DEF Registered
  <2> QED
    BY <1>1, <2>1 DEF Asked, PairsOf
<1>2. ASSUME UNCHANGED <<registry, compiled>> PROVE Asked'
  BY <1>1, <1>2 DEF registry, compiled
<1>3. ASSUME NEW s \in Names, Register(s) PROVE Asked'
  BY <1>3, RegisterAsked
<1>4. ASSUME NEW a \in Registered, NEW b \in Registered, Order(a, b) PROVE Asked'
  BY <1>4, OrderAsked
<1>5. ASSUME systems # <<>>, NEW other \in Forward,
             Declare(Last(systems), Last(systems), other)
             \/ Declare(Last(systems), other, Last(systems))
      PROVE  Asked'
  <2>1. systems \in Seq(Names)
    BY DEF RegistryTypes
  <2>2. Len(systems) \in 1 .. Len(systems)
    BY <1>5, <2>1, EmptySeq, LenProperties
  <2>3. Last(systems) \in Names
    BY <2>1, <2>2, ElementOfSeq DEF Last
  <2>4. Last(systems) \in Known /\ other \in Known
    BY <2>3 DEF Known
  <2> QED
    BY <1>5, <2>3, <2>4, DeclareAsked
<1>6. ASSUME NEW s \in Registered, RemoveSystem(s) PROVE Asked'
  BY <1>6, RemoveSystemAsked
<1>7. ASSUME NEW order \in Orders, ConfigureStages(order) PROVE Asked'
  BY <1>1, <1>7 DEF ConfigureStages, Invalidate
<1>8. ASSUME NEW b \in EventOrders, EnableEventOrdering(b) PROVE Asked'
  BY <1>1, <1>8 DEF EnableEventOrdering, Invalidate
<1>9. ASSUME Compile PROVE Asked'
  BY <1>9, CompileAsked
<1>10. ASSUME NEW steps \in 0 .. MaxSteps, BeginFrame(steps) PROVE Asked'
  BY <1>2, <1>10 DEF BeginFrame
<1>11. ASSUME SkipStage PROVE Asked'
  BY <1>2, <1>11 DEF SkipStage
<1>12. ASSUME NEW holding \in SUBSET Members, NEW how \in {"sequential", "parallel"},
              OpenStage(holding, how)
       PROVE  Asked'
  BY <1>2, <1>12 DEF OpenStage
<1>13. ASSUME NEW s \in enabled, Start(s) \/ Finish(s) PROVE Asked'
  BY <1>2, <1>13 DEF Start, Finish
<1>14. ASSUME CloseStage PROVE Asked'
  BY <1>2, <1>14 DEF CloseStage
<1>15. ASSUME EndFrame PROVE Asked'
  BY <1>2, <1>15 DEF EndFrame
<1>16. ASSUME UNCHANGED vars PROVE Asked'
  BY <1>2, <1>16 DEF vars
<1> QED
  BY <1>3, <1>4, <1>5, <1>6, <1>7, <1>8, <1>9, <1>10, <1>11, <1>12, <1>13, <1>14,
     <1>15, <1>16 DEF Next

\* An edge within a label leads to a later stage.
LEMMA EdgeKept ==
  ASSUME Held, Turns, NEW b \in running, NEW a \in Registered, Label(a) = Label(b),
         <<a, b>> \in edges
  PROVE  passed[a] > passed[b]
<1>1. PICK i, k \in DOMAIN plan :
         /\ \E c \in DOMAIN plan[i].systems : plan[i].systems[c] = a
         /\ \E d \in DOMAIN plan[k].systems : plan[k].systems[d] = b
         /\ plan[i].label = Label(a) /\ plan[k].label = Label(b)
         /\ passed[b] \in Nat
         /\ passed[a] = passed[b] + IF i < k THEN 1 ELSE 0
  BY PassesCompared
<1>2. PICK c \in DOMAIN plan[i].systems, d \in DOMAIN plan[k].systems :
         plan[i].systems[c] = a /\ plan[k].systems[d] = b
  BY <1>1
<1>3. <<plan[i].systems[c], plan[k].systems[d]>> \in edges
  BY <1>2
<1>4. plan[i].label = plan[k].label
  BY <1>1
<1>5. InTurn(plan, edges)
  BY DEF Held, Turns, FrameTurns, InFrame
<1>6. i < k
  BY <1>3, <1>4, <1>5 DEF InTurn
<1> QED
  BY <1>1, <1>6

\* What runs is registered, and the plan stands.
LEMMA RunningFacts ==
  ASSUME Held, Turns, NEW b \in running
  PROVE  b \in Registered /\ outcome = "ok" /\ ~dirty
<1>1. InFrame /\ b \in Members /\ FrameTurns
  BY DEF Turns, InFrame
<1>2. outcome = "ok" /\ ~dirty /\ HasPlan /\ Holds(plan, Registered)
  BY <1>1 DEF FrameTurns, HasPlan, Held
<1>3. at \in 1 .. Len(schedule) /\ schedule \in Seq(DOMAIN plan)
  BY <1>1, LenProperties DEF FrameTurns, Turns, InFrame, Idle
<1>4. schedule[at] \in DOMAIN plan
  BY <1>3, ElementOfSeq
<1>5. PICK d \in DOMAIN plan[schedule[at]].systems : plan[schedule[at]].systems[d] = b
  BY <1>1 DEF Members, Open, ToSet
<1>6. In(b, SystemsOf(plan))
  BY <1>4, <1>5 DEF In, SystemsOf
<1> QED
  BY <1>2, <1>6 DEF Holds

\* An ordering in force is an edge of the graph.
LEMMA AskedKept ==
  ASSUME Held, Turns, Asked
  PROVE  OrderKept
<1> SUFFICES ASSUME NEW b \in running, NEW a \in Registered,
                    <<a, b>> \in declared, Label(a) = Label(b)
             PROVE  passed[a] > passed[b]
  BY DEF OrderKept
<1>1. b \in Registered /\ outcome = "ok" /\ ~dirty
  BY RunningFacts
<1>2. <<a, b>> \in explicit
  <2>1. ToSet(pending) = {}
    BY <1>1 DEF Asked, ToSet
  <2> QED
    BY <1>1, <2>1 DEF Asked, PairsOf
<1>3. b \in nodes
  BY <1>1 DEF Asked
<1>4. <<a, b>> \in edges
  <2> DEFINE w == <<a, b>>
  <2>1. w \in explicit /\ w[2] = b
    BY <1>2
  <2> HIDE DEF w
  <2>2. w \in edges
    BY <1>3, <2>1 DEF Asked
  <2> QED
    BY <2>2 DEF w
<1> QED
  BY <1>4, EdgeKept

\* An ordering asked for between two systems of one label is kept in every pass of
\* the label, whether it was given to registered systems or by name and resolved by
\* a compile, through removals, recompiles and the cutting of stages; except that a
\* compile that stops at a missing name and is repeated has lost the orderings.
THEOREM OrderingsKept ==
  ASSUME ~LateConflicts, ~Retry
  PROVE  Spec => []OrderKept
<1>1. Held /\ Turns /\ Asked /\ [Next]_vars => Held' /\ Turns' /\ Asked'
  <2>1. Held => RegistryTypes
    BY DEF Held
  <2> QED
    BY <2>1, NextHeld, NextTurns, NextAsked
<1>2. Init => Asked
  <2> SUFFICES ASSUME Init PROVE Asked
    OBVIOUS
  <2>1. ToSet(pending) = {} /\ declared = {} /\ explicit = {} /\ nodes = {}
        /\ pending = <<>> /\ Registered = {}
    BY DEF Init, ToSet, Registered
  <2> QED
    BY <2>1 DEF Asked
<1>3. Init => Held /\ Turns /\ Asked
  BY <1>2, InitHeld, InitTurns
<1>4. Held /\ Turns /\ Asked => OrderKept
  BY AskedKept
<1> QED
  BY <1>1, <1>3, <1>4, PTL DEF Spec

-----------------------------------------------------------------------------
(* Listeners come after emitters.                                          *)

\* b listens to a, and nothing but that decides which of the two goes first.
Follows(a, b) ==
  /\ a # b /\ Declares(a) /\ Declares(b)
  /\ Sends(a, b) /\ ~Sends(b, a)
  /\ ~SharesData(a, b) /\ ~Emits(a, b)

\* Among S an emitter has an edge to its listener unless there is a way back, and
\* an edge back only where an ordering asks for it.
SentIn(E, S, order) ==
  \A a, b \in S :
     Follows(a, b) =>
        /\ <<a, b>> \in E \/ Leads(Without(E, Barrier), b, a)
        /\ <<b, a>> \in E => <<b, a>> \in order

Sent ==
  /\ eventOrdering = TRUE
  /\ edges \subseteq (nodes \cup {Barrier}) \X (nodes \cup {Barrier})
  /\ nodes \subseteq Registered
  /\ NodesFirst
  /\ ~dirty => nodes = Registered /\ pending = <<>>
  /\ SentIn(edges, nodes, explicit)

LEMMA FollowsConflict ==
  ASSUME NEW a, NEW b, Follows(a, b), eventOrdering = TRUE
  PROVE  Conflict(a, b) = "forward" /\ Conflict(b, a) = "backward"
<1>1. ConflictCases(a, b) /\ ConflictCases(b, a)
  BY ConflictTable
<1>2. /\ ~WholeWorld(a, b) /\ ~Writes(a, b) /\ ~Feeds(a, b) /\ ~Feeds(b, a)
      /\ ~Emits(a, b) /\ Sends(a, b) /\ ~Sends(b, a)
  BY DEF Follows, SharesData, WholeWorld
<1>3. ~WholeWorld(b, a) /\ ~Writes(b, a) /\ ~Emits(b, a)
  BY <1>2, Mutual
<1> QED
  BY <1>1, <1>2, <1>3 DEF ConflictCases

\* Where the edges of a compile come from.
LEMMA NewEdgesFrom ==
  ASSUME NEW T, systems \in Seq(T), NEW order
  PROVE  \A e \in NewEdges(order) :
            \/ e \in Base(order)
            \/ \E i, j \in DOMAIN systems : \E E : e \in ConflictEdges(E, order, i, j)
<1> DEFINE n == Len(systems)
           N == n * n
           Comes(e) == \/ e \in Base(order)
                        \/ \E i, j \in DOMAIN systems : \E E : e \in ConflictEdges(E, order, i, j)
<1>1. n \in Nat /\ N \in Nat /\ DOMAIN systems = 1 .. n
  BY LenProperties
<1>2. PICK after : Grows(after, order)
  BY Growth
<1>3. /\ after[0] = Base(order)
      /\ \A k \in 1 .. N :
            after[k] = after[k - 1] \cup ConflictEdges(after[k - 1], order, Row(k), Col(k))
      /\ NewEdges(order) = after[N]
  BY <1>2 DEF Grows
<1>4. \A k \in 1 .. N : Row(k) \in DOMAIN systems /\ Col(k) \in DOMAIN systems
  <2> SUFFICES ASSUME NEW k \in 1 .. N
               PROVE  Row(k) \in DOMAIN systems /\ Col(k) \in DOMAIN systems
    OBVIOUS
  <2>1. n # 0
    BY <1>1
  <2>2. n \in Nat \ {0}
    BY <1>1, <2>1
  <2> QED
    BY <1>1, <2>2, ModFacts DEF Row, Col
<1> HIDE DEF N
<1> DEFINE P == {k \in Nat : k <= N => \A e \in after[k] : Comes(e)}
<1>5. 0 \in P
  BY <1>3
<1>6. ASSUME NEW k \in Nat, k \in P PROVE k + 1 \in P
  <2> SUFFICES ASSUME k + 1 <= N, NEW e \in after[k + 1] PROVE Comes(e)
    OBVIOUS
  <2>1. k + 1 \in 1 .. N /\ (k + 1) - 1 = k /\ k <= N
    BY <1>1
  <2>2. e \in after[k] \/ e \in ConflictEdges(after[k], order, Row(k + 1), Col(k + 1))
    BY <1>3, <2>1
  <2>3. Row(k + 1) \in DOMAIN systems /\ Col(k + 1) \in DOMAIN systems
    BY <1>4, <2>1
  <2> QED
    BY <1>6, <2>1, <2>2, <2>3
<1>7. Nat \subseteq P
  BY <1>5, <1>6, Induction
<1> QED
  BY <1>1, <1>3, <1>7

\* An edge from a listener back to its emitter was there or was asked for.
LEMMA BackEdgesAsked ==
  ASSUME NEW T, systems \in Seq(T), Barrier \notin Registered, eventOrdering = TRUE,
         NEW order, NEW a \in Registered, NEW b \in Registered, Follows(a, b),
         <<b, a>> \in NewEdges(order)
  PROVE  <<b, a>> \in edges \/ <<b, a>> \in order
<1> DEFINE w == <<b, a>>
<1>1. /\ w[1] = b /\ w[2] = a /\ w[1] # Barrier /\ w[2] # Barrier
  OBVIOUS
<1>2. \/ w \in Base(order)
      \/ \E i, j \in DOMAIN systems : \E E : w \in ConflictEdges(E, order, i, j)
  BY NewEdgesFrom
<1>3. Conflict(a, b) = "forward" /\ Conflict(b, a) = "backward" /\ a # b
  BY FollowsConflict DEF Follows
<1>4. ASSUME NEW i \in DOMAIN systems, NEW j \in DOMAIN systems, NEW E,
             w \in ConflictEdges(E, order, i, j)
      PROVE  FALSE
  <2> DEFINE x == systems[i]
             y == systems[j]
  <2>1. \/ Conflict(x, y) = "both ways"
        \/ Conflict(x, y) \in Symmetric
        \/ Conflict(x, y) = "forward" /\ w = <<x, y>>
        \/ Conflict(x, y) = "backward" /\ w = <<y, x>>
    BY <1>4 DEF ConflictEdges
  <2>2. w = <<x, y>> \/ w = <<y, x>>
    BY <1>4 DEF ConflictEdges
  <2>3. (x = b /\ y = a) \/ (x = a /\ y = b)
    BY <2>2
  <2> HIDE DEF x, y
  <2>4. Conflict(x, y) = "forward" => x = a /\ y = b
    BY <1>3, <2>3
  <2>5. Conflict(x, y) = "backward" => x = b /\ y = a
    BY <1>3, <2>3
  <2>6. Conflict(x, y) \in {"forward", "backward"}
    BY <1>3, <2>3
  <2> QED
    BY <1>3, <2>1, <2>4, <2>5, <2>6 DEF Symmetric
<1>5. w \in Base(order)
  BY <1>2, <1>4
<1> HIDE DEF w
<1>6. w \in edges \/ w \in order
  <2>1. w \in Without(edges, Barrier) \cup ExplicitEdges(order)
    <3>1. w \notin {<<s, Barrier>> : s \in Declaring}
      BY <1>1
    <3>2. \A S : w \notin {<<Barrier, s>> : s \in S}
      BY <1>1
    <3> QED
      BY <1>5, <3>1, <3>2 DEF Base, WithBarrier, Declaring
  <2> QED
    BY <2>1 DEF Without, ExplicitEdges
<1> QED
  BY <1>6 DEF w

\* Comparing an emitter with its listener leaves an edge or a way back.
LEMMA ComparedSent ==
  ASSUME NEW T, systems \in Seq(T), Barrier \notin Registered, eventOrdering = TRUE,
         NodesFirst, NEW order \in SUBSET (Registered \X Registered),
         NEW a \in Registered, NEW b \in Registered, Follows(a, b),
         ~({a, b} \subseteq nodes)
  PROVE  <<a, b>> \in NewEdges(order) \/ Leads(Without(NewEdges(order), Barrier), b, a)
<1> DEFINE G == NewEdges(order)
<1>1. PICK i \in DOMAIN systems, j \in DOMAIN systems : systems[i] = a /\ systems[j] = b
  BY DEF Registered, ToSet
<1>2. Conflict(a, b) = "forward" /\ Conflict(b, a) = "backward"
      /\ Declares(a) /\ Declares(b) /\ i # j
  BY <1>1, FollowsConflict DEF Follows
<1>3. <<a, b>> \in G \/ \E E \in SUBSET G : HasPath(E, b, a)
  <2>1. CASE a \in Processed
    <3>1. PICK E \in SUBSET G : ConflictEdges(E, order, i, j) \subseteq G
      BY NewEdgesFacts
    <3>2. ~HasPath(E, b, a) => <<a, b>> \in ConflictEdges(E, order, i, j)
      BY <1>1, <1>2, <2>1 DEF ConflictEdges
    <3> QED
      BY <3>1, <3>2
  <2>2. CASE a \notin Processed
    <3>1. a \in nodes /\ b \notin nodes
      BY <2>2 DEF Processed
    <3>2. b \in Processed
      BY <3>1 DEF Processed
    <3>3. i < j
      <4>1. ~(j < i)
        BY <1>1, <3>1 DEF NodesFirst
      <4> QED
        BY <1>2, <4>1, LenProperties
    <3>4. PICK E \in SUBSET G : ConflictEdges(E, order, j, i) \subseteq G
      BY NewEdgesFacts
    <3>5. ~HasPath(E, b, a) => <<a, b>> \in ConflictEdges(E, order, j, i)
      BY <1>1, <1>2, <3>2, <3>3 DEF ConflictEdges
    <3> QED
      BY <3>4, <3>5
  <2> QED
    BY <2>1, <2>2
<1>4. ASSUME NEW E \in SUBSET G, HasPath(E, b, a) PROVE Leads(Without(G, Barrier), b, a)
  <2>1. Leads(G, b, a)
    BY <1>4, HasPathLeads, LeadsFacts
  <2>2. a \in Declaring /\ b \in Declaring
    BY <1>2 DEF Declaring
  <2> QED
    BY <2>1, <2>2, AroundBarrier
<1> QED
  BY <1>3, <1>4

LEMMA NewEdgesSent ==
  ASSUME NEW T, systems \in Seq(T), Barrier \notin Registered, eventOrdering = TRUE,
         NodesFirst, NEW order \in SUBSET (Registered \X Registered),
         edges \subseteq (nodes \cup {Barrier}) \X (nodes \cup {Barrier}),
         explicit \subseteq order, SentIn(edges, nodes, explicit)
  PROVE  SentIn(NewEdges(order), Registered, order)
<1> DEFINE G == NewEdges(order)
<1> SUFFICES ASSUME NEW a \in Registered, NEW b \in Registered, Follows(a, b)
             PROVE  /\ <<a, b>> \in G \/ Leads(Without(G, Barrier), b, a)
                    /\ <<b, a>> \in G => <<b, a>> \in order
  BY DEF SentIn
<1>1. Without(edges, Barrier) \subseteq G
  BY NewEdgesFacts DEF Base, WithBarrier
<1>2. <<a, b>> \in G \/ Leads(Without(G, Barrier), b, a)
  <2>1. CASE {a, b} \subseteq nodes
    <3>1. <<a, b>> \in edges \/ Leads(Without(edges, Barrier), b, a)
      BY <2>1 DEF SentIn
    <3>2. <<a, b>> \in edges => <<a, b>> \in G
      <4> DEFINE w == <<a, b>>
      <4>1. w[1] # Barrier /\ w[2] # Barrier
        OBVIOUS
      <4> HIDE DEF w
      <4>2. w \in edges => w \in G
        BY <1>1, <4>1 DEF Without
      <4> QED
        BY <4>2 DEF w
    <3>3. Without(edges, Barrier) \subseteq Without(G, Barrier)
      BY <1>1 DEF Without
    <3> QED
      BY <3>1, <3>2, <3>3, LeadsFacts
  <2>2. CASE ~({a, b} \subseteq nodes)
    BY <2>2, ComparedSent
  <2> QED
    BY <2>1, <2>2
<1>3. ASSUME <<b, a>> \in G PROVE <<b, a>> \in order
  <2>1. <<b, a>> \in edges \/ <<b, a>> \in order
    BY <1>3, BackEdgesAsked
  <2>2. ASSUME <<b, a>> \in edges PROVE <<b, a>> \in order
    <3>1. a \in nodes /\ b \in nodes
      BY <2>2
    <3> QED
      BY <2>2, <3>1 DEF SentIn
  <2> QED
    BY <2>1, <2>2
<1> QED
  BY <1>2, <1>3

\* What is registered and ordered in between leaves the graph as it is.
LEMMA SentKept ==
  ASSUME Sent, UNCHANGED <<nodes, edges, eventOrdering>>, explicit \subseteq explicit',
         nodes \subseteq Registered', NodesFirst',
         ~dirty' => nodes = Registered' /\ pending' = <<>>
  PROVE  Sent'
  BY DEF Sent, SentIn

LEMMA CompileSent ==
  ASSUME RegistryTypes, Sent, Compile
  PROVE  Sent'
<1>1. /\ pending' = <<>> /\ explicit' = Resolved /\ Registered' = Registered
      /\ UNCHANGED <<systems, eventOrdering>> /\ systems \in Seq(Names)
  BY DEF Compile, Registered, RegistryTypes
<1>2. Resolved \in SUBSET (Registered \X Registered) /\ explicit \subseteq Resolved
      /\ (pending = <<>> => Resolved = explicit)
  BY ResolvedFacts, ResolvedFrom
<1>3. Barrier \notin Registered
  <2>1. Registered \subseteq Names
    BY LenProperties DEF RegistryTypes, Registered, ToSet
  <2> QED
    BY <2>1, ScheduleAssumption DEF Barrier
<1>4. CASE dirty /\ Unknown # {}
  <2>1. UNCHANGED <<nodes, edges, dirty>>
    BY <1>4 DEF Compile
  <2>2. NodesFirst' /\ nodes \subseteq Registered' /\ explicit \subseteq explicit'
    BY <1>1, <1>2, <2>1 DEF Sent, NodesFirst
  <2> QED
    BY <1>1, <1>4, <2>1, <2>2, SentKept
<1>5. CASE ~(dirty /\ Unknown # {})
  <2> DEFINE E == IF dirty THEN NewEdges(Resolved) ELSE edges
             M == Registered \cup {Barrier}
  <2>1. nodes' = Registered /\ edges' = E /\ dirty' = FALSE
    BY <1>5 DEF Compile
  <2>2. SentIn(E, Registered, Resolved)
    <3>1. CASE dirty
      BY <1>1, <1>2, <1>3, <3>1, NewEdgesSent DEF Sent
    <3>2. CASE ~dirty
      BY <1>2, <3>2 DEF Sent
    <3> QED
      BY <3>1, <3>2
  <2>3. E \subseteq M \X M
    <3>1. edges \subseteq M \X M
      BY DEF Sent
    <3>2. NewEdges(Resolved) \subseteq M \X M
      BY <1>1, <1>2, <3>1, NewEdgesTyped
    <3> QED
      BY <3>1, <3>2
  <2>4. NodesFirst'
    <3>1. \A i \in DOMAIN systems : systems[i] \in Registered
      BY DEF Registered, ToSet
    <3> QED
      BY <1>1, <2>1, <3>1 DEF NodesFirst
  <2> HIDE DEF E
  <2>5. eventOrdering' = TRUE
    BY <1>1 DEF Sent
  <2> QED
    BY <1>1, <2>1, <2>2, <2>3, <2>4, <2>5 DEF Sent
<1> QED
  BY <1>4, <1>5

LEMMA NextSent ==
  ASSUME EventOrders \subseteq {TRUE}, RegistryTypes, Sent, [Next]_vars
  PROVE  Sent'
<1>1. ASSUME UNCHANGED <<systems, nodes, edges, eventOrdering>>, explicit \subseteq explicit',
             dirty' = TRUE \/ UNCHANGED <<dirty, pending>>
      PROVE  Sent'
  <2>1. Registered' = Registered /\ NodesFirst'
    BY <1>1 DEF Registered, Sent, NodesFirst
  <2>2. nodes \subseteq Registered' /\ (~dirty' => nodes = Registered' /\ pending' = <<>>)
    BY <1>1, <2>1 DEF Sent
  <2> QED
    BY <1>1, <2>1, <2>2, SentKept
<1>2. ASSUME UNCHANGED <<registry, compiled>> PROVE Sent'
  BY <1>1, <1>2 DEF registry, compiled
<1>3. ASSUME NEW s \in Names, Register(s) PROVE Sent'
  <2>1. UNCHANGED <<nodes, edges, eventOrdering, explicit>> /\ dirty' = TRUE
    BY <1>3 DEF Register, Invalidate
  <2>2. NodesFirst' /\ Registered' = Registered \cup {s}
    BY <1>3, RegisterNodesFirst, RegisterFacts DEF Sent
  <2>3. nodes \subseteq Registered'
    BY <2>2 DEF Sent
  <2> QED
    BY <2>1, <2>2, <2>3, SentKept
<1>4. ASSUME NEW a \in Registered, NEW b \in Registered, Order(a, b) PROVE Sent'
  BY <1>1, <1>4 DEF Order, Invalidate
<1>5. ASSUME NEW owner, NEW a, NEW b, Declare(owner, a, b) PROVE Sent'
  BY <1>1, <1>5 DEF Declare, Invalidate
<1>6. ASSUME NEW s \in Registered, RemoveSystem(s) PROVE Sent'
  <2>1. nodes' = {} /\ edges' = {} /\ dirty' = TRUE /\ eventOrdering' = eventOrdering
    BY <1>6 DEF RemoveSystem, Invalidate
  <2> QED
    BY <2>1 DEF Sent, NodesFirst, SentIn
<1>7. ASSUME NEW order \in Orders, ConfigureStages(order) PROVE Sent'
  BY <1>1, <1>7 DEF ConfigureStages, Invalidate
<1>8. ASSUME NEW b \in EventOrders, EnableEventOrdering(b) PROVE Sent'
  <2>1. eventOrdering' = eventOrdering
    BY <1>8 DEF EnableEventOrdering, Sent
  <2> QED
    BY <1>1, <1>8, <2>1 DEF EnableEventOrdering, Invalidate
<1>9. ASSUME Compile PROVE Sent'
  BY <1>9, CompileSent
<1>10. ASSUME NEW steps \in 0 .. MaxSteps, BeginFrame(steps) PROVE Sent'
  BY <1>2, <1>10 DEF BeginFrame
<1>11. ASSUME SkipStage PROVE Sent'
  BY <1>2, <1>11 DEF SkipStage
<1>12. ASSUME NEW holding \in SUBSET Members, NEW how \in {"sequential", "parallel"},
              OpenStage(holding, how)
       PROVE  Sent'
  BY <1>2, <1>12 DEF OpenStage
<1>13. ASSUME NEW s \in enabled, Start(s) \/ Finish(s) PROVE Sent'
  BY <1>2, <1>13 DEF Start, Finish
<1>14. ASSUME CloseStage PROVE Sent'
  BY <1>2, <1>14 DEF CloseStage
<1>15. ASSUME EndFrame PROVE Sent'
  BY <1>2, <1>15 DEF EndFrame
<1>16. ASSUME UNCHANGED vars PROVE Sent'
  BY <1>2, <1>16 DEF vars
<1> QED
  BY <1>3, <1>4, <1>5, <1>6, <1>7, <1>8, <1>9, <1>10, <1>11, <1>12, <1>13, <1>14,
     <1>15, <1>16 DEF Next

LEMMA SentFirst ==
  ASSUME Held, Turns, Sent
  PROVE  EmitFirst
<1> SUFFICES ASSUME NEW b \in running, NEW a \in Registered \ {b},
                    Declares(a), Declares(b), Sends(a, b), Label(a) = Label(b),
                    <<b, a>> \notin explicit,
                    ~SharesData(a, b), ~Emits(a, b), ~Sends(b, a)
             PROVE  passed[a] > passed[b] \/ HasPath(edges \ {<<b, a>>}, b, a)
  BY DEF EmitFirst
<1>1. a \in nodes /\ b \in nodes
  BY RunningFacts DEF Sent
<1>2. Follows(a, b)
  BY DEF Follows
<1>3. /\ <<a, b>> \in edges \/ Leads(Without(edges, Barrier), b, a)
      /\ <<b, a>> \notin edges
  BY <1>1, <1>2 DEF Sent, SentIn
<1>4. CASE <<a, b>> \in edges
  BY <1>4, EdgeKept
<1>5. CASE Leads(Without(edges, Barrier), b, a)
  <2>1. Leads(edges, b, a)
    BY <1>5, LeadsFacts DEF Without
  <2>2. edges \ {<<b, a>>} = edges
    BY <1>3
  <2> QED
    BY <2>1, <2>2, HasPathLeads
<1> QED
  BY <1>3, <1>4, <1>5

\* A system that emits an event has its turn before one of its label that listens to
\* it, in every pass of the label, unless one of the named reasons puts the listener
\* first: whatever was registered, ordered, removed and compiled before, the edge is
\* there or a path leads back that the event did not make.
THEOREM ListenersFollow ==
  ASSUME EventOrders \subseteq {TRUE}
  PROVE  Spec => []EmitFirst
<1>1. Held /\ Turns /\ Sent /\ [Next]_vars => Held' /\ Turns' /\ Sent'
  <2>1. Held => RegistryTypes
    BY DEF Held
  <2> QED
    BY <2>1, NextHeld, NextTurns, NextSent
<1>2. Init => Sent
  <2> SUFFICES ASSUME Init PROVE Sent
    OBVIOUS
  <2>1. eventOrdering = TRUE /\ nodes = {} /\ edges = {} /\ pending = <<>> /\ Registered = {}
    BY DEF Init, ToSet, Registered
  <2> QED
    BY <2>1 DEF Sent, NodesFirst, SentIn
<1>3. Init => Held /\ Turns /\ Sent
  BY <1>2, InitHeld, InitTurns
<1>4. Held /\ Turns /\ Sent => EmitFirst
  BY SentFirst
<1> QED
  BY <1>1, <1>3, <1>4, PTL DEF Spec

=============================================================================
