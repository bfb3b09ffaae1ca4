----------------------------- MODULE StorageProof -----------------------------
(***************************************************************************)
(* Proofs about Storage: rows and locations agree, values stay with their  *)
(* entities, hooks tell what has happened, and all of it implements        *)
(* EntityMap.                                                              *)
(***************************************************************************)
EXTENDS Storage, SequenceTheorems, FiniteSetTheorems, TLAPS

Place == [arch : Archetype, row : Nat]

\* Rows R and locations L agree.
Placed(R, L) ==
    /\ R \in [Archetype -> Seq(Entity)]
    /\ L \in [Entity -> Place \cup {Nothing}]
    /\ \A A \in Archetype : \A i \in 1..Len(R[A]) : L[R[A][i]] = [arch |-> A, row |-> i]
    /\ \A e \in Entity : L[e] # Nothing =>
          L[e].row \in 1..Len(R[L[e].arch]) /\ R[L[e].arch][L[e].row] = e

\* The columns C have the values of the rows R.
Filled(R, C) ==
    /\ \A A \in Archetype : C[A] \in [A -> Seq(Cells)]
    /\ C = [A \in Archetype |-> C[A]]
    /\ \A A \in Archetype : \A c \in A :
          /\ Len(C[A][c]) = Len(R[A])
          /\ \A i \in 1..Len(R[A]) : C[A][c][i].of = R[A][i]

\* Handles that have not been issued are not located.
NeverBefore == used \in SUBSET Entity /\ \A e \in Entity : Located(e) => e \in used

RInv == Placed(rows, location) /\ NeverBefore

CInv == RInv /\ Filled(rows, columns) /\ now \in Nat

-----------------------------------------------------------------------------
(* Sequences and places.                                                   *)

LEMMA NotAPlace == Nothing \notin Place
BY StorageAssumption DEF Place, Archetype

LEMMA SwapRemoveFacts ==
    ASSUME NEW S, NEW s \in Seq(S), NEW i \in 1..Len(s)
    PROVE  /\ SwapRemove(s, i) \in Seq(S)
           /\ Len(SwapRemove(s, i)) = Len(s) - 1
           /\ \A j \in 1..(Len(s) - 1) :
                 SwapRemove(s, i)[j] = IF j = i THEN s[Len(s)] ELSE s[j]
<1>1. Len(s) \in Nat /\ Len(s) - 1 \in Nat /\ \A j \in 1..Len(s) : s[j] \in S
  BY LenProperties, ElementOfSeq
<1>2. SwapRemove(s, i) \in [1..(Len(s) - 1) -> S]
  BY <1>1 DEF SwapRemove
<1>3. SwapRemove(s, i) \in Seq(S)
  BY <1>1, <1>2, SeqDef
<1>4. Len(SwapRemove(s, i)) = Len(s) - 1
  BY <1>1, <1>2, <1>3, LenProperties
<1> QED
  BY <1>3, <1>4 DEF SwapRemove

\* What the locations say of a located entity, and the rows of a row.
LEMMA PlacedFacts ==
    ASSUME NEW R, NEW L, Placed(R, L)
    PROVE  /\ \A A \in Archetype : /\ R[A] \in Seq(Entity) /\ Len(R[A]) \in Nat
                                   /\ \A i \in 1..Len(R[A]) : R[A][i] \in Entity
           /\ \A e \in Entity : L[e] # Nothing =>
                 L[e] \in Place /\ L[e].arch \in Archetype /\ L[e].row \in Nat
<1>1. ASSUME NEW A \in Archetype
      PROVE  /\ R[A] \in Seq(Entity) /\ Len(R[A]) \in Nat
             /\ \A i \in 1..Len(R[A]) : R[A][i] \in Entity
  <2>1. R[A] \in Seq(Entity)
    BY DEF Placed
  <2> QED
    BY <2>1, LenProperties, ElementOfSeq
<1>2. \A e \in Entity : L[e] # Nothing => L[e] \in Place
  BY DEF Placed
<1> QED
  BY <1>1, <1>2 DEF Place

-----------------------------------------------------------------------------
(* A row goes away.                                                        *)

RowsLess(e)     == [rows EXCEPT ![ArchOf(e)] = SwapRemove(@, RowOf(e))]
ColumnsLess(e)  == [columns EXCEPT ![ArchOf(e)] = RowDropped(@, RowOf(e))]
LocationLess(e) == [Displaced(rows[ArchOf(e)], RowOf(e)) EXCEPT ![e] = Nothing]

\* Where the others are afterwards: only the last of the archetype moves.
LEMMA LocationsAfter ==
    ASSUME Placed(rows, location), NEW e \in Entity, Located(e)
    PROVE  LET A == ArchOf(e)
               n == Len(rows[A])
               last == rows[A][n]
           IN  /\ A \in Archetype /\ n \in Nat /\ RowOf(e) \in 1..n /\ last \in Entity
               /\ location[last] = [arch |-> A, row |-> n]
               /\ RowOf(e) = n <=> last = e
               /\ LocationLess(e) \in [Entity -> Place \cup {Nothing}]
               /\ LocationLess(e)[e] = Nothing
               /\ \A f \in Entity \ {e} :
                     LocationLess(e)[f] = IF f = last THEN [arch |-> A, row |-> RowOf(e)]
                                          ELSE location[f]
<1> DEFINE A == ArchOf(e)
           n == Len(rows[A])
           last == rows[A][n]
           row == RowOf(e)
<1>1. A \in Archetype /\ n \in Nat /\ row \in 1..n /\ rows[A][row] = e
  BY PlacedFacts DEF Placed, Located, ArchOf, RowOf
<1>a. \A i \in 1..n : rows[A][i] \in Entity
                        /\ location[rows[A][i]] = [arch |-> A, row |-> i]
  <2>1. \A i \in 1..n : rows[A][i] \in Entity
    BY <1>1, PlacedFacts
  <2> QED
    BY <1>1, <2>1 DEF Placed
<1>b. n \in 1..n
  BY <1>1
<1>2. last \in Entity /\ location[last] = [arch |-> A, row |-> n]
  BY <1>a, <1>b
<1>3. location[e] = [arch |-> A, row |-> row]
  <2>1. location[rows[A][row]] = [arch |-> A, row |-> row]
    BY <1>1, <1>a
  <2> QED
    BY <1>1, <2>1
<1>4. row = n <=> last = e
  BY <1>1, <1>2, <1>3
<1>5. CASE row = n
  <2>1. LocationLess(e) = [location EXCEPT ![e] = Nothing]
    BY <1>5 DEF LocationLess, Displaced
  <2> QED
    BY <1>1, <1>2, <1>4, <1>5, <2>1 DEF Placed
<1>6. CASE row # n
  <2>1. LocationLess(e) = [[location EXCEPT ![last].row = row] EXCEPT ![e] = Nothing]
    BY <1>6 DEF LocationLess, Displaced
  <2>2. [location[last] EXCEPT !.row = row] = [arch |-> A, row |-> row]
    BY <1>2
  <2>3. [arch |-> A, row |-> row] \in Place
    BY <1>1 DEF Place
  <2> QED
    BY <1>1, <1>2, <1>4, <1>6, <2>1, <2>2, <2>3 DEF Placed
<1> QED
  BY <1>1, <1>2, <1>4, <1>5, <1>6

LEMMA RowsAfter ==
    ASSUME Placed(rows, location), NEW e \in Entity, Located(e)
    PROVE  LET A == ArchOf(e)
               n == Len(rows[A])
           IN  /\ RowsLess(e) \in [Archetype -> Seq(Entity)]
               /\ \A B \in Archetype \ {A} : RowsLess(e)[B] = rows[B]
               /\ Len(RowsLess(e)[A]) = n - 1
               /\ \A j \in 1..(n - 1) :
                     RowsLess(e)[A][j] = IF j = RowOf(e) THEN rows[A][n] ELSE rows[A][j]
<1>1. ArchOf(e) \in Archetype /\ RowOf(e) \in 1..Len(rows[ArchOf(e)])
  BY LocationsAfter
<1>2. rows \in [Archetype -> Seq(Entity)] /\ rows[ArchOf(e)] \in Seq(Entity)
  BY <1>1 DEF Placed
<1> DEFINE A == ArchOf(e)
           S == SwapRemove(rows[A], RowOf(e))
<1>3. /\ S \in Seq(Entity) /\ Len(S) = Len(rows[A]) - 1
      /\ \A j \in 1..(Len(rows[A]) - 1) :
            S[j] = IF j = RowOf(e) THEN rows[A][Len(rows[A])] ELSE rows[A][j]
  BY <1>1, <1>2, SwapRemoveFacts
<1>4. RowsLess(e) = [rows EXCEPT ![A] = S]
  BY DEF RowsLess
<1> QED
  BY <1>1, <1>2, <1>3, <1>4

LEMMA RemovalPlaced ==
    ASSUME Placed(rows, location), NEW e \in Entity, Located(e)
    PROVE  Placed(RowsLess(e), LocationLess(e))
<1> DEFINE A == ArchOf(e)
           n == Len(rows[A])
           last == rows[A][n]
           row == RowOf(e)
           R == RowsLess(e)
           L == LocationLess(e)
<1>1. /\ A \in Archetype /\ n \in Nat /\ row \in 1..n /\ last \in Entity
      /\ location[last] = [arch |-> A, row |-> n]
      /\ row = n <=> last = e
      /\ L \in [Entity -> Place \cup {Nothing}]
      /\ L[e] = Nothing
      /\ \A f \in Entity \ {e} :
            L[f] = IF f = last THEN [arch |-> A, row |-> row] ELSE location[f]
  BY LocationsAfter
<1>2. /\ R \in [Archetype -> Seq(Entity)]
      /\ \A B \in Archetype \ {A} : R[B] = rows[B]
      /\ Len(R[A]) = n - 1
      /\ \A j \in 1..(n - 1) : R[A][j] = IF j = row THEN last ELSE rows[A][j]
  BY RowsAfter
<1>3. location[e] = [arch |-> A, row |-> row] /\ rows[A][row] = e
  BY <1>1 DEF Placed, Located, ArchOf, RowOf
<1> HIDE DEF A, n, last, row, R, L
<1>4. ASSUME NEW B \in Archetype, NEW i \in 1..Len(R[B])
      PROVE  L[R[B][i]] = [arch |-> B, row |-> i]
  <2>1. CASE B # A
    <3>1. R[B][i] = rows[B][i] /\ i \in 1..Len(rows[B])
      BY <1>2, <2>1
    <3>2. rows[B][i] \in Entity /\ location[rows[B][i]] = [arch |-> B, row |-> i]
      BY <3>1, PlacedFacts DEF Placed
    <3>3. rows[B][i] # e /\ rows[B][i] # last
      BY <1>1, <1>3, <2>1, <3>2
    <3> QED
      BY <1>1, <3>1, <3>2, <3>3
  <2>2. CASE B = A /\ i = row
    <3>1. R[B][i] = last /\ row # n
      BY <1>1, <1>2, <2>2
    <3> QED
      BY <1>1, <2>2, <3>1
  <2>3. CASE B = A /\ i # row
    <3>1. R[B][i] = rows[A][i] /\ i \in 1..n /\ i # n
      BY <1>1, <1>2, <2>3
    <3>2. rows[A][i] \in Entity /\ location[rows[A][i]] = [arch |-> A, row |-> i]
      BY <1>1, <3>1, PlacedFacts DEF Placed, n
    <3>3. rows[A][i] # e /\ rows[A][i] # last
      BY <1>1, <1>3, <2>3, <3>1, <3>2
    <3> QED
      BY <1>1, <2>3, <3>1, <3>2, <3>3
  <2> QED
    BY <2>1, <2>2, <2>3
<1>5. ASSUME NEW f \in Entity, L[f] # Nothing
      PROVE  L[f].row \in 1..Len(R[L[f].arch]) /\ R[L[f].arch][L[f].row] = f
  <2>1. f # e
    BY <1>1, <1>5
  <2>2. CASE f = last
    <3>1. L[f] = [arch |-> A, row |-> row] /\ row # n
      BY <1>1, <2>1, <2>2
    <3> QED
      BY <1>1, <1>2, <2>2, <3>1
  <2>3. CASE f # last
    <3>1. L[f] = location[f]
      BY <1>1, <2>1, <2>3
    <3>2. /\ location[f].arch \in Archetype
          /\ location[f].row \in 1..Len(rows[location[f].arch])
          /\ rows[location[f].arch][location[f].row] = f
      BY <1>5, <3>1, PlacedFacts DEF Placed
    <3>3. CASE location[f].arch # A
      BY <1>2, <3>1, <3>2, <3>3
    <3>4. CASE location[f].arch = A
      <4>1. location[f].row # row /\ location[f].row # n
        BY <1>3, <2>1, <2>3, <3>2, <3>4 DEF last
      <4>2. location[f].row \in 1..(n - 1)
        BY <1>1, <3>2, <3>4, <4>1 DEF n
      <4> QED
        BY <1>2, <3>1, <3>2, <3>4, <4>1, <4>2
    <3> QED
      BY <3>3, <3>4
  <2> QED
    BY <2>2, <2>3
<1> QED
  BY <1>1, <1>2, <1>4, <1>5 DEF Placed, R, L

-----------------------------------------------------------------------------
(* Rows are added.                                                         *)

\* L2 is L with the entities of `new` at the end of archetype A.
Joined(R, L, A, new, L2) ==
    /\ L2 \in [Entity -> Place \cup {Nothing}]
    /\ \A i \in 1..Len(new) : L2[new[i]] = [arch |-> A, row |-> Len(R[A]) + i]
    /\ \A e \in Entity : (\A i \in 1..Len(new) : new[i] # e) => L2[e] = L[e]

\* Entities that are nowhere, each once.
Homeless(L, new) ==
    /\ new \in Seq(Entity)
    /\ \A i, j \in 1..Len(new) : new[i] = new[j] => i = j
    /\ \A i \in 1..Len(new) : L[new[i]] = Nothing

LEMMA AppendFacts ==
    ASSUME NEW S, NEW s \in Seq(S), NEW t \in Seq(S)
    PROVE  /\ s \o t \in Seq(S) /\ Len(s \o t) = Len(s) + Len(t)
           /\ Len(s) \in Nat /\ Len(t) \in Nat
           /\ \A i \in 1..Len(s) : (s \o t)[i] = s[i]
           /\ \A i \in 1..Len(t) : (s \o t)[Len(s) + i] = t[i]
           /\ \A i \in 1..Len(s \o t) :
                 \/ i \in 1..Len(s)
                 \/ i - Len(s) \in 1..Len(t) /\ (s \o t)[i] = t[i - Len(s)]
<1>1. /\ s \o t \in Seq(S) /\ Len(s \o t) = Len(s) + Len(t)
      /\ \A i \in 1..(Len(s) + Len(t)) :
            (s \o t)[i] = IF i <= Len(s) THEN s[i] ELSE t[i - Len(s)]
  BY ConcatProperties
<1>2. Len(s) \in Nat /\ Len(t) \in Nat
  BY LenProperties
<1>3. \A i \in 1..Len(t) : (s \o t)[Len(s) + i] = t[i]
  <2> TAKE i \in 1..Len(t)
  <2>1. Len(s) + i \in 1..(Len(s) + Len(t)) /\ ~(Len(s) + i <= Len(s))
        /\ (Len(s) + i) - Len(s) = i
    BY <1>2
  <2> QED
    BY <1>1, <2>1
<1> QED
  BY <1>1, <1>2, <1>3

LEMMA AdditionPlaced ==
    ASSUME NEW R, NEW L, Placed(R, L), NEW A \in Archetype, NEW new, Homeless(L, new),
           NEW L2, Joined(R, L, A, new, L2)
    PROVE  Placed([R EXCEPT ![A] = @ \o new], L2)
<1> DEFINE R2 == [R EXCEPT ![A] = @ \o new]
           n == Len(R[A])
           m == Len(new)
<1>1. R \in [Archetype -> Seq(Entity)] /\ R[A] \in Seq(Entity) /\ new \in Seq(Entity)
  BY DEF Placed, Homeless
<1>2. /\ R[A] \o new \in Seq(Entity) /\ Len(R[A] \o new) = n + m
      /\ n \in Nat /\ m \in Nat
      /\ \A i \in 1..n : (R[A] \o new)[i] = R[A][i]
      /\ \A i \in 1..m : (R[A] \o new)[n + i] = new[i]
      /\ \A i \in 1..Len(R[A] \o new) :
            \/ i \in 1..n
            \/ i - n \in 1..m /\ (R[A] \o new)[i] = new[i - n]
  BY <1>1, AppendFacts
<1>3. /\ R2 \in [Archetype -> Seq(Entity)]
      /\ R2[A] = R[A] \o new
      /\ \A B \in Archetype \ {A} : R2[B] = R[B]
  BY <1>1, <1>2
<1>4. \A i \in 1..m : new[i] \in Entity
  BY <1>1, ElementOfSeq
<1>5. ASSUME NEW f \in Entity, L[f] # Nothing
      PROVE  L2[f] = L[f]
  BY <1>5 DEF Homeless, Joined
<1>6. ASSUME NEW B \in Archetype, NEW i \in 1..Len(R[B])
      PROVE  /\ R[B][i] \in Entity /\ L[R[B][i]] = [arch |-> B, row |-> i]
             /\ L2[R[B][i]] = [arch |-> B, row |-> i]
  <2>1. R[B][i] \in Entity /\ Len(R[B]) \in Nat
    BY PlacedFacts
  <2>2. L[R[B][i]] = [arch |-> B, row |-> i]
    BY DEF Placed
  <2>3. L[R[B][i]] # Nothing
    BY <2>1, <2>2, NotAPlace DEF Place
  <2> QED
    BY <1>5, <2>1, <2>2, <2>3
<1> HIDE DEF R2, n, m
<1>7. ASSUME NEW B \in Archetype, NEW i \in 1..Len(R2[B])
      PROVE  L2[R2[B][i]] = [arch |-> B, row |-> i]
  <2>1. CASE B # A
    BY <1>3, <1>6, <2>1
  <2>2. CASE B = A /\ i \in 1..n
    BY <1>2, <1>3, <1>6, <2>2 DEF n
  <2>3. CASE B = A /\ i \notin 1..n
    <3>1. i - n \in 1..m /\ R2[B][i] = new[i - n]
      BY <1>2, <1>3, <2>3
    <3>2. L2[new[i - n]] = [arch |-> A, row |-> n + (i - n)]
      BY <3>1 DEF Joined, n, m
    <3>3. n + (i - n) = i
      BY <1>2
    <3> QED
      BY <2>3, <3>1, <3>2, <3>3
  <2> QED
    BY <2>1, <2>2, <2>3
<1>8. ASSUME NEW f \in Entity, L2[f] # Nothing
      PROVE  L2[f].row \in 1..Len(R2[L2[f].arch]) /\ R2[L2[f].arch][L2[f].row] = f
  <2>1. CASE \E i \in 1..m : new[i] = f
    <3>1. PICK i \in 1..m : new[i] = f
      BY <2>1
    <3>2. L2[f] = [arch |-> A, row |-> n + i]
      BY <3>1 DEF Joined, n, m
    <3>3. n + i \in 1..(n + m)
      BY <1>2, <3>1
    <3>4. R2[A][n + i] = f
      BY <1>2, <1>3, <3>1
    <3>5. Len(R2[A]) = n + m
      BY <1>2, <1>3
    <3>6. L2[f].arch = A /\ L2[f].row = n + i
      BY <3>2
    <3> QED
      BY <3>3, <3>4, <3>5, <3>6
  <2>2. CASE ~\E i \in 1..m : new[i] = f
    <3>1. L2[f] = L[f]
      BY <2>2 DEF Joined, m
    <3>2. /\ L[f].arch \in Archetype
          /\ L[f].row \in 1..Len(R[L[f].arch])
          /\ R[L[f].arch][L[f].row] = f
      BY <1>8, <3>1, PlacedFacts DEF Placed
    <3>3. CASE L[f].arch # A
      BY <1>3, <3>1, <3>2, <3>3
    <3>4. CASE L[f].arch = A
      <4>1. L[f].row \in 1..n
        BY <3>2, <3>4 DEF n
      <4>2. L[f].row \in 1..(n + m)
        BY <1>2, <4>1
      <4> QED
        BY <1>2, <1>3, <3>1, <3>2, <3>4, <4>1, <4>2
    <3> QED
      BY <3>3, <3>4
  <2> QED
    BY <2>1, <2>2
<1>9. L2 \in [Entity -> Place \cup {Nothing}]
  BY DEF Joined
<1> QED
  BY <1>3, <1>7, <1>8, <1>9 DEF Placed, R2

-----------------------------------------------------------------------------
(* What the columns hold.                                                  *)

\* Afterwards, with columns C2 and locations L2, an entity has what it had.
Keeps(C2, L2, f) ==
    /\ L2[f] # Nothing /\ L2[f].arch = ArchOf(f)
    /\ \A c \in ArchOf(f) : C2[ArchOf(f)][c][L2[f].row] = columns[ArchOf(f)][c][RowOf(f)]

LEMMA RemovalFilled ==
    ASSUME Placed(rows, location), Filled(rows, columns), NEW e \in Entity, Located(e)
    PROVE  /\ Filled(RowsLess(e), ColumnsLess(e))
           /\ \A f \in Entity \ {e} : Located(f) => Keeps(ColumnsLess(e), LocationLess(e), f)
<1> DEFINE A == ArchOf(e)
           n == Len(rows[A])
           last == rows[A][n]
           row == RowOf(e)
           R == RowsLess(e)
           L == LocationLess(e)
           C == ColumnsLess(e)
<1>1. /\ A \in Archetype /\ n \in Nat /\ row \in 1..n /\ last \in Entity
      /\ location[last] = [arch |-> A, row |-> n]
      /\ L[e] = Nothing
      /\ \A f \in Entity \ {e} :
            L[f] = IF f = last THEN [arch |-> A, row |-> row] ELSE location[f]
  BY LocationsAfter
<1>2. /\ \A B \in Archetype \ {A} : R[B] = rows[B]
      /\ Len(R[A]) = n - 1
      /\ \A j \in 1..(n - 1) : R[A][j] = IF j = row THEN last ELSE rows[A][j]
  BY RowsAfter
<1>3. ASSUME NEW B \in Archetype
      PROVE  columns[B] \in [B -> Seq(Cells)]
  BY DEF Filled
<1>4. ASSUME NEW c \in A
      PROVE  /\ columns[A][c] \in Seq(Cells) /\ Len(columns[A][c]) = n
             /\ \A i \in 1..n : columns[A][c][i].of = rows[A][i]
  BY <1>1, <1>3 DEF Filled
<1>5. ASSUME NEW c \in A
      PROVE  /\ SwapRemove(columns[A][c], row) \in Seq(Cells)
             /\ Len(SwapRemove(columns[A][c], row)) = n - 1
             /\ \A j \in 1..(n - 1) : SwapRemove(columns[A][c], row)[j] =
                   IF j = row THEN columns[A][c][n] ELSE columns[A][c][j]
  <2>1. columns[A][c] \in Seq(Cells) /\ Len(columns[A][c]) = n /\ row \in 1..Len(columns[A][c])
    BY <1>1, <1>4
  <2> HIDE DEF A, n, row
  <2> QED
    BY ONLY <2>1, SwapRemoveFacts
<1>6. C[A] = [c \in A |-> SwapRemove(columns[A][c], row)]
  <2>1. DOMAIN columns = Archetype
    BY DEF Filled
  <2>2. C[A] = RowDropped(columns[A], row)
    BY <1>1, <2>1 DEF ColumnsLess
  <2>3. DOMAIN columns[A] = A
    BY <1>1, <1>3
  <2> QED
    BY <2>2, <2>3 DEF RowDropped
<1>7. /\ C = [B \in Archetype |-> C[B]]
      /\ \A B \in Archetype \ {A} : C[B] = columns[B]
  <2>1. columns = [B \in Archetype |-> columns[B]]
    BY DEF Filled
  <2>2. C = [columns EXCEPT ![A] = RowDropped(columns[A], row)]
    BY DEF ColumnsLess
  <2> QED
    BY <2>1, <2>2
<1> HIDE DEF n, last, row, R, L, C, A
<1>8. Filled(R, C)
  <2>1. ASSUME NEW B \in Archetype
        PROVE  C[B] \in [B -> Seq(Cells)]
    <3>1. CASE B # A
      BY <1>3, <1>7, <3>1
    <3>2. CASE B = A
      BY <1>5, <1>6, <3>2
    <3> QED
      BY <3>1, <3>2
  <2>2. ASSUME NEW B \in Archetype, NEW c \in B
        PROVE  Len(C[B][c]) = Len(R[B]) /\ \A i \in 1..Len(R[B]) : C[B][c][i].of = R[B][i]
    <3>1. CASE B # A
      <4>1. C[B][c] = columns[B][c] /\ R[B] = rows[B]
        BY <1>2, <1>7, <3>1
      <4> QED
        BY <4>1 DEF Filled
    <3>2. CASE B = A
      <4>1. C[A][c] = SwapRemove(columns[A][c], row) /\ c \in A
        BY <1>6, <3>2
      <4>2. Len(C[A][c]) = Len(R[A])
        BY <1>2, <1>5, <4>1
      <4>3. ASSUME NEW i \in 1..(n - 1)
            PROVE  C[A][c][i].of = R[A][i]
        <5>1. C[A][c][i] = IF i = row THEN columns[A][c][n] ELSE columns[A][c][i]
          BY <1>5, <4>1
        <5>2. i \in 1..n /\ n \in 1..n
          BY <1>1
        <5>3. columns[A][c][i].of = rows[A][i] /\ columns[A][c][n].of = last
          BY <1>4, <4>1, <5>2 DEF last
        <5> QED
          BY <1>2, <5>1, <5>3
      <4> QED
        BY <1>2, <3>2, <4>2, <4>3
    <3> QED
      BY <3>1, <3>2
  <2> QED
    BY <1>7, <2>1, <2>2 DEF Filled
<1>9. ASSUME NEW f \in Entity \ {e}, Located(f)
      PROVE  Keeps(C, L, f)
  <2>1. CASE f = last
    <3>1. L[f] = [arch |-> A, row |-> row] /\ location[f] = [arch |-> A, row |-> n]
      BY <1>1, <2>1
    <3>2. L[f] # Nothing
      BY <1>1, <3>1, NotAPlace DEF Place
    <3>3. ArchOf(f) = A /\ RowOf(f) = n
      BY <3>1 DEF ArchOf, RowOf
    <3>4. row # n
      BY <1>1, <2>1, <3>1, LocationsAfter DEF A, n, last, row
    <3>5. row \in 1..(n - 1)
      BY <1>1, <3>4
    <3>6. ASSUME NEW c \in A
          PROVE  C[A][c][row] = columns[A][c][n]
      BY <1>5, <1>6, <3>5
    <3> QED
      BY <3>1, <3>2, <3>3, <3>6 DEF Keeps
  <2>2. CASE f # last
    <3>1. L[f] = location[f]
      BY <1>1, <2>2
    <3>2. /\ ArchOf(f) \in Archetype
          /\ RowOf(f) \in 1..Len(rows[ArchOf(f)])
          /\ rows[ArchOf(f)][RowOf(f)] = f
      BY <1>9, PlacedFacts DEF Placed, Located, ArchOf, RowOf
    <3>3. ASSUME NEW c \in ArchOf(f)
          PROVE  C[ArchOf(f)][c][RowOf(f)] = columns[ArchOf(f)][c][RowOf(f)]
      <4>1. CASE ArchOf(f) # A
        BY <1>7, <3>2, <4>1
      <4>2. CASE ArchOf(f) = A
        <5>1. rows[A][row] = e
          BY LocationsAfter DEF A, row, Placed, Located, ArchOf, RowOf
        <5>2. RowOf(f) # n /\ RowOf(f) # row
          BY <2>2, <3>2, <4>2, <5>1 DEF last
        <5>3. RowOf(f) \in 1..(n - 1)
          BY <1>1, <3>2, <4>2, <5>2 DEF n
        <5> QED
          BY <1>5, <1>6, <4>2, <5>2, <5>3
      <4> QED
        BY <4>1, <4>2
    <3> QED
      BY <1>9, <3>1, <3>3 DEF Keeps, Located, ArchOf, RowOf
  <2> QED
    BY <2>1, <2>2
<1> QED
  BY <1>8, <1>9 DEF R, C, L

\* D has cells for the entities of `new`, for each column of archetype A.
CellsFor(A, new, D) ==
    /\ D \in [A -> Seq(Cells)]
    /\ \A c \in A : Len(D[c]) = Len(new) /\ \A i \in 1..Len(new) : D[c][i].of = new[i]

\* C2 is C with the cells D at the end of the columns of archetype A.
Widened(C, A, D, C2) ==
    /\ C2 = [B \in Archetype |-> C2[B]]
    /\ C2[A] = [c \in A |-> C2[A][c]]
    /\ \A c \in A : C2[A][c] = C[A][c] \o D[c]
    /\ \A B \in Archetype \ {A} : C2[B] = C[B]

\* The rows there were have in C2 the cells they have in C, the new ones D's.
Extended(R, C, A, new, D, C2) ==
    /\ \A B \in Archetype : \A c \in B : \A i \in 1..Len(R[B]) : C2[B][c][i] = C[B][c][i]
    /\ \A c \in A : \A i \in 1..Len(new) : C2[A][c][Len(R[A]) + i] = D[c][i]

LEMMA AdditionFilled ==
    ASSUME NEW R, R \in [Archetype -> Seq(Entity)], NEW C, Filled(R, C),
           NEW A \in Archetype, NEW new \in Seq(Entity), NEW D, CellsFor(A, new, D),
           NEW C2, Widened(C, A, D, C2), NEW R2, R2 = [R EXCEPT ![A] = @ \o new]
    PROVE  Filled(R2, C2) /\ Extended(R, C, A, new, D, C2)
<1> DEFINE n == Len(R[A])
           m == Len(new)
<1>0. /\ D \in [A -> Seq(Cells)]
      /\ \A c \in A : Len(D[c]) = Len(new) /\ \A i \in 1..Len(new) : D[c][i].of = new[i]
  BY DEF CellsFor
<1>1. /\ R[A] \in Seq(Entity) /\ Len(R[A] \o new) = n + m
      /\ n \in Nat /\ m \in Nat
      /\ \A i \in 1..n : (R[A] \o new)[i] = R[A][i]
      /\ \A i \in 1..m : (R[A] \o new)[n + i] = new[i]
      /\ \A i \in 1..Len(R[A] \o new) :
            \/ i \in 1..n
            \/ i - n \in 1..m /\ (R[A] \o new)[i] = new[i - n]
  BY AppendFacts
<1>2. R2[A] = R[A] \o new /\ \A B \in Archetype \ {A} : R2[B] = R[B]
  OBVIOUS
<1>3. /\ C = [B \in Archetype |-> C[B]]
      /\ \A B \in Archetype : C[B] \in [B -> Seq(Cells)]
  BY DEF Filled
<1>4. /\ C2 = [B \in Archetype |-> C2[B]]
      /\ C2[A] = [c \in A |-> C2[A][c]] /\ \A c \in A : C2[A][c] = C[A][c] \o D[c]
      /\ \A B \in Archetype \ {A} : C2[B] = C[B]
  BY DEF Widened
<1>5. ASSUME NEW c \in A
      PROVE  /\ C[A][c] \in Seq(Cells) /\ Len(C[A][c]) = n
             /\ D[c] \in Seq(Cells) /\ Len(D[c]) = m
             /\ C2[A][c] = C[A][c] \o D[c]
             /\ C2[A][c] \in Seq(Cells) /\ Len(C2[A][c]) = n + m
             /\ \A i \in 1..n : C2[A][c][i] = C[A][c][i] /\ C[A][c][i].of = R[A][i]
             /\ \A i \in 1..m : C2[A][c][n + i] = D[c][i] /\ D[c][i].of = new[i]
  <2>1. C[A][c] \in Seq(Cells) /\ D[c] \in Seq(Cells)
    BY <1>0, <1>3
  <2>2. Len(C[A][c]) = n /\ \A i \in 1..n : C[A][c][i].of = R[A][i]
    BY DEF Filled
  <2>3. C2[A][c] = C[A][c] \o D[c]
    BY <1>4
  <2> DEFINE s == C[A][c]
             t == D[c]
  <2>4. /\ s \o t \in Seq(Cells)
        /\ Len(s \o t) = Len(s) + Len(t)
        /\ \A i \in 1..Len(s) : (s \o t)[i] = s[i]
        /\ \A i \in 1..Len(t) : (s \o t)[Len(s) + i] = t[i]
    <3> HIDE DEF s, t
    <3>1. s \in Seq(Cells) /\ t \in Seq(Cells)
      BY <2>1 DEF s, t
    <3> QED
      BY ONLY <3>1, AppendFacts
  <2> QED
    BY <1>0, <2>1, <2>2, <2>3, <2>4
<1> HIDE DEF n, m
<1>6. ASSUME NEW B \in Archetype, NEW c \in B, NEW i \in 1..Len(R[B])
      PROVE  C2[B][c][i] = C[B][c][i]
  <2>1. CASE B # A
    BY <1>4, <2>1
  <2>2. CASE B = A
    BY <1>5, <2>2 DEF n
  <2> QED
    BY <2>1, <2>2
<1>7. ASSUME NEW c \in A, NEW i \in 1..Len(new)
      PROVE  C2[A][c][Len(R[A]) + i] = D[c][i]
  BY <1>5 DEF n, m
<1>8. ASSUME NEW B \in Archetype
      PROVE  C2[B] \in [B -> Seq(Cells)]
  <2>1. CASE B # A
    BY <1>3, <1>4, <2>1
  <2>2. CASE B = A
    BY <1>4, <1>5, <2>2
  <2> QED
    BY <2>1, <2>2
<1>9. ASSUME NEW B \in Archetype, NEW c \in B
      PROVE  Len(C2[B][c]) = Len(R2[B]) /\ \A i \in 1..Len(R2[B]) : C2[B][c][i].of = R2[B][i]
  <2>1. CASE B # A
    <3>1. C2[B][c] = C[B][c] /\ R2[B] = R[B]
      BY <1>2, <1>4, <2>1
    <3>2. Len(C[B][c]) = Len(R[B]) /\ \A i \in 1..Len(R[B]) : C[B][c][i].of = R[B][i]
      BY DEF Filled
    <3> QED
      BY <3>1, <3>2
  <2>2. CASE B = A
    <3>1. Len(R2[A]) = n + m /\ Len(C2[A][c]) = n + m
      BY <1>1, <1>2, <1>5, <2>2
    <3>2. ASSUME NEW i \in 1..(n + m)
          PROVE  C2[A][c][i].of = R2[A][i]
      <4>1. CASE i \in 1..n
        <5>1. C2[A][c][i] = C[A][c][i] /\ C[A][c][i].of = R[A][i]
          BY <1>5, <2>2, <4>1
        <5>2. R2[A][i] = R[A][i]
          BY <1>1, <1>2, <4>1
        <5> QED
          BY <5>1, <5>2
      <4>2. CASE i \notin 1..n
        <5>1. i - n \in 1..m /\ R2[A][i] = new[i - n]
          BY <1>1, <1>2, <4>2
        <5>2. C2[A][c][n + (i - n)] = D[c][i - n] /\ D[c][i - n].of = new[i - n]
          BY <1>5, <2>2, <5>1
        <5>3. n + (i - n) = i
          BY <1>1
        <5> QED
          BY <5>1, <5>2, <5>3
      <4> QED
        BY <4>1, <4>2
    <3> QED
      BY <2>2, <3>1, <3>2
  <2> QED
    BY <2>1, <2>2
<1> QED
  BY <1>4, <1>6, <1>7, <1>8, <1>9 DEF Filled, Extended

-----------------------------------------------------------------------------
(* What the operations are made of.                                        *)

LEMMA NeededFacts ==
    ASSUME NEW present, NEW gained \in SUBSET Component
    PROVE  /\ Needed(present, gained) \in Archetype
           /\ gained \subseteq Needed(present, gained)
           /\ \A c \in Needed(present, gained) :
                 Requires[c] \subseteq Needed(present, gained) \cup present
           /\ gained \cap present = {} => Needed(present, gained) \cap present = {}
<1> DEFINE complete(S) == gained \subseteq S /\ \A c \in S : Requires[c] \ present \subseteq S
           N == Needed(present, gained)
<1>1. N = {c \in Component : \A S \in SUBSET Component : complete(S) => c \in S}
  BY DEF Needed
<1>2. Requires \in [Component -> SUBSET Component]
  BY StorageAssumption
<1>3. N \in Archetype /\ gained \subseteq N
  BY <1>1 DEF Archetype
<1>4. ASSUME NEW c \in N, NEW r \in Requires[c], r \notin present
      PROVE  r \in N
  <2>1. r \in Component
    BY <1>1, <1>2
  <2>2. ASSUME NEW S \in SUBSET Component, complete(S)
        PROVE  r \in S
    <3>1. c \in S
      BY <1>1, <2>2
    <3> QED
      BY <1>4, <2>2, <3>1
  <2> QED
    BY <1>1, <2>1, <2>2
<1>5. ASSUME gained \cap present = {}
      PROVE  N \cap present = {}
  <2>1. complete(Component \ present)
    BY <1>2, <1>5
  <2> QED
    BY <1>1, <2>1
<1> QED
  BY <1>3, <1>4, <1>5

\* A removal and an addition at once.
LEMMA MovePlaced ==
    ASSUME Placed(rows, location), NEW e \in Entity, Located(e),
           NEW to \in Archetype, to # ArchOf(e), NEW put, Move(e, to, put)
    PROVE  /\ rows' = [RowsLess(e) EXCEPT ![to] = @ \o <<e>>]
           /\ Joined(RowsLess(e), LocationLess(e), to, <<e>>, location')
           /\ Placed(rows', location')
           /\ location'[e] = [arch |-> to, row |-> Len(rows[to]) + 1]
           /\ \A f \in Entity \ {e} : location'[f] = LocationLess(e)[f]
<1> DEFINE A == ArchOf(e)
           R == RowsLess(e)
           L == LocationLess(e)
<1>1. /\ A \in Archetype
      /\ L \in [Entity -> Place \cup {Nothing}]
      /\ L[e] = Nothing
  BY LocationsAfter
<1>2. R \in [Archetype -> Seq(Entity)] /\ R[to] = rows[to]
  BY RowsAfter
<1>3. rows' = [R EXCEPT ![to] = @ \o <<e>>]
  <2>1. rows \in [Archetype -> Seq(Entity)] /\ rows[to] \in Seq(Entity)
    BY DEF Placed
  <2>2. Append(rows[to], e) = rows[to] \o <<e>>
    BY <2>1, AppendIsConcat
  <2>3. rows' = [rows EXCEPT ![to] = Append(@, e), ![A] = SwapRemove(@, RowOf(e))]
    BY DEF Move
  <2> QED
    BY <1>1, <1>2, <2>1, <2>2, <2>3 DEF RowsLess
<1>4. location' = [L EXCEPT ![e] = [arch |-> to, row |-> Len(rows[to]) + 1]]
  <2>1. location' = [Displaced(rows[A], RowOf(e)) EXCEPT ![e] = [arch |-> to, row |-> Len(rows[to]) + 1]]
    BY DEF Move
  <2> QED
    BY <2>1 DEF LocationLess
<1>5. [arch |-> to, row |-> Len(rows[to]) + 1] \in Place
  BY PlacedFacts DEF Place
<1>6. Homeless(L, <<e>>)
  BY <1>1 DEF Homeless
<1>7. Joined(R, L, to, <<e>>, location')
  BY <1>1, <1>2, <1>4, <1>5 DEF Joined
<1>8. Placed(R, L)
  BY RemovalPlaced
<1>9. Placed(rows', location')
  BY <1>3, <1>6, <1>7, <1>8, AdditionPlaced
<1> QED
  BY <1>1, <1>3, <1>4, <1>7, <1>9

LEMMA MoveFilled ==
    ASSUME Placed(rows, location), Filled(rows, columns), NEW e \in Entity, Located(e),
           NEW to \in Archetype, to # ArchOf(e), NEW put, Move(e, to, put),
           \A c \in to : IF c \in DOMAIN put THEN put[c] \in Cells /\ put[c].of = e
                        ELSE c \in ArchOf(e)
    PROVE  /\ Filled(rows', columns')
           /\ \A f \in Entity \ {e} : Located(f) => Keeps(columns', location', f)
           /\ \A c \in to : columns'[to][c][Len(rows[to]) + 1] =
                 IF c \in DOMAIN put THEN put[c] ELSE columns[ArchOf(e)][c][RowOf(e)]
<1> DEFINE A == ArchOf(e)
           row == RowOf(e)
           cell(c) == IF c \in DOMAIN put THEN put[c] ELSE columns[A][c][row]
           D == [c \in to |-> <<cell(c)>>]
           one == <<e>>
           R == RowsLess(e)
           C == ColumnsLess(e)
<1>1. /\ A \in Archetype /\ row \in 1..Len(rows[A])
      /\ rows[A][row] = e
  BY LocationsAfter DEF Placed, Located, ArchOf, RowOf
<1>2. /\ R \in [Archetype -> Seq(Entity)]
      /\ R[to] = rows[to]
  BY RowsAfter
<1>3. Filled(R, C) /\ \A f \in Entity \ {e} : Located(f) => Keeps(C, LocationLess(e), f)
  BY RemovalFilled
<1>4. ASSUME NEW c \in to
      PROVE  cell(c) \in Cells /\ cell(c).of = e
  <2>1. CASE c \in DOMAIN put
    BY <2>1
  <2>2. CASE c \notin DOMAIN put
    <3>1. c \in A
      BY <2>2
    <3>2. /\ columns[A] \in [A -> Seq(Cells)]
          /\ Len(columns[A][c]) = Len(rows[A])
          /\ \A i \in 1..Len(rows[A]) : columns[A][c][i].of = rows[A][i]
      BY <1>1, <3>1 DEF Filled
    <3>3. columns[A][c] \in Seq(Cells) /\ row \in 1..Len(columns[A][c])
      BY <1>1, <3>1, <3>2
    <3>4. columns[A][c][row] \in Cells
      BY <3>3, ElementOfSeq
    <3> QED
      BY <1>1, <2>2, <3>2, <3>4
  <2> QED
    BY <2>1, <2>2
<1>5. D \in [to -> Seq(Cells)] /\ \A c \in to : D[c] = <<cell(c)>>
  BY <1>4
<1>6. /\ Len(one) = 1 /\ one \in Seq(Entity)
      /\ \A c \in to : Len(D[c]) = Len(one)
                      /\ \A i \in 1..Len(one) : D[c][i].of = one[i]
  BY <1>4, <1>5
<1>7. Widened(C, to, D, columns')
  <2>1. columns' = [columns EXCEPT ![to] = [c \in to |-> Append(@[c], cell(c))],
                                   ![A] = RowDropped(@, row)]
    BY DEF Move
  <2>2. C = [columns EXCEPT ![A] = RowDropped(@, row)]
    BY DEF ColumnsLess
  <2>3. columns = [B \in Archetype |-> columns[B]] /\ columns[to] \in [to -> Seq(Cells)]
    BY DEF Filled
  <2>4. C[to] = columns[to]
    BY <1>1, <2>2, <2>3
  <2>5. [c \in to |-> Append(columns[to][c], cell(c))] = [c \in to |-> C[to][c] \o D[c]]
    <3>1. ASSUME NEW c \in to
          PROVE  Append(columns[to][c], cell(c)) = C[to][c] \o D[c]
      <4>1. columns[to][c] \in Seq(Cells) /\ cell(c) \in Cells
        BY <1>4, <2>3
      <4>2. Append(columns[to][c], cell(c)) = columns[to][c] \o <<cell(c)>>
        BY ONLY <4>1, AppendIsConcat
      <4> QED
        BY <1>5, <2>4, <4>2
    <3> QED
      BY <3>1
  <2> HIDE DEF A, row, C, D, cell
  <2>6. columns' = [[columns EXCEPT ![A] = RowDropped(columns[A], row)]
                    EXCEPT ![to] = [c \in to |-> Append(columns[to][c], cell(c))]]
    BY <1>1, <2>1, <2>3 DEF A
  <2>7. columns' = [C EXCEPT ![to] = [c \in to |-> C[to][c] \o D[c]]]
    BY <2>2, <2>5, <2>6
  <2>8. C = [B \in Archetype |-> C[B]]
    BY <1>3 DEF Filled
  <2>9. /\ columns' = [B \in Archetype |-> columns'[B]]
        /\ columns'[to] = [c \in to |-> C[to][c] \o D[c]]
        /\ \A B \in Archetype \ {to} : columns'[B] = C[B]
    BY <2>7, <2>8
  <2> QED
    BY <2>9 DEF Widened
<1> HIDE DEF A, row, C, D, cell, R, one
<1>9. /\ rows' = [R EXCEPT ![to] = @ \o one]
      /\ \A f \in Entity \ {e} : location'[f] = LocationLess(e)[f]
  BY MovePlaced DEF R, one
<1>8. /\ Filled(rows', columns')
      /\ \A B \in Archetype : \A c \in B : \A i \in 1..Len(R[B]) : columns'[B][c][i] = C[B][c][i]
      /\ \A c \in to : \A i \in 1..Len(one) : columns'[to][c][Len(R[to]) + i] = D[c][i]
  <2>1. to \in Archetype
    OBVIOUS
  <2>2. CellsFor(to, one, D)
    BY <1>5, <1>6 DEF CellsFor
  <2>3. one \in Seq(Entity) /\ Filled(R, C)
    BY <1>3, <1>6
  <2> QED
    <3>1. Filled(rows', columns') /\ Extended(R, C, to, one, D, columns')
      BY ONLY <1>2, <1>7, <1>9, <2>1, <2>2, <2>3, AdditionFilled
    <3> QED
      BY <3>1 DEF Extended
<1>10. ASSUME NEW f \in Entity \ {e}, Located(f)
       PROVE  Keeps(columns', location', f)
  <2>1. Keeps(C, LocationLess(e), f)
    BY <1>3, <1>10
  <2>2. Placed(R, LocationLess(e))
    BY RemovalPlaced DEF R
  <2>a. LocationLess(e)[f] # Nothing /\ LocationLess(e)[f].arch = ArchOf(f)
    BY <2>1 DEF Keeps
  <2>b. LocationLess(e)[f].arch \in Archetype
    BY <2>2, <2>a, PlacedFacts
  <2>c. LocationLess(e)[f].row \in 1..Len(R[LocationLess(e)[f].arch])
    BY <2>2, <2>a DEF Placed
  <2>3. /\ LocationLess(e)[f] # Nothing
        /\ LocationLess(e)[f].arch = ArchOf(f)
        /\ ArchOf(f) \in Archetype
        /\ LocationLess(e)[f].row \in 1..Len(R[ArchOf(f)])
    BY <2>a, <2>b, <2>c
  <2> QED
    BY <1>8, <1>9, <2>1, <2>3 DEF Keeps
<1>11. ASSUME NEW c \in to
       PROVE  columns'[to][c][Len(rows[to]) + 1] = cell(c)
  <2>1. columns'[to][c][Len(R[to]) + 1] = D[c][1]
    BY <1>6, <1>8
  <2> QED
    BY <1>2, <1>5, <2>1
<1> QED
  BY <1>8, <1>9, <1>10, <1>11 DEF cell, A, row

-----------------------------------------------------------------------------
(* Rows and locations agree.                                               *)

LEMMA NewHandlesFacts ==
    ASSUME RInv, NEW new \in NewHandles
    PROVE  /\ Homeless(location, new) /\ Len(new) \in Nat /\ DOMAIN new = 1..Len(new)
           /\ ToSet(new) = {new[i] : i \in 1..Len(new)} /\ ToSet(new) \subseteq Entity \ used
<1>1. PICK n \in 1..MaxSpawn : new \in [1..n -> Entity \ used]
  BY DEF NewHandles
<1>2. n \in Nat
  BY StorageAssumption
<1>3. new \in Seq(Entity) /\ Len(new) = n /\ DOMAIN new = 1..n
  <2>1. new \in [1..n -> Entity]
    BY <1>1
  <2>2. new \in Seq(Entity)
    BY <1>2, <2>1, SeqDef
  <2>3. DOMAIN new = 1..n /\ DOMAIN new = 1..Len(new) /\ Len(new) \in Nat
    BY <2>1, <2>2, LenProperties
  <2> QED
    BY <1>2, <2>2, <2>3
<1>4. \A i, j \in 1..n : new[i] = new[j] => i = j
  <2>1. IsInjective(new)
    BY DEF NewHandles
  <2> QED
    BY <1>3, <2>1 DEF IsInjective
<1>5. \A i \in 1..n : new[i] \in Entity /\ new[i] \notin used
  BY <1>1
<1>6. \A i \in 1..n : location[new[i]] = Nothing
  BY <1>5 DEF RInv, NeverBefore, Located
<1>7. ToSet(new) = {new[i] : i \in 1..n}
  BY <1>3 DEF ToSet
<1> QED
  BY <1>2, <1>3, <1>4, <1>5, <1>6, <1>7 DEF Homeless

LEMMA SpawnAdds ==
    ASSUME RInv, NEW new \in NewHandles, NEW bundle \in Bundles, Spawn(new, bundle)
    PROVE  LET arch == Needed({}, bundle)
           IN  /\ arch \in Archetype
               /\ rows' = [rows EXCEPT ![arch] = @ \o new]
               /\ Joined(rows, location, arch, new, location')
               /\ RInv'
<1> DEFINE arch == Needed({}, bundle)
           row(e) == Len(rows[arch]) + (CHOOSE i \in DOMAIN new : new[i] = e)
<1>1. bundle \in SUBSET Component
  BY StorageAssumption
<1>2. arch \in Archetype
  BY <1>1, NeededFacts
<1>3. /\ Homeless(location, new) /\ Len(new) \in Nat /\ DOMAIN new = 1..Len(new)
      /\ ToSet(new) = {new[i] : i \in 1..Len(new)} /\ ToSet(new) \subseteq Entity \ used
  BY NewHandlesFacts
<1>4. rows' = [rows EXCEPT ![arch] = @ \o new]
  BY DEF Spawn
<1>5. /\ location' = [e \in Entity |-> IF e \in ToSet(new) THEN [arch |-> arch, row |-> row(e)]
                                      ELSE location[e]]
      /\ used' = used \cup ToSet(new)
  BY DEF Spawn
<1>6. Placed(rows, location) /\ NeverBefore
  BY DEF RInv
<1>7. Len(rows[arch]) \in Nat
  BY <1>2, <1>6, PlacedFacts
<1>8. ASSUME NEW i \in 1..Len(new)
      PROVE  row(new[i]) = Len(rows[arch]) + i
  <2>1. \A j \in 1..Len(new) : new[j] = new[i] => j = i
    BY <1>3 DEF Homeless
  <2>2. (CHOOSE j \in DOMAIN new : new[j] = new[i]) = i
    BY <1>3, <2>1
  <2> QED
    BY <2>2
<1> HIDE DEF arch, row
<1>9. Joined(rows, location, arch, new, location')
  <2>1. ASSUME NEW i \in 1..Len(new)
        PROVE  location'[new[i]] = [arch |-> arch, row |-> Len(rows[arch]) + i]
    BY <1>3, <1>5, <1>8
  <2>2. ASSUME NEW e \in Entity
        PROVE  location'[e] \in Place \cup {Nothing}
    <3>1. CASE e \in ToSet(new)
      <4>1. PICK i \in 1..Len(new) : e = new[i]
        BY <1>3, <3>1
      <4>2. Len(rows[arch]) + i \in Nat
        BY <1>7
      <4>3. location'[e] = [arch |-> arch, row |-> Len(rows[arch]) + i]
        BY <2>1, <4>1
      <4>4. [arch |-> arch, row |-> Len(rows[arch]) + i] \in Place
        BY <1>2, <4>2 DEF Place
      <4> QED
        BY <4>3, <4>4
    <3>2. CASE e \notin ToSet(new)
      BY <1>5, <1>6, <3>2 DEF Placed
    <3> QED
      BY <3>1, <3>2
  <2>3. location' \in [Entity -> Place \cup {Nothing}]
    BY <1>5, <2>2
  <2>4. ASSUME NEW e \in Entity, \A i \in 1..Len(new) : new[i] # e
        PROVE  location'[e] = location[e]
    BY <1>3, <1>5, <2>4
  <2> QED
    BY <2>1, <2>3, <2>4 DEF Joined
<1>10. Placed(rows', location')
  BY <1>2, <1>3, <1>4, <1>6, <1>9, AdditionPlaced
<1>11. NeverBefore'
  <2>1. used' \in SUBSET Entity
    BY <1>3, <1>5, <1>6 DEF NeverBefore
  <2>2. ASSUME NEW e \in Entity, location'[e] # Nothing
        PROVE  e \in used'
    BY <1>5, <1>6, <2>2 DEF NeverBefore, Located
  <2> QED
    BY <2>1, <2>2 DEF NeverBefore, Located
<1> QED
  BY <1>2, <1>4, <1>9, <1>10, <1>11 DEF RInv, arch

\* One move takes an entity where it gains something.
LEMMA InsertMoves ==
    ASSUME RInv, NEW e \in Entity, NEW parts \in Batches, Insert(e, parts)
    PROVE  LET given  == ToSet(parts)
               from   == ArchOf(e)
               gained == Needed(from, given \ from)
           IN  /\ Located(e) /\ from \in Archetype /\ given \in SUBSET Component
               /\ gained \in Archetype /\ gained \cap from = {} /\ given \subseteq from \cup gained
               /\ \A c \in gained : Requires[c] \subseteq gained \cup from
               /\ from \cup gained \in Archetype
               /\ gained # {} => from \cup gained # from
<1> DEFINE given == ToSet(parts)
           from == ArchOf(e)
           gained == Needed(from, given \ from)
<1>1. Located(e)
  BY DEF Insert
<1>2. from \in Archetype
  BY <1>1, PlacedFacts DEF RInv, Located, ArchOf
<1>3. given \in SUBSET Component
  <2>1. parts \in Seq(Component)
    BY StorageAssumption
  <2>2. DOMAIN parts = 1..Len(parts)
    BY <2>1, LenProperties
  <2>3. \A i \in DOMAIN parts : parts[i] \in Component
    BY <2>1, <2>2, ElementOfSeq
  <2> QED
    BY <2>3 DEF ToSet
<1>4. /\ gained \in Archetype /\ given \ from \subseteq gained
      /\ \A c \in gained : Requires[c] \subseteq gained \cup from
      /\ (given \ from) \cap from = {} => gained \cap from = {}
  <2> DEFINE lacking == given \ from
  <2>1. lacking \in SUBSET Component
    BY <1>3
  <2>2. /\ Needed(from, lacking) \in Archetype /\ lacking \subseteq Needed(from, lacking)
        /\ \A c \in Needed(from, lacking) : Requires[c] \subseteq Needed(from, lacking) \cup from
        /\ lacking \cap from = {} => Needed(from, lacking) \cap from = {}
    <3> HIDE DEF lacking, from
    <3> QED
      BY ONLY <2>1, NeededFacts
  <2> QED
    BY <2>2
<1>5. gained \cap from = {}
  BY <1>4
<1> HIDE DEF given, from, gained
<1>6. from \cup gained \in Archetype
  BY <1>2, <1>4 DEF Archetype
<1>7. gained # {} => from \cup gained # from
  BY <1>5
<1> QED
  BY <1>1, <1>2, <1>3, <1>4, <1>5, <1>6, <1>7 DEF given, from, gained

LEMMA RemovalAddsNone ==
    ASSUME Placed(rows, location), NEW e \in Entity, Located(e)
    PROVE  \A f \in Entity : LocationLess(e)[f] # Nothing => Located(f)
<1> DEFINE last == rows[ArchOf(e)][Len(rows[ArchOf(e)])]
<1>1. /\ ArchOf(e) \in Archetype /\ Len(rows[ArchOf(e)]) \in Nat
      /\ location[last] = [arch |-> ArchOf(e), row |-> Len(rows[ArchOf(e)])]
      /\ \A f \in Entity \ {e} :
            LocationLess(e)[f] = IF f = last THEN [arch |-> ArchOf(e), row |-> RowOf(e)]
                                 ELSE location[f]
  BY LocationsAfter
<1>2. [arch |-> ArchOf(e), row |-> Len(rows[ArchOf(e)])] \in Place
  BY <1>1 DEF Place
<1>3. location[last] # Nothing
  BY <1>1, <1>2, NotAPlace
<1> QED
  BY <1>1, <1>3 DEF Located

LEMMA MoveKeepsRInv ==
    ASSUME RInv, NEW e \in Entity, Located(e), NEW to \in Archetype, to # ArchOf(e),
           NEW put, Move(e, to, put), used' = used
    PROVE  RInv'
<1>1. Placed(rows, location) /\ NeverBefore
  BY DEF RInv
<1>2. Placed(rows', location') /\ \A f \in Entity \ {e} : location'[f] = LocationLess(e)[f]
  BY <1>1, MovePlaced
<1>3. \A f \in Entity : LocationLess(e)[f] # Nothing => Located(f)
  BY <1>1, RemovalAddsNone
<1>4. NeverBefore'
  BY <1>1, <1>2, <1>3 DEF NeverBefore, Located
<1> QED
  BY <1>2, <1>4 DEF RInv

LEMMA DespawnKeepsRInv ==
    ASSUME RInv, NEW e \in Entity, Despawn(e)
    PROVE  RInv' /\ Located(e) /\ rows' = RowsLess(e) /\ columns' = ColumnsLess(e)
           /\ location' = LocationLess(e)
<1>1. Placed(rows, location) /\ NeverBefore /\ Located(e)
  BY DEF RInv, Despawn
<1>2. rows' = RowsLess(e) /\ columns' = ColumnsLess(e) /\ location' = LocationLess(e) /\ used' = used
  BY DEF Despawn, RowsLess, ColumnsLess, LocationLess
<1>3. Placed(rows', location')
  BY <1>1, <1>2, RemovalPlaced
<1>4. \A f \in Entity : location'[f] # Nothing => Located(f)
  BY <1>1, <1>2, RemovalAddsNone
<1>5. NeverBefore'
  BY <1>1, <1>2, <1>4 DEF NeverBefore, Located
<1> QED
  BY <1>1, <1>2, <1>3, <1>5 DEF RInv

LEMMA InitRInv == Init => RInv
<1> SUFFICES ASSUME Init PROVE RInv
  OBVIOUS
<1>1. rows = [A \in Archetype |-> <<>>] /\ location = [e \in Entity |-> Nothing] /\ used = {}
  BY DEF Init
<1>2. <<>> \in Seq(Entity) /\ Len(<<>>) = 0
  BY EmptySeq
<1>3. \A A \in Archetype : rows[A] = <<>>
  BY <1>1
<1>4. rows \in [Archetype -> Seq(Entity)]
  BY <1>1, <1>2
<1>5. \A A \in Archetype : 1..Len(rows[A]) = {}
  BY <1>2, <1>3
<1>6. Placed(rows, location)
  BY <1>1, <1>4, <1>5 DEF Placed
<1> QED
  BY <1>1, <1>6 DEF RInv, NeverBefore, Located

\* One step for each operation.
LEMMA NextRInv == RInv /\ [Next]_vars => RInv'
<1> SUFFICES ASSUME RInv, [Next]_vars PROVE RInv'
  OBVIOUS
<1>0. ASSUME rows' = rows, location' = location, used' = used
      PROVE  RInv'
  BY <1>0 DEF RInv, Placed, NeverBefore, Located
<1>1. ASSUME NEW new \in NewHandles, NEW bundle \in Bundles, Spawn(new, bundle)
      PROVE  RInv'
  BY <1>1, SpawnAdds
<1>2. ASSUME NEW new \in NewHandles, NEW bundle \in Bundles,
             NEW written \in 0..(Len(new) - 1), SpawnPanics(new, bundle, written)
      PROVE  RInv'
  <2>1. ToSet(new) \subseteq Entity
    BY NewHandlesFacts
  <2>2. rows' = rows /\ location' = location /\ used' = used \cup ToSet(new)
    BY <1>2 DEF SpawnPanics
  <2> QED
    BY <2>1, <2>2 DEF RInv, Placed, NeverBefore, Located
<1>3. ASSUME NEW e \in Entity, NEW parts \in Batches, Insert(e, parts)
      PROVE  RInv'
  <2> DEFINE given  == ToSet(parts)
             from   == ArchOf(e)
             gained == Needed(from, given \ from)
             changed(c) == [columns[from][c][RowOf(e)] EXCEPT !.changed = now]
             put == [c \in gained \cup given |-> IF c \in from THEN changed(c) ELSE Fresh(e)]
  <2>1. CASE gained = {}
    <3>1. rows' = rows /\ location' = location /\ used' = used
      BY <1>3, <2>1 DEF Insert
    <3> QED
      BY <1>0, <3>1
  <2>2. CASE gained # {}
    <3>1. /\ Located(e) /\ from \cup gained \in Archetype
          /\ gained # {} => from \cup gained # from
      BY <1>3, InsertMoves
    <3>2. Move(e, from \cup gained, put) /\ used' = used
      BY <1>3, <2>2 DEF Insert
    <3> HIDE DEF from, gained, put
    <3> QED
      BY <2>2, <3>1, <3>2, MoveKeepsRInv DEF from
  <2> QED
    BY <2>1, <2>2
<1>4. ASSUME NEW e \in Entity, NEW c \in Component, RemoveComponent(e, c)
      PROVE  RInv'
  <2>1. /\ Located(e) /\ c \in ArchOf(e) /\ used' = used
        /\ Move(e, ArchOf(e) \ {c}, <<>>)
    BY <1>4 DEF RemoveComponent
  <2>2. ArchOf(e) \in Archetype
    BY <2>1, PlacedFacts DEF RInv, Located, ArchOf
  <2>3. ArchOf(e) \ {c} \in Archetype /\ ArchOf(e) \ {c} # ArchOf(e)
    BY <2>1, <2>2 DEF Archetype
  <2> QED
    BY <2>1, <2>3, MoveKeepsRInv
<1>5. ASSUME NEW e \in Entity, Despawn(e)
      PROVE  RInv'
  BY <1>5, DespawnKeepsRInv
<1>6. CASE CallHook \/ HookReturns \/ Advance \/ UNCHANGED vars
  <2>1. rows' = rows /\ location' = location /\ used' = used
    BY <1>6 DEF CallHook, HookReturns, Advance, vars, store
  <2> QED
    BY <1>0, <2>1
<1> QED
  BY <1>1, <1>2, <1>3, <1>4, <1>5, <1>6 DEF Next

LEMMA RInvRowsMatch == RInv => RowsMatch
<1> SUFFICES ASSUME RInv PROVE RowsMatch
  OBVIOUS
<1>1. Placed(rows, location)
  BY DEF RInv
<1>2. ASSUME NEW A \in Archetype
      PROVE  DOMAIN rows[A] = 1..Len(rows[A])
  BY <1>1, PlacedFacts, LenProperties
<1>3. ASSUME NEW e \in Entity, Located(e)
      PROVE  ArchOf(e) \in Archetype
  BY <1>1, <1>3, PlacedFacts DEF Located, ArchOf
<1>4. \A A \in Archetype : \A i \in DOMAIN rows[A] : location[rows[A][i]] = [arch |-> A, row |-> i]
  BY <1>1, <1>2 DEF Placed
<1>5. ASSUME NEW e \in Entity, Located(e)
      PROVE  RowOf(e) \in DOMAIN rows[ArchOf(e)] /\ rows[ArchOf(e)][RowOf(e)] = e
  <2>1. RowOf(e) \in 1..Len(rows[ArchOf(e)]) /\ rows[ArchOf(e)][RowOf(e)] = e
    BY <1>1, <1>5 DEF Placed, Located, ArchOf, RowOf
  <2> QED
    BY <1>2, <1>3, <1>5, <2>1
<1> QED
  BY <1>4, <1>5 DEF RowsMatch

\* Whatever is spawned, inserted, removed and despawned, also by hooks and by
\* bulk spawns that panic: each entity is in the row its location says, and in
\* no other.
THEOREM RowsAndLocationsAgree == Spec => []RowsMatch
<1>1. Init => RInv
  BY InitRInv
<1>2. RInv /\ [Next]_vars => RInv'
  BY NextRInv
<1>3. RInv => RowsMatch
  BY RInvRowsMatch
<1> QED
  BY <1>1, <1>2, <1>3, PTL DEF Spec

-----------------------------------------------------------------------------
(* Values stay with their entities.                                        *)

HeldCell(e, c) == columns[ArchOf(e)][c][RowOf(e)]

LEMMA CellFacts ==
    ASSUME CInv, NEW e \in Entity, Located(e), NEW c \in ArchOf(e)
    PROVE  HeldCell(e, c) \in Cells /\ HeldCell(e, c).of = e
<1>1. /\ ArchOf(e) \in Archetype
      /\ RowOf(e) \in 1..Len(rows[ArchOf(e)]) /\ rows[ArchOf(e)][RowOf(e)] = e
  BY PlacedFacts DEF CInv, RInv, Placed, Located, ArchOf, RowOf
<1>2. /\ columns[ArchOf(e)] \in [ArchOf(e) -> Seq(Cells)]
      /\ Len(columns[ArchOf(e)][c]) = Len(rows[ArchOf(e)])
      /\ \A i \in 1..Len(rows[ArchOf(e)]) : columns[ArchOf(e)][c][i].of = rows[ArchOf(e)][i]
  BY <1>1 DEF CInv, Filled
<1>3. columns[ArchOf(e)][c] \in Seq(Cells) /\ RowOf(e) \in 1..Len(columns[ArchOf(e)][c])
  BY <1>1, <1>2
<1>4. columns[ArchOf(e)][c][RowOf(e)] \in Cells
  BY <1>3, ElementOfSeq
<1> QED
  BY <1>1, <1>2, <1>4 DEF HeldCell

LEMMA CellTypes ==
    ASSUME now \in Nat, NEW e \in Entity
    PROVE  /\ Fresh(e) \in Cells /\ Fresh(e).of = e
           /\ Ticks(Fresh(e)) = [added |-> now, changed |-> now]
           /\ \A v \in Cells : /\ [v EXCEPT !.changed = now] \in Cells
                              /\ [v EXCEPT !.changed = now].of = v.of
                              /\ Ticks(v) \in [added : Nat, changed : Nat]
                              /\ Ticks([v EXCEPT !.changed = now]) = [Ticks(v) EXCEPT !.changed = now]
BY DEF Fresh, Cell, Cells, Ticks

LEMMA HeldFacts ==
    ASSUME CInv, NEW e \in Entity
    PROVE  /\ ~Located(e) => Held[e] = Nothing
           /\ Located(e) => /\ Held[e] = [c \in ArchOf(e) |-> Ticks(HeldCell(e, c))]
                            /\ Held[e] # Nothing /\ DOMAIN Held[e] = ArchOf(e)
                            /\ ArchOf(e) \in Archetype
<1>1. ~Located(e) => Held[e] = Nothing
  BY DEF Held
<1>2. Located(e) => Held[e] = [c \in ArchOf(e) |-> Ticks(HeldCell(e, c))]
  BY DEF Held, HeldCell
<1>3. ASSUME Located(e)
      PROVE  Held[e] # Nothing /\ ArchOf(e) \in Archetype
  <2>1. ArchOf(e) \in Archetype
    BY <1>3, PlacedFacts DEF CInv, RInv, Located, ArchOf
  <2>2. now \in Nat
    BY DEF CInv
  <2>3. \A c \in ArchOf(e) : Ticks(HeldCell(e, c)) \in [added : Nat, changed : Nat]
    BY <1>3, <2>2, CellFacts, CellTypes
  <2>4. Held[e] \in [ArchOf(e) -> [added : Nat, changed : Nat]]
    BY <1>2, <1>3, <2>3
  <2> QED
    BY <2>1, <2>4, StorageAssumption DEF Archetype
<1> QED
  BY <1>1, <1>2, <1>3

\* Who keeps its cells holds afterwards what it held before.
LEMMA HeldKept ==
    ASSUME NEW f \in Entity, Located(f), Keeps(columns', location', f)
    PROVE  Held'[f] = Held[f]
<1>1. Held[f] = [c \in ArchOf(f) |-> Ticks(columns[ArchOf(f)][c][RowOf(f)])]
  BY DEF Held
<1>2. Held'[f] = [c \in location'[f].arch |->
                     Ticks(columns'[location'[f].arch][c][location'[f].row])]
  BY DEF Held, Located, ArchOf, RowOf, Keeps, Ticks
<1>3. location'[f].arch = ArchOf(f)
  BY DEF Keeps
<1>4. \A c \in ArchOf(f) : columns'[ArchOf(f)][c][location'[f].row] = columns[ArchOf(f)][c][RowOf(f)]
  BY DEF Keeps
<1> QED
  BY <1>1, <1>2, <1>3, <1>4

LEMMA HeldNothing ==
    ASSUME NEW f \in Entity, location'[f] = Nothing
    PROVE  Held'[f] = Nothing
BY DEF Held, Located

\* Who has the cells of h, holds h.
LEMMA HeldNew ==
    ASSUME NEW f \in Entity, location'[f] # Nothing, NEW A, location'[f].arch = A,
           NEW h, h = [c \in A |-> h[c]],
           \A c \in A : Ticks(columns'[A][c][location'[f].row]) = h[c]
    PROVE  Held'[f] = h
<1>1. Held'[f] = [c \in location'[f].arch |->
                     Ticks(columns'[location'[f].arch][c][location'[f].row])]
  BY DEF Held, Located, ArchOf, RowOf, Ticks
<1> QED
  BY <1>1

LEMMA HeldDomain == Held = [e \in Entity |-> Held[e]] /\ Held' = [e \in Entity |-> Held'[e]]
BY DEF Held

LEMMA SpawnSteps ==
    ASSUME CInv, NEW new \in NewHandles, NEW bundle \in Bundles, Spawn(new, bundle)
    PROVE  Filled(rows', columns') /\ Map!Spawn(ToSet(new), Needed({}, bundle))
<1> DEFINE arch == Needed({}, bundle)
           D == [c \in arch |-> [i \in DOMAIN new |-> Fresh(new[i])]]
<1>1. RInv /\ Placed(rows, location) /\ Filled(rows, columns) /\ now \in Nat
  BY DEF CInv, RInv
<1>2. /\ arch \in Archetype
      /\ rows' = [rows EXCEPT ![arch] = @ \o new]
      /\ Joined(rows, location, arch, new, location')
  BY <1>1, SpawnAdds
<1>3. /\ Homeless(location, new) /\ Len(new) \in Nat /\ DOMAIN new = 1..Len(new)
      /\ ToSet(new) = {new[i] : i \in 1..Len(new)} /\ ToSet(new) \subseteq Entity \ used
  BY <1>1, NewHandlesFacts
<1>4. \A i \in 1..Len(new) : /\ Fresh(new[i]) \in Cells /\ Fresh(new[i]).of = new[i]
                            /\ Ticks(Fresh(new[i])) = [added |-> now, changed |-> now]
  <2>1. \A i \in 1..Len(new) : new[i] \in Entity
    BY <1>3
  <2> QED
    BY <1>1, <2>1, CellTypes
<1>5. CellsFor(arch, new, D)
  <2>1. ASSUME NEW c \in arch
        PROVE  /\ D[c] \in Seq(Cells) /\ Len(D[c]) = Len(new)
               /\ \A i \in 1..Len(new) : D[c][i] = Fresh(new[i])
    <3>1. D[c] = [i \in 1..Len(new) |-> Fresh(new[i])]
      BY <1>3
    <3>2. D[c] \in [1..Len(new) -> Cells]
      BY <1>4, <3>1
    <3>3. D[c] \in Seq(Cells)
      BY <1>3, <3>2, SeqDef
    <3>4. Len(D[c]) = Len(new)
      BY <1>3, <3>1, <3>3, LenProperties
    <3> QED
      BY <3>1, <3>3, <3>4
  <2>2. D \in [arch -> Seq(Cells)]
    BY <2>1
  <2> QED
    BY <1>4, <2>1, <2>2 DEF CellsFor
<1>6. \A c \in arch : \A i \in 1..Len(new) : D[c][i] = Fresh(new[i])
  BY <1>3
<1>7. Widened(columns, arch, D, columns')
  <2>1. columns' = [columns EXCEPT ![arch] = [c \in arch |-> @[c] \o [i \in DOMAIN new |-> Fresh(new[i])]]]
    BY DEF Spawn
  <2>2. columns = [B \in Archetype |-> columns[B]]
    BY <1>1 DEF Filled
  <2>3. columns'[arch] = [c \in arch |-> columns[arch][c] \o [i \in DOMAIN new |-> Fresh(new[i])]]
    BY <1>2, <2>1, <2>2
  <2>4. \A c \in arch : columns'[arch][c] = columns[arch][c] \o D[c]
    BY <2>3
  <2>5. columns'[arch] = [c \in arch |-> columns'[arch][c]]
    BY <2>3
  <2>6. columns' = [B \in Archetype |-> columns'[B]]
    BY <2>1, <2>2
  <2>7. \A B \in Archetype \ {arch} : columns'[B] = columns[B]
    BY <2>1, <2>2
  <2> QED
    BY <2>4, <2>5, <2>6, <2>7 DEF Widened
<1> HIDE DEF arch, D
<1>8. Filled(rows', columns') /\ Extended(rows, columns, arch, new, D, columns')
  <2>1. rows \in [Archetype -> Seq(Entity)] /\ new \in Seq(Entity) /\ arch \in Archetype
    BY <1>1, <1>2, <1>3 DEF Placed, Homeless
  <2>2. Filled(rows, columns)
    BY <1>1
  <2> QED
    BY ONLY <1>2, <1>5, <1>7, <2>1, <2>2, AdditionFilled
<1>9. ASSUME NEW f \in Entity, f \notin ToSet(new)
      PROVE  Held'[f] = Held[f]
  <2>1. location'[f] = location[f]
    BY <1>2, <1>3, <1>9 DEF Joined
  <2>2. CASE Located(f)
    <3>1. ArchOf(f) \in Archetype /\ RowOf(f) \in 1..Len(rows[ArchOf(f)])
      BY <1>1, <2>2, PlacedFacts DEF Placed, Located, ArchOf, RowOf
    <3>2. \A c \in ArchOf(f) : columns'[ArchOf(f)][c][RowOf(f)] = columns[ArchOf(f)][c][RowOf(f)]
      BY <1>8, <3>1 DEF Extended
    <3>3. Keeps(columns', location', f)
      BY <2>1, <2>2, <3>2 DEF Keeps, Located, ArchOf, RowOf
    <3> QED
      BY <2>2, <3>3, HeldKept
  <2>3. CASE ~Located(f)
    BY <2>1, <2>3, HeldNothing, HeldFacts DEF Located
  <2> QED
    BY <2>2, <2>3
<1>10. ASSUME NEW f \in ToSet(new)
       PROVE  Held'[f] = [c \in arch |-> [added |-> now, changed |-> now]] /\ Held[f] = Nothing
  <2> DEFINE h == [c \in arch |-> [added |-> now, changed |-> now]]
  <2>1. PICK i \in 1..Len(new) : f = new[i]
    BY <1>3
  <2>2. f \in Entity /\ location[f] = Nothing
    BY <1>3, <2>1 DEF Homeless
  <2>3. location'[f] = [arch |-> arch, row |-> Len(rows[arch]) + i]
    BY <1>2, <2>1 DEF Joined
  <2>4. Len(rows[arch]) + i \in Nat
    BY <1>1, <1>2, PlacedFacts
  <2>5. [arch |-> arch, row |-> Len(rows[arch]) + i] \in Place
    BY <1>2, <2>4 DEF Place
  <2>6. location'[f] # Nothing /\ location'[f].arch = arch /\ location'[f].row = Len(rows[arch]) + i
    BY <2>3, <2>5, NotAPlace
  <2>7. \A c \in arch : Ticks(columns'[arch][c][location'[f].row]) = h[c]
    <3> TAKE c \in arch
    <3>1. columns'[arch][c][Len(rows[arch]) + i] = D[c][i]
      BY <1>8, <2>1 DEF Extended
    <3> QED
      BY <1>4, <1>6, <2>1, <2>6, <3>1
  <2>8. h = [c \in arch |-> h[c]]
    OBVIOUS
  <2>9. Held'[f] = h
    <3> HIDE DEF h
    <3> QED
      BY <2>2, <2>6, <2>7, <2>8, HeldNew
  <2> QED
    BY <2>2, <2>9, HeldFacts DEF Located
<1>11. Map!MayArrive(arch, {})
  <2>1. bundle \in SUBSET Component
    BY StorageAssumption
  <2> QED
    BY <2>1, NeededFacts DEF Map!MayArrive, arch
<1>12. Held' = [e \in Entity |-> IF e \in ToSet(new) THEN [c \in arch |-> Map!Fresh] ELSE Held[e]]
  BY <1>9, <1>10, HeldDomain DEF Map!Fresh
<1>13. now' = now
  BY DEF Spawn
<1>14. \A e \in ToSet(new) : ~Map!Exists(e)
  BY <1>10 DEF Map!Exists
<1> QED
  BY <1>8, <1>11, <1>12, <1>13, <1>14 DEF Map!Spawn, arch

\* A step of one entity leaves the others what they hold.
LEMMA OneChanges ==
    ASSUME CInv, NEW e \in Entity, NEW h, Held'[e] = h,
           \A f \in Entity \ {e} : Located(f) => Keeps(columns', location', f),
           \A f \in Entity \ {e} : ~Located(f) => location'[f] = Nothing
    PROVE  Held' = [Held EXCEPT ![e] = h]
<1>1. ASSUME NEW f \in Entity \ {e}
      PROVE  Held'[f] = Held[f]
  <2>1. CASE Located(f)
    BY <2>1, HeldKept
  <2>2. CASE ~Located(f)
    BY <2>2, HeldNothing, HeldFacts
  <2> QED
    BY <2>1, <2>2
<1> QED
  BY <1>1, HeldDomain

\* What is put is a cell of the entity, and every other component is there.
Puts(e, to, put) ==
    \A c \in to : IF c \in DOMAIN put THEN put[c] \in Cells /\ put[c].of = e
                 ELSE c \in ArchOf(e)

\* h is what was put, and otherwise what the entity held.
Holding(e, to, put, h) ==
    /\ h = [c \in to |-> h[c]]
    /\ \A c \in to : h[c] = IF c \in DOMAIN put THEN Ticks(put[c]) ELSE Held[e][c]

LEMMA MoveSteps ==
    ASSUME CInv, NEW e \in Entity, Located(e), NEW to \in Archetype, to # ArchOf(e),
           NEW put, Move(e, to, put), Puts(e, to, put), NEW h, Holding(e, to, put, h)
    PROVE  Filled(rows', columns') /\ Held' = [Held EXCEPT ![e] = h]
<1>1. Placed(rows, location) /\ Filled(rows, columns)
  BY DEF CInv, RInv
<1>a. \A c \in to : IF c \in DOMAIN put THEN put[c] \in Cells /\ put[c].of = e
                    ELSE c \in ArchOf(e)
  BY DEF Puts
<1>b. /\ h = [c \in to |-> h[c]]
      /\ \A c \in to : h[c] = IF c \in DOMAIN put THEN Ticks(put[c]) ELSE Held[e][c]
  BY DEF Holding
<1>2. /\ location'[e] = [arch |-> to, row |-> Len(rows[to]) + 1]
      /\ \A f \in Entity \ {e} : location'[f] = LocationLess(e)[f]
  BY <1>1, MovePlaced
<1>3. /\ Filled(rows', columns')
      /\ \A f \in Entity \ {e} : Located(f) => Keeps(columns', location', f)
      /\ \A c \in to : columns'[to][c][Len(rows[to]) + 1] =
            IF c \in DOMAIN put THEN put[c] ELSE columns[ArchOf(e)][c][RowOf(e)]
  BY <1>1, <1>a, MoveFilled
<1>4. \A f \in Entity \ {e} : ~Located(f) => location'[f] = Nothing
  BY <1>1, <1>2, RemovalAddsNone
<1>5. location'[e] # Nothing /\ location'[e].arch = to /\ location'[e].row = Len(rows[to]) + 1
  <2>1. Len(rows[to]) + 1 \in Nat
    BY <1>1, PlacedFacts
  <2>2. [arch |-> to, row |-> Len(rows[to]) + 1] \in Place
    BY <2>1 DEF Place
  <2> QED
    BY <1>2, <2>2, NotAPlace
<1>6. ASSUME NEW c \in to
      PROVE  Ticks(columns'[to][c][location'[e].row]) = h[c]
  <2>1. CASE c \in DOMAIN put
    BY <1>3, <1>5, <1>b, <2>1
  <2>2. CASE c \notin DOMAIN put
    <3>1. Held[e][c] = Ticks(HeldCell(e, c))
      BY <1>a, <2>2, HeldFacts
    <3> QED
      BY <1>3, <1>5, <1>b, <2>2, <3>1 DEF HeldCell
  <2> QED
    BY <2>1, <2>2
<1>7. Held'[e] = h
  BY <1>5, <1>6, <1>b, HeldNew
<1> QED
  BY <1>3, <1>4, <1>7, OneChanges

LEMMA RemoveSteps ==
    ASSUME CInv, NEW e \in Entity, NEW c \in Component, RemoveComponent(e, c)
    PROVE  Filled(rows', columns') /\ Map!Remove(e, c)
<1> DEFINE to == ArchOf(e) \ {c}
           h == [d \in to |-> Held[e][d]]
<1>1. /\ Located(e) /\ c \in ArchOf(e) /\ now' = now /\ Move(e, to, <<>>)
  BY DEF RemoveComponent
<1>2. /\ Held[e] # Nothing /\ DOMAIN Held[e] = ArchOf(e) /\ ArchOf(e) \in Archetype
  BY <1>1, HeldFacts
<1>3. to \in Archetype /\ to # ArchOf(e) /\ \A d \in to : d \in ArchOf(e)
  BY <1>1, <1>2 DEF Archetype
<1>4. DOMAIN <<>> = {}
  OBVIOUS
<1>5. h = [d \in to |-> h[d]] /\ \A d \in to : h[d] = Held[e][d]
  OBVIOUS
<1> HIDE DEF to, h
<1>6. Filled(rows', columns') /\ Held' = [Held EXCEPT ![e] = h]
  <2>1. Puts(e, to, <<>>) /\ Holding(e, to, <<>>, h)
    BY <1>3, <1>4, <1>5 DEF Puts, Holding
  <2> QED
    BY <1>1, <1>3, <2>1, MoveSteps
<1>7. Map!Has(e) = ArchOf(e) /\ Map!Exists(e)
  BY <1>2 DEF Map!Has, Map!Exists
<1> QED
  BY <1>1, <1>6, <1>7 DEF Map!Remove, h, to

LEMMA DespawnSteps ==
    ASSUME CInv, NEW e \in Entity, Despawn(e)
    PROVE  Filled(rows', columns') /\ Map!Despawn(e)
<1>1. /\ Located(e) /\ rows' = RowsLess(e) /\ columns' = ColumnsLess(e)
      /\ location' = LocationLess(e)
  BY DespawnKeepsRInv DEF CInv
<1>2. Placed(rows, location) /\ Filled(rows, columns)
  BY DEF CInv, RInv
<1>3. /\ Filled(rows', columns')
      /\ \A f \in Entity \ {e} : Located(f) => Keeps(columns', location', f)
  BY <1>1, <1>2, RemovalFilled
<1>4. \A f \in Entity : location'[f] # Nothing => Located(f)
  BY <1>1, <1>2, RemovalAddsNone
<1>5. location'[e] = Nothing
  BY <1>1, <1>2, LocationsAfter
<1>6. Held'[e] = Nothing
  BY <1>5, HeldNothing
<1>7. Held' = [Held EXCEPT ![e] = Nothing]
  BY <1>3, <1>4, <1>6, OneChanges
<1>8. now' = now
  BY DEF Despawn
<1>9. Map!Exists(e)
  BY <1>1, HeldFacts DEF Map!Exists
<1> QED
  BY <1>3, <1>7, <1>8, <1>9 DEF Map!Despawn

LEMMA InsertSteps ==
    ASSUME CInv, NEW e \in Entity, NEW parts \in Batches, Insert(e, parts)
    PROVE  LET given  == ToSet(parts)
               from   == ArchOf(e)
               gained == Needed(from, given \ from)
           IN  /\ Filled(rows', columns')
               /\ gained \in SUBSET (Component \ Map!Has(e))
               /\ given \cap from \in SUBSET Map!Has(e)
               /\ Map!Insert(e, gained, given \cap from)
<1> DEFINE given  == ToSet(parts)
           from   == ArchOf(e)
           gained == Needed(from, given \ from)
           to     == from \cup gained
           changed(c) == [columns[from][c][RowOf(e)] EXCEPT !.changed = now]
           put == [c \in gained \cup given |-> IF c \in from THEN changed(c) ELSE Fresh(e)]
           h == [c \in to |-> IF c \in given \cap from THEN [Held[e][c] EXCEPT !.changed = now]
                              ELSE IF c \in from THEN Held[e][c] ELSE Map!Fresh]
<1>1. RInv /\ Placed(rows, location) /\ Filled(rows, columns) /\ now \in Nat
  BY DEF CInv, RInv
<1>2. /\ Located(e) /\ from \in Archetype /\ given \in SUBSET Component
      /\ gained \in Archetype /\ gained \cap from = {} /\ given \subseteq from \cup gained
      /\ \A c \in gained : Requires[c] \subseteq gained \cup from
      /\ to \in Archetype /\ (gained # {} => to # from)
  BY <1>1, InsertMoves
<1>3. /\ Held[e] # Nothing /\ DOMAIN Held[e] = from
      /\ Held[e] = [c \in from |-> Ticks(HeldCell(e, c))]
  BY <1>2, HeldFacts
<1>4. Map!Has(e) = from /\ Map!Exists(e)
  BY <1>3 DEF Map!Has, Map!Exists
<1>5. now' = now
  BY DEF Insert
<1>6. Map!MayArrive(gained, from)
  BY <1>2 DEF Map!MayArrive
<1>7. /\ Fresh(e) \in Cells /\ Fresh(e).of = e
      /\ Ticks(Fresh(e)) = Map!Fresh
  BY <1>1, CellTypes DEF Map!Fresh
<1>8. ASSUME NEW c \in from
      PROVE  /\ changed(c) \in Cells /\ changed(c).of = e
             /\ Ticks(changed(c)) = [Held[e][c] EXCEPT !.changed = now]
  <2>1. HeldCell(e, c) \in Cells /\ HeldCell(e, c).of = e
    BY <1>2, CellFacts
  <2>2. changed(c) = [HeldCell(e, c) EXCEPT !.changed = now]
    BY DEF HeldCell
  <2>3. Held[e][c] = Ticks(HeldCell(e, c))
    BY <1>3
  <2> QED
    BY <1>1, <2>1, <2>2, <2>3, CellTypes
<1>9. Filled(rows', columns') /\ Held' = [Held EXCEPT ![e] = h]
  <2>1. CASE gained # {}
    <3>1. Move(e, to, put)
      BY <2>1 DEF Insert
    <3>2. ASSUME NEW c \in to
          PROVE  IF c \in DOMAIN put THEN put[c] \in Cells /\ put[c].of = e ELSE c \in from
      BY <1>7, <1>8
    <3>3. ASSUME NEW c \in to
          PROVE  h[c] = IF c \in DOMAIN put THEN Ticks(put[c]) ELSE Held[e][c]
      <4>1. CASE c \in from /\ c \in given
        <5>1. h[c] = [Held[e][c] EXCEPT !.changed = now] /\ put[c] = changed(c) /\ c \in DOMAIN put
          BY <4>1
        <5> QED
          BY <1>8, <4>1, <5>1
      <4>2. CASE c \in from /\ c \notin given
        <5>1. h[c] = Held[e][c] /\ c \notin DOMAIN put
          BY <1>2, <4>2
        <5> QED
          BY <5>1
      <4>3. CASE c \notin from
        <5>1. h[c] = Map!Fresh /\ put[c] = Fresh(e) /\ c \in DOMAIN put
          BY <4>3
        <5> QED
          BY <1>7, <5>1
      <4> QED
        BY <4>1, <4>2, <4>3
    <3>4. h = [c \in to |-> h[c]]
      OBVIOUS
    <3> HIDE DEF to, put, h
    <3>5. Puts(e, to, put) /\ Holding(e, to, put, h)
      BY <3>2, <3>3, <3>4 DEF Puts, Holding
    <3> QED
      BY <1>2, <2>1, <3>1, <3>5, MoveSteps
  <2>2. CASE gained = {}
    <3> DEFINE row == RowOf(e)
               C2 == [c \in from |-> IF c \in given THEN [columns[from][c] EXCEPT ![row] = changed(c)]
                                     ELSE columns[from][c]]
    <3>1. rows' = rows /\ location' = location /\ columns' = [columns EXCEPT ![from] = C2]
      BY <2>2 DEF Insert
    <3>2. to = from
      BY <2>2
    <3>3. row \in 1..Len(rows[from]) /\ rows[from][row] = e
      BY <1>1, <1>2 DEF Placed, Located, ArchOf, RowOf
    <3>4. /\ columns = [B \in Archetype |-> columns[B]]
          /\ columns[from] \in [from -> Seq(Cells)]
      BY <1>1, <1>2 DEF Filled
    <3>5. ASSUME NEW c \in from
          PROVE  /\ columns[from][c] \in Seq(Cells) /\ Len(columns[from][c]) = Len(rows[from])
                 /\ DOMAIN columns[from][c] = 1..Len(rows[from])
                 /\ \A i \in 1..Len(rows[from]) : columns[from][c][i].of = rows[from][i]
      <4>1. /\ Len(columns[from][c]) = Len(rows[from])
            /\ \A i \in 1..Len(rows[from]) : columns[from][c][i].of = rows[from][i]
        BY <1>1, <1>2 DEF Filled
      <4>2. columns[from][c] \in Seq(Cells)
        BY <3>4
      <4> QED
        BY <4>1, <4>2, LenProperties
    <3>6. ASSUME NEW c \in from
          PROVE  /\ C2[c] \in Seq(Cells) /\ Len(C2[c]) = Len(rows[from])
                 /\ C2[c][row] = IF c \in given THEN changed(c) ELSE columns[from][c][row]
                 /\ \A i \in 1..Len(rows[from]) : i # row => C2[c][i] = columns[from][c][i]
                 /\ \A i \in 1..Len(rows[from]) : C2[c][i].of = rows[from][i]
      <4>1. CASE c \notin given
        BY <3>5, <4>1
      <4>2. CASE c \in given
        <5>1. C2[c] = [columns[from][c] EXCEPT ![row] = changed(c)]
          BY <4>2
        <5>2. changed(c) \in Cells /\ changed(c).of = e
          BY <1>8
        <5> HIDE DEF C2, changed, row, from
        <5>3. C2[c] \in Seq(Cells) /\ Len(C2[c]) = Len(columns[from][c])
              /\ C2[c][row] = changed(c)
              /\ \A i \in 1..Len(columns[from][c]) : i # row => C2[c][i] = columns[from][c][i]
          BY <3>3, <3>5, <5>1, <5>2, ExceptSeq
        <5> QED
          BY <3>3, <3>5, <4>2, <5>2, <5>3
      <4> QED
        BY <4>1, <4>2
    <3>7. /\ columns' = [B \in Archetype |-> columns'[B]] /\ columns'[from] = C2
          /\ \A B \in Archetype \ {from} : columns'[B] = columns[B]
      BY <1>2, <3>1, <3>4
    <3>8. C2 \in [from -> Seq(Cells)]
      BY <3>6
    <3> HIDE DEF C2
    <3>9. Filled(rows', columns')
      <4>1. ASSUME NEW B \in Archetype
            PROVE  columns'[B] \in [B -> Seq(Cells)]
        <5>1. CASE B = from
          BY <3>7, <3>8, <5>1
        <5>2. CASE B # from
          BY <1>1, <3>7, <5>2 DEF Filled
        <5> QED
          BY <5>1, <5>2
      <4>2. ASSUME NEW B \in Archetype, NEW c \in B
            PROVE  /\ Len(columns'[B][c]) = Len(rows[B])
                   /\ \A i \in 1..Len(rows[B]) : columns'[B][c][i].of = rows[B][i]
        <5>1. CASE B = from
          BY <3>6, <3>7, <5>1
        <5>2. CASE B # from
          BY <1>1, <3>7, <5>2 DEF Filled
        <5> QED
          BY <5>1, <5>2
      <4> QED
        BY <3>1, <3>7, <4>1, <4>2 DEF Filled
    <3>10. ASSUME NEW f \in Entity \ {e}, Located(f)
           PROVE  Keeps(columns', location', f)
      <4>1. /\ ArchOf(f) \in Archetype /\ RowOf(f) \in 1..Len(rows[ArchOf(f)])
            /\ rows[ArchOf(f)][RowOf(f)] = f
        BY <1>1, <3>10, PlacedFacts DEF Placed, Located, ArchOf, RowOf
      <4>2. ASSUME NEW c \in ArchOf(f)
            PROVE  columns'[ArchOf(f)][c][RowOf(f)] = columns[ArchOf(f)][c][RowOf(f)]
        <5>1. CASE ArchOf(f) # from
          BY <3>7, <4>1, <5>1
        <5>2. CASE ArchOf(f) = from
          <6>1. RowOf(f) # row
            BY <3>3, <4>1, <5>2
          <6> QED
            <7>1. columns'[from][c][RowOf(f)] = C2[c][RowOf(f)]
              BY <3>7
            <7>2. C2[c][RowOf(f)] = columns[from][c][RowOf(f)]
              BY <3>6, <4>1, <5>2, <6>1
            <7> QED
              BY <5>2, <7>1, <7>2
        <5> QED
          BY <5>1, <5>2
      <4> QED
        BY <3>1, <3>10, <4>2 DEF Keeps, Located, ArchOf, RowOf
    <3>11. \A f \in Entity \ {e} : ~Located(f) => location'[f] = Nothing
      BY <3>1 DEF Located
    <3>12. Held'[e] = h
      <4>1. location'[e] # Nothing /\ location'[e].arch = from /\ location'[e].row = row
        BY <1>2, <3>1 DEF Located, ArchOf, RowOf
      <4>2. ASSUME NEW c \in from
            PROVE  Ticks(columns'[from][c][row]) = h[c]
        <5>1. CASE c \in given
          <6>1. h[c] = [Held[e][c] EXCEPT !.changed = now]
            BY <5>1
          <6> QED
            BY <1>8, <3>6, <3>7, <5>1, <6>1
        <5>2. CASE c \notin given
          <6>1. h[c] = Held[e][c]
            BY <5>2
          <6>2. Held[e][c] = Ticks(columns[from][c][row])
            BY <1>3 DEF HeldCell
          <6> QED
            BY <3>6, <3>7, <5>2, <6>1, <6>2
        <5> QED
          BY <5>1, <5>2
      <4>3. h = [c \in from |-> h[c]]
        BY <3>2
      <4> HIDE DEF h, from, row
      <4> QED
        BY <4>1, <4>2, <4>3, HeldNew
    <3> HIDE DEF h
    <3> QED
      BY <3>9, <3>10, <3>11, <3>12, OneChanges
  <2> QED
    BY <2>1, <2>2
<1>10. Held' = [Held EXCEPT ![e] =
           [c \in Map!Has(e) \cup gained |->
               IF c \in given \cap from THEN [@[c] EXCEPT !.changed = now]
               ELSE IF c \in Map!Has(e) THEN @[c]
               ELSE Map!Fresh]]
  BY <1>4, <1>9
<1>11. gained \in SUBSET (Component \ Map!Has(e)) /\ given \cap from \in SUBSET Map!Has(e)
  BY <1>2, <1>4 DEF Archetype
<1> HIDE DEF given, from, gained, h, to, put
<1>12. Map!Insert(e, gained, given \cap from)
  BY <1>4, <1>5, <1>6, <1>10, <1>11 DEF Map!Insert
<1> QED
  BY <1>9, <1>11, <1>12 DEF given, from, gained

-----------------------------------------------------------------------------
(* The invariant of the columns, and the map of the program.               *)

LEMMA InitCInv == Init => CInv /\ Map!Init
<1> SUFFICES ASSUME Init PROVE CInv /\ Map!Init
  OBVIOUS
<1>1. RInv
  BY InitRInv
<1>2. /\ rows = [A \in Archetype |-> <<>>]
      /\ columns = [A \in Archetype |-> [c \in A |-> <<>>]]
      /\ location = [e \in Entity |-> Nothing] /\ now = 0
  BY DEF Init
<1>3. <<>> \in Seq(Cells) /\ Len(<<>>) = 0
  BY EmptySeq
<1>4. \A A \in Archetype : rows[A] = <<>> /\ columns[A] = [c \in A |-> <<>>]
  BY <1>2
<1>5. \A A \in Archetype : columns[A] \in [A -> Seq(Cells)]
  BY <1>3, <1>4
<1>6. ASSUME NEW A \in Archetype, NEW c \in A
      PROVE  columns[A][c] = <<>> /\ 1..Len(rows[A]) = {} /\ Len(columns[A][c]) = Len(rows[A])
  <2>1. rows[A] = <<>> /\ columns[A] = [d \in A |-> <<>>]
    BY <1>4
  <2> QED
    BY <1>3, <2>1
<1>7. Filled(rows, columns)
  BY <1>2, <1>4, <1>5, <1>6 DEF Filled
<1>8. Held = [e \in Entity |-> Nothing]
  BY <1>2 DEF Held, Located
<1> QED
  BY <1>1, <1>2, <1>7, <1>8 DEF CInv, Map!Init

\* Every operation of the storage is one of the map, or leaves it alone.
LEMMA NextCInv ==
    ASSUME ~Manual
    PROVE  CInv /\ [Next]_vars => CInv' /\ [Map!Next]_<<Held, now>>
<1> SUFFICES ASSUME CInv, [Next]_vars PROVE CInv' /\ [Map!Next]_<<Held, now>>
  OBVIOUS
<1>1. RInv /\ Filled(rows, columns) /\ now \in Nat
  BY DEF CInv
<1>2. RInv'
  BY <1>1, NextRInv
<1>3. ASSUME rows' = rows, columns' = columns, location' = location
      PROVE  Filled(rows', columns') /\ Held' = Held
  BY <1>1, <1>3 DEF Held, Located, ArchOf, RowOf, Ticks
<1>4. ASSUME NEW new \in NewHandles, NEW bundle \in Bundles, Spawn(new, bundle)
      PROVE  Filled(rows', columns') /\ now' \in Nat /\ Map!Next
  <2>1. Filled(rows', columns') /\ Map!Spawn(ToSet(new), Needed({}, bundle))
    BY <1>4, SpawnSteps
  <2>2. now' = now
    BY <1>4 DEF Spawn
  <2>3. ToSet(new) \in SUBSET {e \in Entity : ~Map!Exists(e)}
    <3>1. ToSet(new) \subseteq Entity
      BY <1>1, NewHandlesFacts
    <3> QED
      BY <2>1, <3>1 DEF Map!Spawn
  <2>4. Needed({}, bundle) \in SUBSET Component
    BY <1>1, <1>4, SpawnAdds DEF Archetype
  <2> QED
    BY <1>1, <2>1, <2>2, <2>3, <2>4 DEF Map!Next
<1>5. ASSUME NEW new \in NewHandles, NEW bundle \in Bundles,
             NEW written \in 0..(Len(new) - 1), SpawnPanics(new, bundle, written)
      PROVE  Filled(rows', columns') /\ now' = now /\ Held' = Held
  <2> DEFINE arch == Needed({}, bundle)
  <2>1. /\ rows' = rows /\ location' = location /\ now' = now
        /\ columns' = [columns EXCEPT ![arch] = [c \in arch |-> @[c] \o <<>>]]
    BY <1>5 DEF SpawnPanics
  <2>2. arch \in Archetype
    <3>1. bundle \in SUBSET Component
      BY StorageAssumption
    <3> QED
      BY <3>1, NeededFacts
  <2>3. columns = [B \in Archetype |-> columns[B]] /\ columns[arch] \in [arch -> Seq(Cells)]
    BY <1>1, <2>2 DEF Filled
  <2>4. \A c \in arch : columns[arch][c] \o <<>> = columns[arch][c]
    BY <2>3, ConcatEmptySeq
  <2> HIDE DEF arch
  <2>5. [c \in arch |-> columns[arch][c] \o <<>>] = columns[arch]
    BY <2>3, <2>4
  <2>6. columns' = columns
    BY <2>1, <2>2, <2>3, <2>5
  <2> QED
    BY <1>3, <2>1, <2>6
<1>6. ASSUME NEW e \in Entity, NEW parts \in Batches, Insert(e, parts)
      PROVE  Filled(rows', columns') /\ now' \in Nat /\ Map!Next
  <2> DEFINE changed == ToSet(parts) \cap ArchOf(e)
             gained  == Needed(ArchOf(e), ToSet(parts) \ ArchOf(e))
  <2>1. /\ Filled(rows', columns')
        /\ gained \in SUBSET (Component \ Map!Has(e)) /\ changed \in SUBSET Map!Has(e)
        /\ Map!Insert(e, gained, changed)
    BY <1>6, InsertSteps
  <2>2. now' = now
    BY <1>6 DEF Insert
  <2>3. Map!Exists(e)
    BY <2>1 DEF Map!Insert
  <2> HIDE DEF changed, gained
  <2> QED
    BY <1>1, <2>1, <2>2, <2>3 DEF Map!Next
<1>7. ASSUME NEW e \in Entity, NEW c \in Component, RemoveComponent(e, c)
      PROVE  Filled(rows', columns') /\ now' \in Nat /\ Map!Next
  <2>1. Filled(rows', columns') /\ Map!Remove(e, c)
    BY <1>7, RemoveSteps
  <2>2. now' = now
    BY <1>7 DEF RemoveComponent
  <2> QED
    BY <1>1, <2>1, <2>2 DEF Map!Next
<1>8. ASSUME NEW e \in Entity, Despawn(e)
      PROVE  Filled(rows', columns') /\ now' \in Nat /\ Map!Next
  <2>1. Filled(rows', columns') /\ Map!Despawn(e)
    BY <1>8, DespawnSteps
  <2>2. now' = now
    BY <1>8 DEF Despawn
  <2> QED
    BY <1>1, <2>1, <2>2 DEF Map!Next
<1>9. CASE CallHook \/ HookReturns \/ UNCHANGED vars
  <2>1. rows' = rows /\ columns' = columns /\ location' = location /\ now' = now
    BY <1>9 DEF CallHook, HookReturns, vars, store
  <2> QED
    BY <1>1, <1>2, <1>3, <2>1 DEF CInv
<1>10. CASE Advance
  <2>1. /\ rows' = rows /\ columns' = columns /\ location' = location
        /\ now' = now + 1
    BY <1>10 DEF Advance, store
  <2>2. Map!Advance
    BY <1>3, <2>1 DEF Map!Advance
  <2> QED
    BY <1>1, <1>2, <1>3, <2>1, <2>2 DEF CInv, Map!Next
<1> QED
  BY <1>1, <1>2, <1>4, <1>5, <1>6, <1>7, <1>8, <1>9, <1>10 DEF Next, CInv

LEMMA CInvValuesFollow == CInv => ValuesFollow
<1> SUFFICES ASSUME CInv, NEW A \in Archetype, NEW c \in A
             PROVE  /\ Len(columns[A][c]) = Len(rows[A])
                    /\ \A i \in DOMAIN rows[A] : columns[A][c][i].of = rows[A][i]
  BY DEF ValuesFollow
<1>1. DOMAIN rows[A] = 1..Len(rows[A])
  BY PlacedFacts, LenProperties DEF CInv, RInv
<1> QED
  BY <1>1 DEF CInv, Filled

\* The value in a row of a column is always the one that was written for the
\* entity of that row, if bundles are written component by component.
THEOREM ValuesStayWithEntities ==
    ASSUME ~Manual
    PROVE  Spec => []ValuesFollow
<1>1. Init => CInv
  BY InitCInv
<1>2. CInv /\ [Next]_vars => CInv'
  BY NextCInv
<1>3. CInv => ValuesFollow
  BY CInvValuesFollow
<1> QED
  BY <1>1, <1>2, <1>3, PTL DEF Spec

\* For the program the archetypes, rows and columns are a map from entities to
\* their components and ticks: every behaviour of the storage is one of it.
THEOREM StorageIsAMap ==
    ASSUME ~Manual
    PROVE  Spec => ImplementsMap
<1>1. Init => CInv /\ Map!Init
  BY InitCInv
<1>2. CInv /\ [Next]_vars => CInv' /\ [Map!Next]_<<Held, now>>
  BY NextCInv
<1> QED
  BY <1>1, <1>2, PTL DEF Spec, ImplementsMap, Map!Spec

-----------------------------------------------------------------------------
(* What the hooks tell.                                                    *)

\* What holds at 0, and at n + 1 if it holds at n, holds everywhere.
LEMMA Induction ==
    ASSUME NEW S, 0 \in S, \A n \in Nat : n \in S => n + 1 \in S
    PROVE  Nat \subseteq S
<1> DEFINE less == {p \in Nat \X Nat : p[1] < p[2]}
<1> SUFFICES ASSUME Nat \ S # {} PROVE FALSE
  OBVIOUS
<1>1. IsWellFoundedOn(less, Nat)
  BY NatLessThanWellFounded DEF OpToRel
<1>2. PICK x \in Nat \ S : \A y \in Nat \ S : <<y, x>> \notin less
  BY <1>1, WFMin
<1>3. x # 0 /\ x - 1 \in Nat
  BY <1>2
<1>4. x - 1 \in S
  <2>1. <<x - 1, x>> \in Nat \X Nat /\ x - 1 < x
    BY <1>3
  <2> QED
    BY <1>2, <1>3, <2>1
<1> QED
  BY <1>2, <1>3, <1>4

\* FlattenSeq builds its sequence from the beginnings of seqs.
FlattenedBy(f, T, seqs) ==
    /\ f \in [0..Len(seqs) -> Seq(T)]
    /\ f[0] = <<>>
    /\ \A n \in 1..Len(seqs) : f[n] = f[n - 1] \o seqs[n]
    /\ FlattenSeq(seqs) = f[Len(seqs)]

LEMMA FlattenSteps ==
    ASSUME NEW T, NEW seqs \in Seq(Seq(T))
    PROVE  \E f : FlattenedBy(f, T, seqs)
<1> DEFINE N == Len(seqs)
           V == Seq(T)
           body(f, n) == IF n = 1 THEN seqs[n] ELSE f[n - 1] \o seqs[n]
           Def(f) == f = [n \in 1..Len(seqs) |-> body(f, n)]
           flatten == CHOOSE f : Def(f)
           Grown(f, k) == /\ f \in [0..k -> V]
                          /\ f[0] = <<>>
                          /\ \A n \in 1..k : f[n] = f[n - 1] \o seqs[n]
<1>1. N \in Nat /\ DOMAIN seqs = 1..N /\ \A n \in 1..N : seqs[n] \in V
  BY LenProperties
<1>2. /\ \A v \in V, w \in V : v \o w \in V
      /\ <<>> \in V /\ \A v \in V : <<>> \o v = v
  BY ConcatProperties, ConcatEmptySeq, EmptySeq
<1>3. \E f : Grown(f, N)
  <2> DEFINE P == {k \in Nat : k <= N => \E f : Grown(f, k)}
  <2>1. 0 \in P
    <3>1. [n \in 0..0 |-> <<>>] \in [0..0 -> V]
      BY <1>2
    <3>2. Grown([n \in 0..0 |-> <<>>], 0)
      BY <3>1
    <3> QED
      BY <3>2
  <2>2. ASSUME NEW k \in Nat, k \in P PROVE k + 1 \in P
    <3> SUFFICES ASSUME k + 1 <= N PROVE \E f : Grown(f, k + 1)
      <4> HIDE DEF Grown, N
      <4> QED
        OBVIOUS
    <3>0. k <= N
      BY <1>1
    <3>1. PICK f : Grown(f, k)
      <4> HIDE DEF Grown, N
      <4> QED
        BY <2>2, <3>0
    <3>2. k + 1 \in 1..N /\ k \in 0..k /\ \A n \in 1..(k + 1) : n = k + 1 \/ n \in 1..k
      BY <1>1
    <3> DEFINE last == f[k] \o seqs[k + 1]
               g == [n \in 0..(k + 1) |-> IF n = k + 1 THEN last ELSE f[n]]
    <3>3. last \in V
      <4>1. f[k] \in V /\ seqs[k + 1] \in V
        <5> HIDE DEF V
        <5> QED
          BY <1>1, <3>1, <3>2
      <4> QED
        BY <1>2, <4>1
    <3> HIDE DEF last, V
    <3>4. g \in [0..(k + 1) -> V] /\ g[0] = <<>>
      BY <3>1, <3>2, <3>3
    <3>5. ASSUME NEW n \in 1..(k + 1) PROVE g[n] = g[n - 1] \o seqs[n]
      <4>1. CASE n = k + 1
        <5>1. n - 1 = k /\ k # k + 1 /\ k \in 0..(k + 1) /\ n \in 0..(k + 1)
          BY <4>1
        <5>2. g[n - 1] = f[k] /\ g[n] = last
          BY <4>1, <5>1
        <5> QED
          BY <4>1, <5>2 DEF last
      <4>2. CASE n # k + 1
        <5>1. n \in 1..k /\ n - 1 \in 0..(k + 1) /\ n - 1 # k + 1 /\ n \in 0..(k + 1)
          BY <3>2, <4>2
        <5>2. g[n] = f[n] /\ g[n - 1] = f[n - 1]
          BY <4>2, <5>1
        <5> QED
          BY <3>1, <5>1, <5>2
      <4> QED
        BY <4>1, <4>2
    <3> HIDE DEF g
    <3> QED
      BY <3>4, <3>5
  <2>3. Nat \subseteq P
    <3> HIDE DEF P
    <3> QED
      BY <2>1, <2>2, Induction
  <2>4. N \in P
    <3> HIDE DEF P, N
    <3> QED
      BY <1>1, <2>3
  <2>5. N <= N
    BY <1>1
  <2> HIDE DEF Grown, N
  <2> QED
    BY <2>4, <2>5
<1>4. PICK f : Grown(f, N)
  BY <1>3
<1>5. CASE N = 0
  <2>1. seqs = <<>>
    BY <1>5, EmptySeq
  <2>2. FlattenSeq(seqs) = f[N]
    BY <1>4, <1>5, <2>1 DEF FlattenSeq
  <2> QED
    BY <1>4, <2>2 DEF FlattenedBy
<1>6. CASE N # 0
  <2> DEFINE g == [n \in 1..N |-> f[n]]
  <2>1. 1 \in 1..N /\ N \in 1..N /\ \A n \in 1..N : n # 1 => n - 1 \in 1..N
    BY <1>1, <1>6
  <2>2. ASSUME NEW n \in 1..N PROVE g[n] = body(g, n)
    <3>1. g[n] = f[n - 1] \o seqs[n]
      BY <1>4
    <3>2. CASE n = 1
      <4>1. f[n - 1] = <<>>
        BY <1>4, <3>2
      <4>2. seqs[n] \in V
        <5> HIDE DEF V
        <5> QED
          BY <1>1
      <4> QED
        BY <1>2, <3>1, <3>2, <4>1, <4>2
    <3>3. CASE n # 1
      <4>1. g[n - 1] = f[n - 1]
        BY <2>1, <3>3
      <4> QED
        BY <3>1, <3>3, <4>1
    <3> QED
      BY <3>2, <3>3
  <2>3. Def(g)
    <3>1. [n \in 1..N |-> g[n]] = [n \in 1..N |-> body(g, n)]
      <4> HIDE DEF body
      <4> QED
        BY <2>2
    <3>2. g = [n \in 1..N |-> g[n]]
      OBVIOUS
    <3> HIDE DEF g, body
    <3> QED
      BY <3>1, <3>2
  <2>4. Def(flatten)
    BY <2>3
  <2>5. FlattenSeq(seqs) = flatten[N]
    BY <1>6 DEF FlattenSeq
  <2> HIDE DEF flatten
  <2>6. \A n \in 1..N : flatten[n] = f[n]
    <3> DEFINE P == {n \in Nat : n \in 1..N => flatten[n] = f[n]}
    <3>1. 0 \in P
      BY <1>1
    <3>2. ASSUME NEW k \in Nat, k \in P PROVE k + 1 \in P
      <4> SUFFICES ASSUME k + 1 \in 1..N PROVE flatten[k + 1] = f[k + 1]
        OBVIOUS
      <4>1. flatten[k + 1] = body(flatten, k + 1)
        BY <2>4
      <4>2. g[k + 1] = body(g, k + 1) /\ g[k + 1] = f[k + 1]
        <5> HIDE DEF body
        <5> QED
          BY <2>2
      <4>3. (k + 1) # 1 => (k + 1) - 1 = k /\ k \in 1..N
        BY <1>1
      <4>4. (k + 1) # 1 => flatten[k] = f[k] /\ g[k] = f[k]
        BY <3>2, <4>3
      <4> HIDE DEF g
      <4> QED
        BY <4>1, <4>2, <4>3, <4>4
    <3>3. Nat \subseteq P
      <4> HIDE DEF P
      <4> QED
        BY <3>1, <3>2, Induction
    <3>4. \A n \in 1..N : n \in P
      <4> HIDE DEF P
      <4> QED
        BY <1>1, <3>3
    <3> HIDE DEF N
    <3> QED
      BY <3>4
  <2>7. FlattenSeq(seqs) = f[N]
    BY <2>1, <2>5, <2>6
  <2> QED
    BY <1>4, <2>7 DEF FlattenedBy
<1> QED
  BY <1>5, <1>6

\* What the events say, for any queue and any mirror.
Event == [kind : {"added", "removed"}, entity : Entity, component : Component]

About(q, i, e, c) == q[i].entity = e /\ q[i].component = c

KnowsIn(q, m, e, c, n) ==
    \/ c \in m[e] /\ \A i \in 1..n : ~About(q, i, e, c)
    \/ \E i \in 1..n : About(q, i, e, c) /\ q[i].kind = "added"
                         /\ \A j \in (i + 1)..n : ~About(q, j, e, c)

\* The queue q and the mirror m together tell that the pairs H hold.
Tells(q, m, H) ==
    /\ q \in Seq(Event)
    /\ m \in [Entity -> SUBSET Component]
    /\ \A e \in Entity, c \in Component : KnowsIn(q, m, e, c, Len(q)) <=> <<e, c>> \in H
    /\ \A n \in 1..Len(q) :
          KnowsIn(q, m, q[n].entity, q[n].component, n - 1) <=> q[n].kind = "removed"

\* The events s are news where H holds, and turn H into K.
Turns(s, H, K) ==
    /\ s \in Seq(Event)
    /\ \A j \in 1..Len(s) : <<s[j].entity, s[j].component>> \in H <=> s[j].kind = "removed"
    /\ \A i, j \in 1..Len(s) : About(s, i, s[j].entity, s[j].component) => i = j
    /\ \A e \in Entity, c \in Component :
          <<e, c>> \in K
            <=> \/ <<e, c>> \in H /\ \A j \in 1..Len(s) : ~About(s, j, e, c)
                \/ \E j \in 1..Len(s) : About(s, j, e, c) /\ s[j].kind = "added"

LEMMA EventTypes ==
    ASSUME NEW q \in Seq(Event), NEW i \in 1..Len(q)
    PROVE  q[i].entity \in Entity /\ q[i].component \in Component
           /\ q[i].kind \in {"added", "removed"}
<1>1. q[i] \in Event
  BY ElementOfSeq
<1> QED
  BY <1>1 DEF Event

LEMMA LongerTells ==
    ASSUME NEW q, NEW m, NEW H, NEW s, NEW K, Tells(q, m, H), Turns(s, H, K)
    PROVE  Tells(q \o s, m, K)
<1> DEFINE r == q \o s
           n == Len(q)
           k == Len(s)
<1>1. /\ q \in Seq(Event) /\ s \in Seq(Event) /\ r \in Seq(Event)
      /\ n \in Nat /\ k \in Nat /\ Len(r) = n + k
  BY ConcatProperties, LenProperties DEF Tells, Turns
<1>2. /\ \A i \in 1..n : r[i] = q[i]
      /\ \A j \in 1..k : r[n + j] = s[j]
  <2>1. \A i \in 1..(n + k) : r[i] = IF i <= n THEN q[i] ELSE s[i - n]
    BY <1>1, ConcatProperties
  <2> HIDE DEF r
  <2>2. ASSUME NEW i \in 1..n PROVE r[i] = q[i]
    <3>1. i \in 1..(n + k) /\ i <= n
      BY <1>1
    <3> QED
      BY <2>1, <3>1
  <2>3. ASSUME NEW j \in 1..k PROVE r[n + j] = s[j]
    <3>1. n + j \in 1..(n + k) /\ ~(n + j <= n) /\ (n + j) - n = j
      BY <1>1
    <3> QED
      BY <2>1, <3>1
  <2> QED
    BY <2>2, <2>3
<1> HIDE DEF r, n, k
<1>3. ASSUME NEW e, NEW c, NEW l \in 0..n
      PROVE  KnowsIn(r, m, e, c, l) <=> KnowsIn(q, m, e, c, l)
  <2>1. \A i \in 1..l : r[i] = q[i]
    BY <1>1, <1>2
  <2>2. \A i \in 1..l : About(r, i, e, c) <=> About(q, i, e, c)
    BY <2>1 DEF About
  <2>3. \A i \in 1..l : \A j \in (i + 1)..l : j \in 1..l
    BY <1>1
  <2> QED
    BY <2>1, <2>2, <2>3 DEF KnowsIn
<1>4. ASSUME NEW j \in 1..k, NEW e, NEW c
      PROVE  About(r, n + j, e, c) <=> About(s, j, e, c)
  BY <1>2 DEF About
<1>5. ASSUME NEW j \in 0..k, NEW e, NEW c, \A i \in 1..j : ~About(s, i, e, c)
      PROVE  KnowsIn(r, m, e, c, n + j) <=> KnowsIn(q, m, e, c, n)
  <2>1. ASSUME NEW i \in 1..(n + j), ~(i \in 1..n) PROVE ~About(r, i, e, c)
    <3>1. i - n \in 1..j /\ i - n \in 1..k /\ n + (i - n) = i
      BY <1>1, <2>1
    <3>2. About(r, n + (i - n), e, c) <=> About(s, i - n, e, c)
      BY <1>4, <3>1
    <3> QED
      BY <1>5, <3>1, <3>2
  <2>2. /\ \A i \in 1..n : i \in 1..(n + j)
        /\ \A i \in 1..n : \A x \in (i + 1)..n : x \in (i + 1)..(n + j)
        /\ \A i \in 1..n : \A x \in (i + 1)..(n + j) : x \in 1..(n + j) /\ (x \in 1..n => x \in (i + 1)..n)
    BY <1>1
  <2>3. KnowsIn(r, m, e, c, n + j) <=> KnowsIn(r, m, e, c, n)
    <3>1. (\A i \in 1..(n + j) : ~About(r, i, e, c)) <=> (\A i \in 1..n : ~About(r, i, e, c))
      BY <2>1, <2>2
    <3>2. \A i \in 1..n : (\A x \in (i + 1)..(n + j) : ~About(r, x, e, c))
                            <=> (\A x \in (i + 1)..n : ~About(r, x, e, c))
      BY <2>1, <2>2
    <3>3. \A i \in 1..(n + j) : About(r, i, e, c) => i \in 1..n
      BY <2>1
    <3> QED
      BY <2>2, <3>1, <3>2, <3>3 DEF KnowsIn
  <2>4. n \in 0..n
    BY <1>1
  <2> QED
    BY <1>3, <2>3, <2>4
<1>6. ASSUME NEW j \in 1..k, NEW e, NEW c, About(s, j, e, c)
      PROVE  KnowsIn(r, m, e, c, n + k) <=> s[j].kind = "added"
  <2>1. ASSUME NEW i \in 1..k, About(s, i, e, c) PROVE i = j
    BY <1>6, <2>1 DEF About, Turns, k
  <2>2. n + j \in 1..(n + k) /\ About(r, n + j, e, c) /\ r[n + j] = s[j]
    BY <1>1, <1>2, <1>4, <1>6
  <2>3. ASSUME NEW i \in (n + 1)..(n + k), About(r, i, e, c) PROVE i = n + j
    <3>1. i - n \in 1..k /\ n + (i - n) = i
      BY <1>1
    <3>2. About(s, i - n, e, c)
      BY <1>4, <2>3, <3>1
    <3>3. i - n = j
      BY <2>1, <3>1, <3>2
    <3> QED
      BY <1>1, <3>3
  <2>4. \A x \in (n + j + 1)..(n + k) : ~About(r, x, e, c)
    <3> SUFFICES ASSUME NEW x \in (n + j + 1)..(n + k), About(r, x, e, c) PROVE FALSE
      OBVIOUS
    <3>1. x \in (n + 1)..(n + k) /\ x # n + j
      BY <1>1
    <3> QED
      BY <2>3, <3>1
  <2>5. ASSUME NEW i \in 1..(n + k), About(r, i, e, c), i # n + j
        PROVE  n + j \in (i + 1)..(n + k)
    <3>1. ~(i \in (n + 1)..(n + k))
      BY <2>3, <2>5
    <3> QED
      BY <1>1, <2>5, <3>1
  <2> QED
    BY <2>2, <2>4, <2>5 DEF KnowsIn
<1>7. ASSUME NEW e \in Entity, NEW c \in Component
      PROVE  KnowsIn(r, m, e, c, n + k) <=> <<e, c>> \in K
  <2>1. KnowsIn(q, m, e, c, n) <=> <<e, c>> \in H
    BY DEF Tells, n
  <2>2. <<e, c>> \in K
            <=> \/ <<e, c>> \in H /\ \A j \in 1..k : ~About(s, j, e, c)
                \/ \E j \in 1..k : About(s, j, e, c) /\ s[j].kind = "added"
    BY DEF Turns, k
  <2>3. CASE \E j \in 1..k : About(s, j, e, c)
    <3>1. PICK j \in 1..k : About(s, j, e, c)
      BY <2>3
    <3>2. \A i \in 1..k : About(s, i, e, c) => i = j
      BY <3>1 DEF About, Turns, k
    <3>3. KnowsIn(r, m, e, c, n + k) <=> s[j].kind = "added"
      BY <1>6, <3>1
    <3> QED
      BY <2>2, <3>1, <3>2, <3>3
  <2>4. CASE \A j \in 1..k : ~About(s, j, e, c)
    <3>1. k \in 0..k
      BY <1>1
    <3>2. KnowsIn(r, m, e, c, n + k) <=> KnowsIn(q, m, e, c, n)
      BY <1>5, <2>4, <3>1
    <3> QED
      BY <2>1, <2>2, <2>4, <3>2
  <2> QED
    BY <2>3, <2>4
<1>8. ASSUME NEW i \in 1..(n + k)
      PROVE  KnowsIn(r, m, r[i].entity, r[i].component, i - 1) <=> r[i].kind = "removed"
  <2>1. CASE i \in 1..n
    <3>1. i - 1 \in 0..n /\ r[i] = q[i]
      BY <1>1, <1>2, <2>1
    <3>2. KnowsIn(q, m, q[i].entity, q[i].component, i - 1) <=> q[i].kind = "removed"
      BY <2>1 DEF Tells, n
    <3> QED
      BY <1>3, <3>1, <3>2
  <2>2. CASE ~(i \in 1..n)
    <3> DEFINE j == i - n
    <3>1. j \in 1..k /\ n + j = i /\ j - 1 \in 0..k /\ n + (j - 1) = i - 1
      BY <1>1, <2>2
    <3> HIDE DEF j
    <3>2. r[i] = s[j]
      BY <1>2, <3>1
    <3> DEFINE e == s[j].entity
               c == s[j].component
    <3>3. e \in Entity /\ c \in Component
      BY <1>1, <3>1, EventTypes DEF k
    <3>4. \A x \in 1..(j - 1) : ~About(s, x, e, c)
      <4>1. \A x \in 1..k : About(s, x, e, c) => x = j
        BY <3>1 DEF Turns, k
      <4>2. \A x \in 1..(j - 1) : x \in 1..k /\ x # j
        BY <1>1, <3>1
      <4> QED
        BY <4>1, <4>2
    <3>5. <<e, c>> \in H <=> s[j].kind = "removed"
      BY <3>1 DEF Turns, k
    <3> HIDE DEF e, c
    <3>6. KnowsIn(r, m, e, c, i - 1) <=> KnowsIn(q, m, e, c, n)
      BY <1>5, <3>1, <3>4
    <3>7. KnowsIn(q, m, e, c, n) <=> <<e, c>> \in H
      BY <3>3 DEF Tells, n
    <3> QED
      BY <3>2, <3>5, <3>6, <3>7 DEF e, c
  <2> QED
    BY <2>1, <2>2
<1>9. m \in [Entity -> SUBSET Component]
  BY DEF Tells
<1> QED
  BY <1>1, <1>7, <1>8, <1>9 DEF Tells, r

\* One event heard: it goes from the queue into the mirror.
LEMMA HeardTells ==
    ASSUME NEW q, NEW m, NEW H, Tells(q, m, H), q # <<>>
    PROVE  Tells(Tail(q), Seen(m, Head(q)), H)
<1> DEFINE r == Tail(q)
           n == Len(q)
           h == Head(q)
           p == Seen(m, h)
<1>1. /\ q \in Seq(Event) /\ r \in Seq(Event) /\ n \in Nat /\ n > 0
      /\ Len(r) = n - 1 /\ h = q[1] /\ \A i \in 1..(n - 1) : r[i] = q[i + 1]
  BY HeadTailProperties, EmptySeq, LenProperties DEF Tells
<1>2. 1 \in 1..n
  BY <1>1
<1>3. h.entity \in Entity /\ h.component \in Component /\ h.kind \in {"added", "removed"}
  BY <1>1, <1>2, EventTypes
<1>4. m \in [Entity -> SUBSET Component]
  BY DEF Tells
<1>5. /\ p \in [Entity -> SUBSET Component]
      /\ \A e \in Entity, c \in Component :
            c \in p[e] <=> IF About(q, 1, e, c) THEN h.kind = "added" ELSE c \in m[e]
  BY <1>1, <1>3, <1>4 DEF Seen, About
<1> HIDE DEF r, n, h, p
<1>6. ASSUME NEW e \in Entity, NEW c \in Component, NEW l \in 1..n
      PROVE  KnowsIn(r, p, e, c, l - 1) <=> KnowsIn(q, m, e, c, l)
  <2>1. \A i \in 1..(l - 1) : r[i] = q[i + 1] /\ (About(r, i, e, c) <=> About(q, i + 1, e, c))
    BY <1>1 DEF About
  <2>2. \A i \in 2..l : i - 1 \in 1..(l - 1) /\ (i - 1) + 1 = i
    BY <1>1
  <2>3. \A i \in 2..l : r[i - 1] = q[i] /\ (About(r, i - 1, e, c) <=> About(q, i, e, c))
    BY <2>1, <2>2
  <2>4. (\A i \in 1..(l - 1) : ~About(r, i, e, c)) <=> (\A i \in 2..l : ~About(q, i, e, c))
    <3>1. \A i \in 1..(l - 1) : i + 1 \in 2..l
      BY <1>1
    <3> QED
      BY <2>1, <2>2, <2>3, <3>1
  <2>5. ASSUME NEW i \in 1..(l - 1)
        PROVE  (\A j \in (i + 1)..(l - 1) : ~About(r, j, e, c))
                 <=> (\A j \in (i + 2)..l : ~About(q, j, e, c))
    <3>1. \A j \in (i + 1)..(l - 1) : j + 1 \in (i + 2)..l /\ j \in 1..(l - 1)
      BY <1>1
    <3>2. \A j \in (i + 2)..l : j - 1 \in (i + 1)..(l - 1) /\ j \in 2..l
      BY <1>1
    <3> QED
      BY <2>1, <2>3, <3>1, <3>2
  <2>6. KnowsIn(r, p, e, c, l - 1)
          <=> \/ c \in p[e] /\ \A i \in 2..l : ~About(q, i, e, c)
              \/ \E i \in 1..(l - 1) : About(q, i + 1, e, c) /\ q[i + 1].kind = "added"
                                        /\ \A j \in (i + 2)..l : ~About(q, j, e, c)
    BY <2>1, <2>4, <2>5 DEF KnowsIn
  <2>7. (\E i \in 1..(l - 1) : About(q, i + 1, e, c) /\ q[i + 1].kind = "added"
                                        /\ \A j \in (i + 2)..l : ~About(q, j, e, c))
          <=> (\E i \in 2..l : About(q, i, e, c) /\ q[i].kind = "added"
                                        /\ \A j \in (i + 1)..l : ~About(q, j, e, c))
    <3>1. \A i \in 1..(l - 1) : i + 1 \in 2..l /\ (i + 1) + 1 = i + 2
      BY <1>1
    <3>2. \A i \in 2..l : i - 1 \in 1..(l - 1) /\ (i - 1) + 1 = i /\ (i - 1) + 2 = i + 1
      BY <1>1
    <3> QED
      BY <3>1, <3>2
  <2>8. \A i \in 1..l : i = 1 \/ i \in 2..l
    BY <1>1
  <2>9. 1 \in 1..l /\ \A i \in 2..l : i \in 1..l
    BY <1>1
  <2>10. c \in p[e] <=> IF About(q, 1, e, c) THEN q[1].kind = "added" ELSE c \in m[e]
    BY <1>1, <1>5
  <2>11. KnowsIn(q, m, e, c, l)
           <=> \/ c \in m[e] /\ ~About(q, 1, e, c) /\ \A i \in 2..l : ~About(q, i, e, c)
               \/ About(q, 1, e, c) /\ q[1].kind = "added" /\ \A i \in 2..l : ~About(q, i, e, c)
               \/ \E i \in 2..l : About(q, i, e, c) /\ q[i].kind = "added"
                                        /\ \A j \in (i + 1)..l : ~About(q, j, e, c)
    <3>1. 1 + 1 = 2
      OBVIOUS
    <3> QED
      BY <2>8, <2>9, <3>1 DEF KnowsIn
  <2> QED
    BY <2>6, <2>7, <2>10, <2>11
<1>7. ASSUME NEW e \in Entity, NEW c \in Component
      PROVE  KnowsIn(r, p, e, c, Len(r)) <=> <<e, c>> \in H
  <2>1. n \in 1..n
    BY <1>1
  <2>2. KnowsIn(r, p, e, c, n - 1) <=> KnowsIn(q, m, e, c, n)
    BY <1>6, <2>1
  <2> QED
    BY <1>1, <2>2 DEF Tells, n
<1>8. ASSUME NEW i \in 1..Len(r)
      PROVE  KnowsIn(r, p, r[i].entity, r[i].component, i - 1) <=> r[i].kind = "removed"
  <2>1. i \in 1..n /\ i + 1 \in 1..n /\ (i + 1) - 1 = i /\ r[i] = q[i + 1] /\ i \in 1..(n - 1)
    BY <1>1
  <2>2. r[i].entity \in Entity /\ r[i].component \in Component
    BY <1>1, <1>8, EventTypes
  <2>3. KnowsIn(q, m, r[i].entity, r[i].component, i) <=> r[i].kind = "removed"
    BY <2>1 DEF Tells, n
  <2> QED
    BY <1>6, <2>1, <2>2, <2>3
<1> QED
  BY <1>1, <1>5, <1>7, <1>8 DEF Tells, r, p, h

-----------------------------------------------------------------------------
(* The events of an operation.                                             *)

LEMMA SetToSeqFacts ==
    ASSUME NEW S, IsFiniteSet(S)
    PROVE  /\ SetToSeq(S) \in Seq(S)
           /\ \A i, j \in 1..Len(SetToSeq(S)) : SetToSeq(S)[i] = SetToSeq(S)[j] => i = j
           /\ \A x \in S : \E i \in 1..Len(SetToSeq(S)) : SetToSeq(S)[i] = x
<1> DEFINE N == Cardinality(S)
           s == SetToSeq(S)
<1>1. N \in Nat /\ ExistsBijection(1..N, S)
  BY FS_CardinalityType
<1>2. PICK b : b \in Bijection(1..N, S)
  BY <1>1 DEF ExistsBijection
<1>3. b \in [1..N -> S] /\ IsInjective(b)
  BY <1>2 DEF Bijection, Injection
<1>4. s \in [1..N -> S] /\ IsInjective(s)
  BY <1>3 DEF SetToSeq
<1> HIDE DEF s
<1>5. s \in Injection(1..N, S)
  BY <1>4 DEF Injection
<1>6. Cardinality(1..N) = N
  <2>1. 1 \in Int /\ N \in Int
    BY <1>1
  <2>2. Cardinality(1..N) = IF 1 > N THEN 0 ELSE N - 1 + 1
    BY <2>1, FS_Interval
  <2> QED
    BY <1>1, <2>2
<1>7. s \in Surjection(1..N, S)
  BY <1>5, <1>6, FS_Injection
<1>8. s \in Seq(S) /\ Len(s) = N
  BY <1>1, <1>4, SeqDef
<1>9. \A i, j \in 1..N : s[i] = s[j] => i = j
  BY <1>4 DEF IsInjective
<1>10. \A x \in S : \E i \in 1..N : s[i] = x
  BY <1>7 DEF Surjection
<1> QED
  BY <1>8, <1>9, <1>10 DEF s

LEMMA EventsFacts ==
    ASSUME NEW kind \in {"added", "removed"}, NEW e \in Entity, NEW comps \in SUBSET Component
    PROVE  LET s == Events(kind, e, comps)
           IN  /\ s \in Seq(Event)
               /\ \A j \in 1..Len(s) : /\ s[j].kind = kind /\ s[j].entity = e
                                       /\ s[j].component \in comps \cap Watched
               /\ \A i, j \in 1..Len(s) : s[i].component = s[j].component => i = j
               /\ \A c \in comps \cap Watched : \E j \in 1..Len(s) : s[j].component = c
<1> DEFINE C == comps \cap Watched
           event(c) == [kind |-> kind, entity |-> e, component |-> c]
           S == {event(c) : c \in C}
           s == Events(kind, e, comps)
           b == [c \in C |-> event(c)]
<1>1. IsFiniteSet(C)
  BY StorageAssumption, FS_Intersection
<1>2. \A c, d : event(c) = event(d) => c = d
  OBVIOUS
<1>3. b \in Bijection(C, S)
  <2>1. b \in [C -> S]
    OBVIOUS
  <2>2. IsInjective(b)
    <3>1. \A c \in C : b[c] = event(c)
      OBVIOUS
    <3>2. DOMAIN b = C
      OBVIOUS
    <3> HIDE DEF b, event, C
    <3> QED
      BY <1>2, <3>1, <3>2 DEF IsInjective
  <2>3. \A x \in S : \E c \in C : b[c] = x
    OBVIOUS
  <2> HIDE DEF b, S, C
  <2> QED
    BY <2>1, <2>2, <2>3 DEF Bijection, Injection, Surjection
<1>4. IsFiniteSet(S)
  <2> HIDE DEF b, S, C
  <2>1. ExistsBijection(C, S)
    BY <1>3 DEF ExistsBijection
  <2> QED
    BY <1>1, <2>1, FS_Bijection
<1>5. s = SetToSeq(S)
  BY DEF Events
<1>6. \A x \in S : x \in Event /\ x.kind = kind /\ x.entity = e /\ x.component \in C
                   /\ x = event(x.component)
  BY DEF Event
<1>7. \A c \in C : event(c) \in S /\ event(c).component = c
  OBVIOUS
<1> HIDE DEF s, S, C, event
<1>8. /\ s \in Seq(S)
      /\ \A i, j \in 1..Len(s) : s[i] = s[j] => i = j
      /\ \A x \in S : \E i \in 1..Len(s) : s[i] = x
  BY <1>4, <1>5, SetToSeqFacts
<1>9. \A j \in 1..Len(s) : s[j] \in S
  BY <1>8, ElementOfSeq
<1>10. s \in Seq(Event)
  <2>1. s \in [1..Len(s) -> Event] /\ Len(s) \in Nat
    BY <1>6, <1>8, <1>9, LenProperties
  <2> QED
    BY <2>1, SeqDef
<1>11. \A j \in 1..Len(s) : s[j].kind = kind /\ s[j].entity = e /\ s[j].component \in C
  BY <1>6, <1>9
<1>12. ASSUME NEW i \in 1..Len(s), NEW j \in 1..Len(s), s[i].component = s[j].component
       PROVE  i = j
  <2>1. s[i] = event(s[i].component) /\ s[j] = event(s[j].component)
    BY <1>6, <1>9
  <2>2. s[i] = s[j]
    BY <1>12, <2>1 DEF event
  <2> QED
    BY <1>8, <2>2
<1>13. \A c \in C : \E j \in 1..Len(s) : s[j].component = c
  BY <1>7, <1>8
<1> QED
  BY <1>10, <1>11, <1>12, <1>13 DEF s, C

\* comps arrive at e, or leave it; that turns what holds from H into K.
Becomes(kind, e, comps, H, K) ==
    /\ \A c \in comps \cap Watched : <<e, c>> \in H <=> kind = "removed"
    /\ \A d \in Entity, c \in Component :
          <<d, c>> \in K <=> IF d = e /\ c \in comps \cap Watched THEN kind = "added"
                             ELSE <<d, c>> \in H

LEMMA EventsTurn ==
    ASSUME NEW kind \in {"added", "removed"}, NEW e \in Entity, NEW comps \in SUBSET Component,
           NEW H, NEW K, Becomes(kind, e, comps, H, K)
    PROVE  Turns(Events(kind, e, comps), H, K)
<1> DEFINE s == Events(kind, e, comps)
<1>1. /\ s \in Seq(Event)
      /\ \A j \in 1..Len(s) : /\ s[j].kind = kind /\ s[j].entity = e
                              /\ s[j].component \in comps \cap Watched
      /\ \A i, j \in 1..Len(s) : s[i].component = s[j].component => i = j
      /\ \A c \in comps \cap Watched : \E j \in 1..Len(s) : s[j].component = c
  BY EventsFacts
<1> HIDE DEF s
<1>2. \A j \in 1..Len(s) : <<s[j].entity, s[j].component>> \in H <=> s[j].kind = "removed"
  BY <1>1 DEF Becomes
<1>3. \A i, j \in 1..Len(s) : About(s, i, s[j].entity, s[j].component) => i = j
  BY <1>1 DEF About
<1>4. ASSUME NEW d \in Entity, NEW c \in Component
      PROVE  <<d, c>> \in K
               <=> \/ <<d, c>> \in H /\ \A j \in 1..Len(s) : ~About(s, j, d, c)
                   \/ \E j \in 1..Len(s) : About(s, j, d, c) /\ s[j].kind = "added"
  <2>1. (\E j \in 1..Len(s) : About(s, j, d, c)) <=> d = e /\ c \in comps \cap Watched
    BY <1>1 DEF About
  <2>2. \A j \in 1..Len(s) : s[j].kind = kind
    BY <1>1
  <2>3. <<d, c>> \in K <=> IF d = e /\ c \in comps \cap Watched THEN kind = "added"
                             ELSE <<d, c>> \in H
    BY DEF Becomes
  <2> QED
    BY <2>1, <2>2, <2>3
<1> QED
  BY <1>1, <1>2, <1>3, <1>4 DEF Turns, s

\* What the listeners are to be told: who has which watched component.
Pairs(L) ==
    {p \in Entity \X Component :
        L[p[1]] # Nothing /\ p[2] \in Watched /\ p[2] \in L[p[1]].arch}

\* The inductive invariant: the queue and the mirror tell what holds.
HookInv == Tells(hookQueue, mirror, Pairs(location))

LEMMA PairFacts ==
    ASSUME NEW L, NEW e \in Entity, NEW c \in Component
    PROVE  <<e, c>> \in Pairs(L) <=> L[e] # Nothing /\ c \in Watched /\ c \in L[e].arch
BY DEF Pairs

LEMMA QueueTells ==
    ASSUME HookInv, NEW s, Queue(s), Turns(s, Pairs(location), Pairs(location'))
    PROVE  HookInv'
<1>1. hookQueue' = hookQueue \o s /\ mirror' = mirror
  BY DEF Queue
<1>2. Tells(hookQueue \o s, mirror, Pairs(location'))
  BY LongerTells DEF HookInv
<1> QED
  BY <1>1, <1>2 DEF HookInv

\* The others keep their components when a row goes away.
LEMMA OthersStay ==
    ASSUME Placed(rows, location), NEW e \in Entity, Located(e)
    PROVE  \A f \in Entity \ {e} :
              /\ LocationLess(e)[f] # Nothing <=> location[f] # Nothing
              /\ location[f] # Nothing => LocationLess(e)[f].arch = location[f].arch
<1> DEFINE A == ArchOf(e)
           n == Len(rows[A])
           last == rows[A][n]
<1>1. /\ A \in Archetype /\ n \in Nat /\ RowOf(e) \in 1..n
      /\ location[last] = [arch |-> A, row |-> n]
      /\ \A f \in Entity \ {e} :
            LocationLess(e)[f] = IF f = last THEN [arch |-> A, row |-> RowOf(e)]
                                 ELSE location[f]
  BY LocationsAfter
<1>2. RowOf(e) \in Nat
  BY <1>1
<1> HIDE DEF A, n, last
<1>3. [arch |-> A, row |-> n] \in Place /\ [arch |-> A, row |-> RowOf(e)] \in Place
  BY <1>1, <1>2 DEF Place
<1> QED
  BY <1>1, <1>3, NotAPlace

\* A move between archetypes tells what it gives or takes.
LEMMA MoveTells ==
    ASSUME Placed(rows, location), NEW e \in Entity, Located(e), NEW to \in Archetype,
           to # ArchOf(e), NEW put, Move(e, to, put), HookInv,
           NEW kind \in {"added", "removed"}, NEW comps \in SUBSET Component,
           kind = "added" => to = ArchOf(e) \cup comps /\ comps \cap ArchOf(e) = {},
           kind = "removed" => to = ArchOf(e) \ comps /\ comps \subseteq ArchOf(e),
           Queue(Events(kind, e, comps))
    PROVE  HookInv'
<1>1. /\ location'[e] = [arch |-> to, row |-> Len(rows[to]) + 1]
      /\ \A f \in Entity \ {e} : location'[f] = LocationLess(e)[f]
  BY MovePlaced
<1>2. location'[e] # Nothing /\ location'[e].arch = to
  <2>1. [arch |-> to, row |-> Len(rows[to]) + 1] \in Place
    BY PlacedFacts DEF Place
  <2> QED
    BY <1>1, <2>1, NotAPlace
<1>3. \A f \in Entity \ {e} : /\ location'[f] # Nothing <=> location[f] # Nothing
                              /\ location[f] # Nothing => location'[f].arch = location[f].arch
  BY <1>1, OthersStay
<1>4. location[e] # Nothing /\ ArchOf(e) = location[e].arch
  BY DEF Located, ArchOf
<1>5. \A c \in comps \cap Watched : <<e, c>> \in Pairs(location) <=> kind = "removed"
  BY <1>4, PairFacts
<1>6. ASSUME NEW d \in Entity, NEW c \in Component
      PROVE  <<d, c>> \in Pairs(location')
               <=> IF d = e /\ c \in comps \cap Watched THEN kind = "added"
                   ELSE <<d, c>> \in Pairs(location)
  <2>1. /\ <<d, c>> \in Pairs(location) <=> location[d] # Nothing /\ c \in Watched /\ c \in location[d].arch
        /\ <<d, c>> \in Pairs(location') <=> location'[d] # Nothing /\ c \in Watched /\ c \in location'[d].arch
    BY PairFacts
  <2>2. CASE d # e
    BY <1>3, <2>1, <2>2
  <2>3. CASE d = e
    BY <1>2, <1>4, <2>1, <2>3
  <2> QED
    BY <2>2, <2>3
<1>7. Becomes(kind, e, comps, Pairs(location), Pairs(location'))
  BY <1>5, <1>6 DEF Becomes
<1> QED
  BY <1>7, EventsTurn, QueueTells

-----------------------------------------------------------------------------
(* One step for each operation.                                            *)

LEMMA SpawnTells ==
    ASSUME RInv, HookInv, NEW new \in NewHandles, NEW bundle \in Bundles, Spawn(new, bundle)
    PROVE  HookInv'
<1> DEFINE arch == Needed({}, bundle)
           n == Len(new)
           seqs == [i \in DOMAIN new |-> Events("added", new[i], arch)]
           K(j) == {p \in Entity \X Component :
                       \/ p \in Pairs(location)
                       \/ p[2] \in arch \cap Watched /\ \E i \in 1..j : p[1] = new[i]}
<1>1. /\ arch \in SUBSET Component
      /\ Joined(rows, location, arch, new, location')
  BY SpawnAdds DEF Archetype
<1>2. /\ Homeless(location, new) /\ n \in Nat /\ DOMAIN new = 1..n
      /\ \A i \in 1..n : new[i] \in Entity /\ location[new[i]] = Nothing
      /\ \A i, j \in 1..n : new[i] = new[j] => i = j
  <2>1. Homeless(location, new) /\ n \in Nat /\ DOMAIN new = 1..n
    BY NewHandlesFacts
  <2> QED
    BY <2>1, ElementOfSeq DEF Homeless
<1>3. Queue(FlattenSeq(seqs))
  BY DEF Spawn
<1>4. \A i \in 1..n : seqs[i] = Events("added", new[i], arch) /\ seqs[i] \in Seq(Event)
  BY <1>1, <1>2, EventsFacts
<1>5. seqs \in Seq(Seq(Event)) /\ Len(seqs) = n
  <2>1. seqs \in [1..n -> Seq(Event)]
    BY <1>2, <1>4
  <2> HIDE DEF seqs
  <2> QED
    BY <1>2, <2>1, SeqDef
<1> HIDE DEF arch, n, seqs
<1>6. PICK f : FlattenedBy(f, Event, seqs)
  BY <1>5, FlattenSteps
<1>7. /\ f \in [0..n -> Seq(Event)] /\ f[0] = <<>> /\ FlattenSeq(seqs) = f[n]
      /\ \A j \in 1..n : f[j] = f[j - 1] \o seqs[j]
  BY <1>5, <1>6 DEF FlattenedBy
<1>8. hookQueue \in Seq(Event) /\ Tells(hookQueue, mirror, Pairs(location))
  BY DEF HookInv, Tells
<1> DEFINE Good(j) == Tells(hookQueue \o f[j], mirror, K(j))
<1>9. \A j \in 0..n : Good(j)
  <2> DEFINE P == {j \in Nat : j \in 0..n => Good(j)}
  <2>1. 0 \in P
    <3>1. K(0) = Pairs(location)
      BY DEF Pairs
    <3>2. hookQueue \o f[0] = hookQueue
      BY <1>7, <1>8, ConcatEmptySeq
    <3> HIDE DEF K
    <3> QED
      BY <1>8, <3>1, <3>2
  <2>2. ASSUME NEW k \in Nat, k \in P PROVE k + 1 \in P
    <3> SUFFICES ASSUME k + 1 \in 0..n PROVE Good(k + 1)
      OBVIOUS
    <3> DEFINE j == k + 1
               e == new[j]
    <3>1. k \in 0..n /\ j \in 1..n /\ j - 1 = k /\ \A i \in 1..k : i \in 1..n /\ i # j
      BY <1>2
    <3>2. j \in 1..j /\ \A i \in 1..j : i = j \/ i \in 1..k
      BY <3>1
    <3>3. e \in Entity /\ location[e] = Nothing /\ \A i \in 1..k : new[i] # e
      BY <1>2, <3>1
    <3>4. \A i \in 1..k : i \in 1..j
      OBVIOUS
    <3>5. seqs[j] = Events("added", e, arch) /\ seqs[j] \in Seq(Event) /\ f[k] \in Seq(Event)
          /\ f[j] = f[k] \o seqs[j]
      BY <1>4, <1>7, <3>1
    <3> HIDE DEF j
    <3>6. \A c \in arch \cap Watched : <<e, c>> \notin K(k)
      <4> SUFFICES ASSUME NEW c \in arch \cap Watched, <<e, c>> \in K(k) PROVE FALSE
        OBVIOUS
      <4>1. <<e, c>> \notin Pairs(location)
        BY <1>1, <3>3, PairFacts
      <4> QED
        BY <3>3, <4>1
    <3>7. ASSUME NEW d \in Entity, NEW c \in Component
          PROVE  <<d, c>> \in K(j) <=> IF d = e /\ c \in arch \cap Watched THEN TRUE
                                       ELSE <<d, c>> \in K(k)
      <4>1. (\E i \in 1..j : d = new[i]) <=> d = e \/ \E i \in 1..k : d = new[i]
        BY <3>2, <3>4
      <4> HIDE DEF e
      <4> QED
        BY <4>1
    <3> HIDE DEF K, e
    <3>8. Becomes("added", e, arch, K(k), K(j))
      BY <3>6, <3>7 DEF Becomes
    <3>9. Turns(seqs[j], K(k), K(j))
      BY <1>1, <3>3, <3>5, <3>8, EventsTurn
    <3>10. Tells(hookQueue \o f[k], mirror, K(k))
      BY <2>2, <3>1
    <3>11. Tells((hookQueue \o f[k]) \o seqs[j], mirror, K(j))
      BY <3>9, <3>10, LongerTells
    <3>12. (hookQueue \o f[k]) \o seqs[j] = hookQueue \o f[j]
      <4> DEFINE v == f[k]
                 w == seqs[j]
      <4>1. v \in Seq(Event) /\ w \in Seq(Event)
        BY <3>5
      <4> HIDE DEF v, w
      <4>2. (hookQueue \o v) \o w = hookQueue \o (v \o w)
        BY <1>8, <4>1, ConcatAssociative
      <4> QED
        BY <3>5, <4>2 DEF v, w
    <3> QED
      BY <3>11, <3>12 DEF j
  <2>3. Nat \subseteq P
    <3> HIDE DEF P
    <3> QED
      BY <2>1, <2>2, Induction
  <2>4. \A j \in 0..n : j \in P
    <3> HIDE DEF P
    <3> QED
      BY <1>2, <2>3
  <2> HIDE DEF Good
  <2> QED
    BY <2>4
<1>10. K(n) = Pairs(location')
  <2>1. ASSUME NEW d \in Entity, NEW c \in Component
        PROVE  <<d, c>> \in K(n) <=> <<d, c>> \in Pairs(location')
    <3>1. /\ <<d, c>> \in Pairs(location) <=> location[d] # Nothing /\ c \in Watched /\ c \in location[d].arch
          /\ <<d, c>> \in Pairs(location') <=> location'[d] # Nothing /\ c \in Watched /\ c \in location'[d].arch
      BY PairFacts
    <3>2. CASE \E i \in 1..n : d = new[i]
      <4>1. PICK i \in 1..n : d = new[i]
        BY <3>2
      <4>2. location'[d] = [arch |-> arch, row |-> Len(rows[arch]) + i] /\ location[d] = Nothing
        BY <1>1, <1>2, <4>1 DEF Joined, n
      <4>3. location'[d] # Nothing
        <5>1. Len(rows[arch]) \in Nat
          BY <1>1, PlacedFacts DEF RInv, Archetype
        <5>2. Len(rows[arch]) + i \in Nat
          BY <1>2, <5>1
        <5>3. [arch |-> arch, row |-> Len(rows[arch]) + i] \in Place
          BY <1>1, <5>2 DEF Place, Archetype
        <5> QED
          BY <4>2, <5>3, NotAPlace
      <4>4. location'[d].arch = arch
        BY <4>2
      <4> QED
        BY <3>1, <3>2, <4>2, <4>3, <4>4
    <3>3. CASE ~\E i \in 1..n : d = new[i]
      <4>1. location'[d] = location[d]
        BY <1>1, <3>3 DEF Joined, n
      <4> QED
        BY <3>1, <3>3, <4>1
    <3> QED
      BY <3>2, <3>3
  <2>2. K(n) \subseteq Entity \X Component /\ Pairs(location') \subseteq Entity \X Component
    BY DEF Pairs
  <2> HIDE DEF K
  <2> QED
    BY <2>1, <2>2
<1>11. hookQueue' = hookQueue \o f[n] /\ mirror' = mirror
  BY <1>3, <1>7 DEF Queue
<1>12. n \in 0..n
  BY <1>2
<1>13. Good(n)
  BY <1>9, <1>12
<1> HIDE DEF K
<1> QED
  BY <1>10, <1>11, <1>13 DEF HookInv

LEMMA InsertTells ==
    ASSUME RInv, HookInv, NEW e \in Entity, NEW parts \in Batches, Insert(e, parts)
    PROVE  HookInv'
<1> DEFINE from == ArchOf(e)
           given == ToSet(parts)
           gained == Needed(from, given \ from)
           changed(c) == [columns[from][c][RowOf(e)] EXCEPT !.changed = now]
           put == [c \in gained \cup given |-> IF c \in from THEN changed(c) ELSE Fresh(e)]
<1>1. /\ Located(e) /\ from \in Archetype /\ gained \in Archetype /\ gained \cap from = {}
      /\ from \cup gained \in Archetype /\ (gained # {} => from \cup gained # from)
  BY InsertMoves
<1>2. /\ Queue(Events("added", e, gained))
      /\ gained = {} => location' = location
      /\ gained # {} => Move(e, from \cup gained, put)
  BY DEF Insert
<1> HIDE DEF from, given, gained, put
<1>3. CASE gained = {}
  <2>1. Becomes("added", e, gained, Pairs(location), Pairs(location'))
    BY <1>2, <1>3 DEF Becomes
  <2>2. Turns(Events("added", e, gained), Pairs(location), Pairs(location'))
    BY <1>1, <2>1, EventsTurn DEF Archetype
  <2> QED
    BY <1>2, <2>2, QueueTells
<1>4. CASE gained # {}
  <2> DEFINE to == from \cup gained
             kind == "added"
  <2>1. /\ to \in Archetype /\ to # ArchOf(e) /\ Move(e, to, put) /\ gained \in SUBSET Component
        /\ kind \in {"added", "removed"} /\ Queue(Events(kind, e, gained))
        /\ kind = "added" => to = ArchOf(e) \cup gained /\ gained \cap ArchOf(e) = {}
        /\ kind = "removed" => to = ArchOf(e) \ gained /\ gained \subseteq ArchOf(e)
    BY <1>1, <1>2, <1>4 DEF Archetype, from
  <2>2. Placed(rows, location)
    BY DEF RInv
  <2> HIDE DEF to, kind
  <2> QED
    BY <1>1, <2>1, <2>2, MoveTells
<1> QED
  BY <1>3, <1>4

LEMMA RemoveTells ==
    ASSUME RInv, HookInv, NEW e \in Entity, NEW c \in Component, RemoveComponent(e, c)
    PROVE  HookInv'
<1> DEFINE to == ArchOf(e) \ {c}
           comps == {c}
           put == <<>>
           kind == "removed"
<1>1. Located(e) /\ c \in ArchOf(e) /\ Move(e, to, put) /\ Queue(Events(kind, e, comps))
  BY DEF RemoveComponent
<1>2. Placed(rows, location)
  BY DEF RInv
<1>3. ArchOf(e) \in Archetype
  BY <1>1, <1>2, PlacedFacts DEF Located, ArchOf
<1>4. /\ to \in Archetype /\ to # ArchOf(e) /\ comps \in SUBSET Component
      /\ kind \in {"added", "removed"}
      /\ kind = "added" => to = ArchOf(e) \cup comps /\ comps \cap ArchOf(e) = {}
      /\ kind = "removed" => to = ArchOf(e) \ comps /\ comps \subseteq ArchOf(e)
  BY <1>1, <1>3 DEF Archetype
<1> HIDE DEF to, comps, put, kind
<1> QED
  BY <1>1, <1>2, <1>4, MoveTells

LEMMA DespawnTells ==
    ASSUME RInv, HookInv, NEW e \in Entity, Despawn(e)
    PROVE  HookInv'
<1> DEFINE arch == ArchOf(e)
           kind == "removed"
<1>1. Located(e) /\ location' = LocationLess(e) /\ Queue(Events(kind, e, arch))
  BY DespawnKeepsRInv DEF Despawn
<1>2. Placed(rows, location) /\ location[e] # Nothing /\ arch = location[e].arch
  BY <1>1 DEF RInv, Located, ArchOf
<1>3. arch \in SUBSET Component
  BY <1>2, PlacedFacts DEF Archetype
<1>4. \A f \in Entity \ {e} : /\ location'[f] # Nothing <=> location[f] # Nothing
                              /\ location[f] # Nothing => location'[f].arch = location[f].arch
  BY <1>1, <1>2, OthersStay
<1>5. location'[e] = Nothing
  BY <1>1, <1>2, LocationsAfter
<1>6. \A c \in arch \cap Watched : <<e, c>> \in Pairs(location) <=> kind = "removed"
  BY <1>2, <1>3, PairFacts
<1> HIDE DEF arch
<1>7. ASSUME NEW d \in Entity, NEW c \in Component
      PROVE  <<d, c>> \in Pairs(location')
               <=> IF d = e /\ c \in arch \cap Watched THEN kind = "added"
                   ELSE <<d, c>> \in Pairs(location)
  <2>1. /\ <<d, c>> \in Pairs(location) <=> location[d] # Nothing /\ c \in Watched /\ c \in location[d].arch
        /\ <<d, c>> \in Pairs(location') <=> location'[d] # Nothing /\ c \in Watched /\ c \in location'[d].arch
    BY PairFacts
  <2>2. CASE d # e
    BY <1>4, <2>1, <2>2
  <2>3. CASE d = e
    BY <1>2, <1>5, <2>1, <2>3
  <2> QED
    BY <2>2, <2>3
<1>8. Becomes(kind, e, arch, Pairs(location), Pairs(location'))
  BY <1>6, <1>7 DEF Becomes
<1>9. kind \in {"added", "removed"}
  OBVIOUS
<1> HIDE DEF kind
<1> QED
  BY <1>1, <1>3, <1>8, <1>9, EventsTurn, QueueTells

LEMMA InitHookInv == Init => HookInv
<1> SUFFICES ASSUME Init PROVE HookInv
  OBVIOUS
<1>1. /\ hookQueue = <<>> /\ mirror = [e \in Entity |-> {}]
      /\ location = [e \in Entity |-> Nothing]
  BY DEF Init
<1>2. <<>> \in Seq(Event) /\ Len(<<>>) = 0 /\ 1..0 = {}
  BY EmptySeq
<1>3. mirror \in [Entity -> SUBSET Component]
  BY <1>1
<1>4. ASSUME NEW e \in Entity, NEW c \in Component
      PROVE  ~KnowsIn(<<>>, mirror, e, c, 0) /\ <<e, c>> \notin Pairs(location)
  BY <1>1, <1>2, PairFacts DEF KnowsIn
<1> QED
  BY <1>1, <1>2, <1>3, <1>4 DEF HookInv, Tells

LEMMA NextHookInv ==
    ASSUME RInv, HookInv, [Next]_vars
    PROVE  HookInv'
<1>1. ASSUME NEW new \in NewHandles, NEW bundle \in Bundles, Spawn(new, bundle)
      PROVE  HookInv'
  BY <1>1, SpawnTells
<1>2. ASSUME NEW e \in Entity, NEW parts \in Batches, Insert(e, parts)
      PROVE  HookInv'
  BY <1>2, InsertTells
<1>3. ASSUME NEW e \in Entity, NEW c \in Component, RemoveComponent(e, c)
      PROVE  HookInv'
  BY <1>3, RemoveTells
<1>4. ASSUME NEW e \in Entity, Despawn(e)
      PROVE  HookInv'
  BY <1>4, DespawnTells
<1>5. CASE CallHook
  <2>1. /\ hookQueue # <<>> /\ hookQueue' = Tail(hookQueue) /\ location' = location
        /\ mirror' = Seen(mirror, Head(hookQueue))
    BY <1>5 DEF CallHook, store
  <2>2. Tells(Tail(hookQueue), Seen(mirror, Head(hookQueue)), Pairs(location))
    BY <2>1, HeardTells DEF HookInv
  <2> QED
    BY <2>1, <2>2 DEF HookInv
<1>6. ASSUME hookQueue' = hookQueue, mirror' = mirror, location' = location
      PROVE  HookInv'
  BY <1>6 DEF HookInv
<1>7. ASSUME NEW new, NEW bundle, NEW written, SpawnPanics(new, bundle, written)
      PROVE  HookInv'
  BY <1>6, <1>7 DEF SpawnPanics, hooks
<1>8. CASE HookReturns \/ Advance \/ UNCHANGED vars
  BY <1>6, <1>8 DEF HookReturns, Advance, vars, store, hooks
<1> QED
  BY <1>1, <1>2, <1>3, <1>4, <1>5, <1>7, <1>8 DEF Next

LEMMA HookInvTells == HookInv => HooksTell
<1> SUFFICES ASSUME HookInv PROVE HooksTell
  OBVIOUS
<1>1. \A e, c, n : Knows(e, c, n) <=> KnowsIn(hookQueue, mirror, e, c, n)
  BY DEF Knows, KnowsIn, About
<1>2. ASSUME NEW e \in Entity, NEW c \in Component
      PROVE  Knows(e, c, Len(hookQueue)) <=> c \in Watched /\ Located(e) /\ c \in ArchOf(e)
  <2>1. KnowsIn(hookQueue, mirror, e, c, Len(hookQueue)) <=> <<e, c>> \in Pairs(location)
    BY DEF HookInv, Tells
  <2>2. <<e, c>> \in Pairs(location) <=> location[e] # Nothing /\ c \in Watched /\ c \in location[e].arch
    BY PairFacts
  <2> QED
    BY <1>1, <2>1, <2>2 DEF Located, ArchOf
<1>3. DOMAIN hookQueue = 1..Len(hookQueue)
  BY LenProperties DEF HookInv, Tells
<1>4. \A n \in 1..Len(hookQueue) :
         Knows(hookQueue[n].entity, hookQueue[n].component, n - 1) <=> hookQueue[n].kind = "removed"
  BY <1>1 DEF HookInv, Tells
<1> QED
  BY <1>2, <1>3, <1>4 DEF HooksTell

\* Whoever listens to the hooks is told of each arrival and each loss of a
\* watched component once and in order, for any entities, components and hooks.
THEOREM HooksTellWhatHappens == Spec => []HooksTell
<1>1. Init => RInv /\ HookInv
  BY InitRInv, InitHookInv
<1>2. RInv /\ HookInv /\ [Next]_vars => RInv' /\ HookInv'
  BY NextRInv, NextHookInv
<1>3. HookInv => HooksTell
  BY HookInvTells
<1> QED
  BY <1>1, <1>2, <1>3, PTL DEF Spec

=============================================================================
