---------------------------- MODULE TablesProofs ----------------------------
(***************************************************************************)
(* Facts about the renumbering of a table: on a finite set of positive     *)
(* ids, Rank is a strictly increasing bijection to 1..n and Nth is its     *)
(* inverse, so a table inserted again holds the same rows in the same      *)
(* order, once each.                                                       *)
(*                                                                         *)
(* Then induction over the natural numbers and over finite sets, as        *)
(* statements about sets: M contains 0 and the successor of every member,  *)
(* so it is Nat.  The library states both about an operator P(_), which    *)
(* the provers cannot instantiate.  On them rest what a recursive function *)
(* computes (StepsExist) and what MapThenSumSet does: its sum changes by   *)
(* the element that is added or taken, and not with the names of elements. *)
(***************************************************************************)
EXTENDS Tables, FiniteSetsExt, FiniteSetTheorems, TLAPS

\* A set of row ids: finite, of positive integers.
Ids(S) == S \subseteq Nat \ {0} /\ IsFiniteSet(S)

\* The ids up to i are a finite part of the ids, and the rank of a row is between 1 and n.
LEMMA RankType ==
    ASSUME NEW S, Ids(S), NEW i
    PROVE  /\ Rank(S, i) \in 0 .. Cardinality(S)
           /\ i \in S => Rank(S, i) \in 1 .. Cardinality(S)
<1> DEFINE Up == {j \in S : j <= i}
<1>1. /\ IsFiniteSet(Up) /\ Cardinality(Up) <= Cardinality(S)
      /\ Cardinality(Up) \in Nat /\ Cardinality(S) \in Nat
  BY FS_Subset, FS_CardinalityType DEF Ids
<1>2. i \in S => Cardinality(Up) # 0
  <2>1. i \in S => i \in Up
    BY DEF Ids
  <2> QED
    BY <1>1, <2>1, FS_EmptySet
<1> QED
  BY <1>1, <1>2 DEF Rank

\* No id is 0, so the missing reference keeps the rank 0: it is still missing after a renumbering.
LEMMA RankOfNone ==
    ASSUME NEW S, Ids(S)
    PROVE  Rank(S, 0) = 0
<1>1. \A j \in S : j \in Nat /\ j # 0
  BY DEF Ids
<1>2. \A j \in S : ~ (j <= 0)
  BY <1>1
<1>3. {j \in S : j <= 0} = {}
  BY <1>2
<1> QED
  BY <1>3, FS_EmptySet DEF Rank

\* The rank grows with the id: a renumbering keeps the order of the rows.
LEMMA RankIncreases ==
    ASSUME NEW S, Ids(S), NEW i \in S, NEW j \in S, i < j
    PROVE  Rank(S, i) < Rank(S, j)
<1> DEFINE Up(k) == {l \in S : l <= k}
<1>1. IsFiniteSet(Up(i)) /\ IsFiniteSet(Up(j))
  BY FS_Subset DEF Ids
<1>2. Up(i) \in SUBSET Up(j)
  <2>1. i \in Nat /\ j \in Nat /\ \A l \in S : l \in Nat
    BY DEF Ids
  <2>2. \A l \in S : l <= i => l <= j
    BY <2>1
  <2> QED
    BY <2>2
<1>3. j \in Up(j) /\ j \notin Up(i)
  BY DEF Ids
<1>4. /\ Cardinality(Up(i)) <= Cardinality(Up(j))
      /\ Cardinality(Up(j)) = Cardinality(Up(i)) => Up(j) = Up(i)
  BY <1>1, <1>2, FS_Subset
<1>5. Cardinality(Up(i)) \in Nat /\ Cardinality(Up(j)) \in Nat
  BY <1>1, FS_CardinalityType
<1>6. Cardinality(Up(i)) < Cardinality(Up(j))
  BY <1>3, <1>4, <1>5
<1> QED
  BY <1>6 DEF Rank

\* Two rows never get the same new id.
LEMMA RankInjective ==
    ASSUME NEW S, Ids(S), NEW i \in S, NEW j \in S, Rank(S, i) = Rank(S, j)
    PROVE  i = j
<1>1. i \in Nat /\ j \in Nat
  BY DEF Ids
<1>2. Rank(S, i) \in Nat /\ Rank(S, j) \in Nat
  BY RankType
<1>3. ~ (i < j) /\ ~ (j < i)
  BY <1>2, RankIncreases
<1> QED
  BY <1>1, <1>3

\* Every number from 1 to n is the rank of a row: no gap is left.
LEMMA RankOnto ==
    ASSUME NEW S, Ids(S), NEW k \in 1 .. Cardinality(S)
    PROVE  \E i \in S : Rank(S, i) = k
<1> DEFINE N == 1 .. Cardinality(S)
           f == [i \in S |-> Rank(S, i)]
<1>1. f \in Injection(S, N)
  <2>1. f \in [S -> N]
    BY RankType
  <2>2. \A i, j \in S : f[i] = f[j] => i = j
    BY RankInjective
  <2> QED
    BY <2>1, <2>2 DEF Injection, IsInjective
<1>2. Cardinality(S) \in Nat
  BY FS_CardinalityType DEF Ids
<1>3. IsFiniteSet(N) /\ Cardinality(N) = Cardinality(S)
  BY <1>2, FS_Interval
<1> HIDE DEF f, N
<1>4. f \in Surjection(S, N)
  BY <1>1, <1>3, FS_Injection
<1>5. \A m \in N : \E i \in S : f[i] = m
  BY <1>4 DEF Surjection
<1> QED
  BY <1>5 DEF f, N

\* Nth is the inverse of Rank.
LEMMA NthOfRank ==
    ASSUME NEW S, Ids(S)
    PROVE  /\ \A k \in 1 .. Cardinality(S) : Nth(S, k) \in S /\ Rank(S, Nth(S, k)) = k
           /\ \A i \in S : Nth(S, Rank(S, i)) = i
<1>1. ASSUME NEW k \in 1 .. Cardinality(S)
      PROVE  Nth(S, k) \in S /\ Rank(S, Nth(S, k)) = k
  BY RankOnto DEF Nth
<1>2. ASSUME NEW i \in S
      PROVE  Nth(S, Rank(S, i)) = i
  <2>1. Rank(S, i) \in 1 .. Cardinality(S)
    BY RankType
  <2>2. /\ Nth(S, Rank(S, i)) \in S
        /\ Rank(S, Nth(S, Rank(S, i))) = Rank(S, i)
    BY <1>1, <2>1
  <2> QED
    BY <2>2, RankInjective
<1> QED
  BY <1>1, <1>2

\* A table inserted again has the ids 1..n, and the row i of the old table at the rank of i.
LEMMA ReinsertedRows ==
    ASSUME NEW tbl, Ids(DOMAIN tbl)
    PROVE  LET S == DOMAIN tbl
           IN  /\ DOMAIN Reinserted(tbl) = 1 .. Cardinality(S)
               /\ Cardinality(S) \in Nat
               /\ Cardinality(DOMAIN Reinserted(tbl)) = Cardinality(S)
               /\ \A i \in S : /\ Rank(S, i) \in DOMAIN Reinserted(tbl)
                               /\ Reinserted(tbl)[Rank(S, i)] = tbl[i]
               /\ \A k \in DOMAIN Reinserted(tbl) :
                     \E i \in S : Rank(S, i) = k /\ Reinserted(tbl)[k] = tbl[i]
<1> DEFINE S == DOMAIN tbl
<1>1. DOMAIN Reinserted(tbl) = 1 .. Cardinality(S)
  BY DEF Reinserted
<1>2. Cardinality(S) \in Nat
  BY FS_CardinalityType DEF Ids
<1>3. Cardinality(1 .. Cardinality(S)) = Cardinality(S)
  BY <1>2, FS_Interval
<1>4. ASSUME NEW k \in 1 .. Cardinality(S)
      PROVE  Reinserted(tbl)[k] = tbl[Nth(S, k)]
  BY DEF Reinserted
<1>5. \A i \in S : Rank(S, i) \in 1 .. Cardinality(S)
  BY RankType
<1>6. \A i \in S : Reinserted(tbl)[Rank(S, i)] = tbl[i]
  BY <1>4, <1>5, NthOfRank
<1>7. \A k \in 1 .. Cardinality(S) : \E i \in S : Rank(S, i) = k /\ Reinserted(tbl)[k] = tbl[i]
  BY <1>4, NthOfRank
<1> QED
  BY <1>1, <1>2, <1>3, <1>5, <1>6, <1>7

\* The ids of a prefix of the numbers, and of a part of it, are ids.
LEMMA IdsOfInterval ==
    ASSUME NEW n \in Nat, NEW S \in SUBSET (1 .. n)
    PROVE  Ids(S)
<1>1. IsFiniteSet(1 .. n)
  BY FS_Interval
<1>2. IsFiniteSet(S)
  BY <1>1, FS_Subset
<1> QED
  BY <1>2 DEF Ids

\* The id of the newest row: every id is at most MaxId, so the ids after it are free.
LEMMA MaxIdBounds ==
    ASSUME NEW S, Ids(S)
    PROVE  /\ MaxId(S) \in Nat /\ \A i \in S : i <= MaxId(S)
           /\ S # {} => MaxId(S) \in S
<1>1. CASE S = {}
  BY <1>1 DEF MaxId
<1>2. CASE S # {}
  <2> DEFINE n == Cardinality(S)
  <2>1. n \in Nat /\ n # 0
    BY <1>2, FS_CardinalityType, FS_EmptySet DEF Ids
  <2>2. n \in 1 .. n
    BY <2>1
  <2>3. PICK top \in S : Rank(S, top) = n
    BY <2>2, RankOnto
  <2>4. ASSUME NEW i \in S
        PROVE  i <= top
    <3>1. i \in Nat /\ top \in Nat
      BY DEF Ids
    <3>2. Rank(S, i) \in 0 .. n
      BY RankType
    <3>3. ~ (top < i)
      BY <2>1, <2>3, <3>2, RankIncreases
    <3> QED
      BY <3>1, <3>3
  <2>5. MaxId(S) \in S /\ \A i \in S : i <= MaxId(S)
    BY <1>2, <2>4 DEF MaxId
  <2> QED
    BY <2>5 DEF Ids
<1> QED
  BY <1>1, <1>2

\* A row added above all others has the largest id.
LEMMA MaxIdOfNew ==
    ASSUME NEW S, Ids(S), NEW n \in Nat \ {0}, \A i \in S : i < n
    PROVE  Ids(S \cup {n}) /\ MaxId(S \cup {n}) = n
<1>1. Ids(S \cup {n})
  BY FS_AddElement DEF Ids
<1>2. /\ MaxId(S \cup {n}) \in S \cup {n}
      /\ n <= MaxId(S \cup {n})
  BY <1>1, MaxIdBounds
<1>3. \A i \in S : i \in Nat
  BY DEF Ids
<1> QED
  BY <1>1, <1>2, <1>3

\* The smallest of some ids is one of them: it is the one of rank 1.
LEMMA MinIsMember ==
    ASSUME NEW S, Ids(S), S # {}
    PROVE  Min(S) \in S
<1>1. Cardinality(S) \in Nat /\ Cardinality(S) # 0
  BY FS_CardinalityType, FS_EmptySet DEF Ids
<1>2. 1 \in 1 .. Cardinality(S)
  BY <1>1
<1>3. PICK i \in S : Rank(S, i) = 1
  BY <1>2, RankOnto
<1>4. ASSUME NEW j \in S
      PROVE  i <= j
  <2>1. i \in Nat /\ j \in Nat
    BY DEF Ids
  <2>2. Rank(S, j) \in 1 .. Cardinality(S)
    BY RankType
  <2>3. ~ (j < i)
    BY <1>3, <2>2, RankIncreases
  <2> QED
    BY <2>1, <2>3
<1> QED
  BY <1>4 DEF Min

\* Dense ids are their own ranks, so a table without gaps comes back as it was.
LEMMA DenseRanks ==
    ASSUME NEW n \in Nat
    PROVE  /\ Ids(1 .. n) /\ Cardinality(1 .. n) = n
           /\ \A i \in 1 .. n : Rank(1 .. n, i) = i
<1>1. Ids(1 .. n) /\ Cardinality(1 .. n) = n
  BY FS_Interval DEF Ids
<1>2. ASSUME NEW i \in 1 .. n
      PROVE  Rank(1 .. n, i) = i
  <2>1. {j \in 1 .. n : j <= i} = 1 .. i
    OBVIOUS
  <2>2. Cardinality(1 .. i) = i
    BY FS_Interval
  <2> QED
    BY <2>1, <2>2 DEF Rank
<1> QED
  BY <1>1, <1>2

\* A table without gaps is inserted again as it is.
LEMMA DenseReinserted ==
    ASSUME NEW n \in Nat, NEW tbl, DOMAIN tbl = 1 .. n, tbl = [i \in 1 .. n |-> tbl[i]]
    PROVE  Reinserted(tbl) = tbl
<1>1. \A i \in 1 .. n : Nth(1 .. n, i) = i
  BY DenseRanks, NthOfRank
<1> QED
  BY <1>1, DenseRanks DEF Reinserted

\* Removing rows from a table keeps its ids finite and positive.
LEMMA IdsOfPart ==
    ASSUME NEW S, Ids(S), NEW T \in SUBSET S
    PROVE  Ids(T)
  BY FS_Subset DEF Ids

\* A table of rows of Row whose ids are up to the counter n, and what adding a row, removing
\* rows and inserting it again make of it.
TableOf(tbl, n, Row) ==
    n \in Nat /\ DOMAIN tbl \subseteq 1 .. n /\ tbl \in [DOMAIN tbl -> Row]

\* The ids of a table are positive, none is 0, and the next one is free and the largest.
LEMMA TableIds ==
    ASSUME NEW tbl, NEW n, NEW Row, TableOf(tbl, n, Row)
    PROVE  /\ Ids(DOMAIN tbl) /\ 0 \notin DOMAIN tbl /\ n + 1 \notin DOMAIN tbl
           /\ n + 1 \in Nat \ {0} /\ \A i \in DOMAIN tbl : i < n + 1
           /\ \A i \in DOMAIN tbl : i \in Nat \ {0} /\ tbl[i] \in Row
  BY IdsOfInterval DEF TableOf

\* new is tbl with the row of the next id.
Adds(new, tbl, n, Row, row) ==
    /\ TableOf(new, n + 1, Row)
    /\ DOMAIN new = DOMAIN tbl \cup {n + 1}
    /\ new[n + 1] = row
    /\ \A i \in DOMAIN tbl : new[i] = tbl[i]
    /\ MaxId(DOMAIN new) = n + 1

\* A row added under the next id.
LEMMA RowAdded ==
    ASSUME NEW tbl, NEW n, NEW Row, TableOf(tbl, n, Row), NEW row \in Row
    PROVE  Adds(With(tbl, n + 1, row), tbl, n, Row, row)
<1> DEFINE new == With(tbl, n + 1, row)
<1>1. DOMAIN new = DOMAIN tbl \cup {n + 1} /\ new[n + 1] = row
  BY DEF With
<1>2. \A i \in DOMAIN tbl : i # n + 1 /\ new[i] = tbl[i] /\ tbl[i] \in Row
  BY TableIds DEF With
<1>3. new \in [DOMAIN new -> Row]
  <2>1. new = [i \in DOMAIN new |-> new[i]]
    BY DEF With
  <2>2. \A i \in DOMAIN new : new[i] \in Row
    BY <1>1, <1>2
  <2> QED
    BY <2>1, <2>2
<1>4. n + 1 \in Nat /\ DOMAIN new \subseteq 1 .. (n + 1)
  BY <1>1 DEF TableOf
<1>5. MaxId(DOMAIN new) = n + 1
  BY <1>1, TableIds, MaxIdOfNew
<1> HIDE DEF new
<1>6. TableOf(new, n + 1, Row)
  BY <1>3, <1>4 DEF TableOf
<1>7. Adds(new, tbl, n, Row, row)
  BY <1>1, <1>2, <1>5, <1>6 DEF Adds
<1> QED
  BY <1>7 DEF new

\* Rows removed: the others stay.
LEMMA RowsRemoved ==
    ASSUME NEW tbl, NEW n, NEW Row, TableOf(tbl, n, Row), NEW S
    PROVE  LET new == Without(tbl, S)
           IN  /\ TableOf(new, n, Row)
               /\ DOMAIN new = DOMAIN tbl \ S
               /\ \A i \in DOMAIN new : new[i] = tbl[i]
  BY DEF TableOf, Without

\* A table inserted again: every row once, under its rank, and no gap.
LEMMA TableReinserted ==
    ASSUME NEW tbl, NEW n, NEW Row, TableOf(tbl, n, Row)
    PROVE  LET S   == DOMAIN tbl
               new == Reinserted(tbl)
           IN  /\ TableOf(new, Cardinality(S), Row)
               /\ DOMAIN new = 1 .. Cardinality(S)
               /\ \A i \in S : Rank(S, i) \in DOMAIN new /\ new[Rank(S, i)] = tbl[i]
               /\ \A k \in DOMAIN new : \E i \in S : Rank(S, i) = k /\ new[k] = tbl[i]
<1> DEFINE S   == DOMAIN tbl
           new == Reinserted(tbl)
<1>1. /\ DOMAIN new = 1 .. Cardinality(S) /\ Cardinality(S) \in Nat
      /\ \A i \in S : Rank(S, i) \in DOMAIN new /\ new[Rank(S, i)] = tbl[i]
      /\ \A k \in DOMAIN new : \E i \in S : Rank(S, i) = k /\ new[k] = tbl[i]
  BY TableIds, ReinsertedRows
<1>2. \A k \in DOMAIN new : new[k] \in Row
  BY <1>1, TableIds
<1>3. new = [k \in DOMAIN new |-> new[k]]
  BY DEF Reinserted
<1>4. new \in [DOMAIN new -> Row]
  BY <1>2, <1>3
<1> QED
  BY <1>1, <1>4 DEF TableOf

-----------------------------------------------------------------------------
(* Induction, over the natural numbers and over the subsets of a finite set. *)

\* Induction over the naturals, for a set of them: if 0 is in it and the successor of each of its
\* members, no natural number can be missing, for up to a missing one the successor would map a
\* finite set to itself, injectively, without reaching 0.
LEMMA NatInductionSet ==
    ASSUME NEW S \in SUBSET Nat, 0 \in S, \A n \in S : n + 1 \in S
    PROVE  S = Nat
<1> SUFFICES ASSUME NEW n \in Nat, n \notin S
             PROVE  FALSE
  OBVIOUS
<1> DEFINE T == {i \in 0 .. n : i \in S}
           next == [i \in T |-> i + 1]
<1>1. IsFiniteSet(T)
  <2>1. IsFiniteSet(0 .. n)
    BY FS_Interval
  <2> QED
    BY <2>1, FS_Subset
<1>2. next \in Injection(T, T)
  <2>1. \A i \in T : i + 1 \in T
    <3> SUFFICES ASSUME NEW i \in T PROVE i + 1 \in T
      OBVIOUS
    <3>1. i + 1 \in S /\ i # n /\ i \in 0 .. n
      OBVIOUS
    <3> QED
      BY <3>1
  <2>2. next \in [T -> T]
    BY <2>1
  <2>3. \A i, j \in T : next[i] = next[j] => i = j
    OBVIOUS
  <2> QED
    BY <2>2, <2>3 DEF Injection, IsInjective
<1>3. 0 \in T
  OBVIOUS
<1>4. \A i \in T : next[i] # 0
  OBVIOUS
<1> HIDE DEF T, next
<1>5. next \in Surjection(T, T)
  BY <1>1, <1>2, FS_Injection
<1> QED
  BY <1>3, <1>4, <1>5 DEF Surjection

\* Induction over the subsets of a finite set.
LEMMA SubsetInduction ==
    ASSUME NEW S, IsFiniteSet(S), NEW P \in SUBSET (SUBSET S),
           {} \in P, \A T \in P : \A x \in S \ T : T \cup {x} \in P
    PROVE  P = SUBSET S
<1> DEFINE N == {n \in Nat : \A T \in SUBSET S : Cardinality(T) = n => T \in P}
<1>1. \A T \in SUBSET S : IsFiniteSet(T) /\ Cardinality(T) \in Nat
  BY FS_Subset, FS_CardinalityType
<1>2. 0 \in N
  BY <1>1, FS_EmptySet
<1>3. ASSUME NEW n \in N
      PROVE  n + 1 \in N
  <2> SUFFICES ASSUME NEW T \in SUBSET S, Cardinality(T) = n + 1
               PROVE  T \in P
    OBVIOUS
  <2>1. T # {}
    <3>1. n \in Nat /\ Cardinality({}) = 0
      BY FS_EmptySet
    <3>2. Cardinality(T) # 0
      BY <3>1
    <3> QED
      BY <3>1, <3>2
  <2>2. PICK x \in T : TRUE
    BY <2>1
  <2>3. Cardinality(T \ {x}) = n
    BY <1>1, FS_RemoveElement
  <2>4. T \ {x} \in P
    BY <2>3
  <2>5. T = (T \ {x}) \cup {x} /\ x \in S \ (T \ {x})
    OBVIOUS
  <2> QED
    BY <2>4, <2>5
<1>4. N = Nat
  <2> HIDE DEF N
  <2>1. N \in SUBSET Nat
    BY DEF N
  <2> QED
    BY <1>2, <1>3, <2>1, NatInductionSet
<1> QED
  BY <1>1, <1>4

\* f starts from x0 and goes on step by step.
Iterates(f, n, x0, step) == f = [k \in 0 .. n |-> IF k = 0 THEN x0 ELSE step[k][f[k - 1]]]

\* A definition by recursion over 0..n defines something: x0, and from there one step after the
\* other, each a function on X.
LEMMA StepsExist ==
    ASSUME NEW n \in Nat, NEW X, NEW x0 \in X, NEW step \in [1 .. n -> [X -> X]]
    PROVE  \E f \in [0 .. n -> X] : Iterates(f, n, x0, step)
<1> DEFINE Follows(f, k) == f[k] = IF k = 0 THEN x0 ELSE step[k][f[k - 1]]
           M == {m \in Nat : m <= n => \E f \in [0 .. n -> X] : \A k \in 0 .. m : Follows(f, k)}
<1>1. 0 \in M
  <2> DEFINE f == [k \in 0 .. n |-> x0]
  <2>1. f \in [0 .. n -> X] /\ \A k \in 0 .. 0 : Follows(f, k)
    OBVIOUS
  <2> HIDE DEF f, Follows
  <2> QED
    BY <2>1
<1>2. ASSUME NEW m \in M
      PROVE  m + 1 \in M
  <2> SUFFICES ASSUME m + 1 <= n
               PROVE  \E f \in [0 .. n -> X] : \A k \in 0 .. m + 1 : Follows(f, k)
    OBVIOUS
  <2>1. PICK f \in [0 .. n -> X] : \A k \in 0 .. m : Follows(f, k)
    OBVIOUS
  <2>2. m \in Nat /\ m \in 0 .. n /\ m + 1 \in 1 .. n /\ f[m] \in X
    OBVIOUS
  <2>3. step[m + 1][f[m]] \in X
    BY <2>2
  <2> DEFINE g == [f EXCEPT ![m + 1] = step[m + 1][f[m]]]
  <2>4. g \in [0 .. n -> X]
    BY <2>2, <2>3
  <2>5. ASSUME NEW k \in 0 .. m + 1
        PROVE  Follows(g, k)
    <3>1. CASE k = m + 1
      <4>1. g[k] = step[m + 1][f[m]] /\ g[k - 1] = f[m]
        BY <2>2, <3>1
      <4> QED
        BY <2>2, <3>1, <4>1
    <3>2. CASE k # m + 1
      <4>1. k \in 0 .. m /\ g[k] = f[k] /\ (k # 0 => g[k - 1] = f[k - 1])
        BY <2>2, <3>2
      <4> QED
        BY <2>1, <4>1
    <3> QED
      BY <3>1, <3>2
  <2> HIDE DEF g, Follows
  <2> QED
    BY <2>4, <2>5
<1>3. n \in M
  <2> HIDE DEF M
  <2>1. M \in SUBSET Nat
    BY DEF M
  <2> QED
    BY <1>1, <1>2, <2>1, NatInductionSet
<1>4. PICK f \in [0 .. n -> X] : \A k \in 0 .. n : Follows(f, k)
  BY <1>3
<1>5. f = [k \in 0 .. n |-> f[k]]
  OBVIOUS
<1>6. f = [k \in 0 .. n |-> IF k = 0 THEN x0 ELSE step[k][f[k - 1]]]
  BY <1>4, <1>5
<1> QED
  BY <1>6 DEF Iterates

-----------------------------------------------------------------------------
(* Sums (MapThenSumSet): what the balance of a wallet and the payments of a *)
(* debt are computed by.  Total is a sum over a column given as a function. *)

\* The sum of f over S.
Total(f, S) == LET Value(x) == f[x] IN MapThenSumSet(Value, S)

Pick(s) == CHOOSE x \in s : TRUE

\* h sums f up, over the subsets of S: the equation by which MapThenSumSet is defined.
SumsUp(h, f, S) ==
    h = [s \in SUBSET S |-> IF s = {} THEN 0 ELSE f[Pick(s)] + h[s \ {Pick(s)}]]

\* Total takes its value from a function that sums up.
LEMMA TotalDef ==
    ASSUME NEW f, NEW S, \E h : SumsUp(h, f, S)
    PROVE  \E h : SumsUp(h, f, S) /\ Total(f, S) = h[S]
<1> DEFINE iter == CHOOSE h : SumsUp(h, f, S)
<1>1. SumsUp(iter, f, S)
  OBVIOUS
<1>2. Total(f, S) = iter[S]
  BY Zenon DEF Total, MapThenSumSet, MapThenFoldSet, SumsUp, Pick
<1> QED
  BY <1>1, <1>2

\* What a step of the sum leaves is a smaller subset.
LEMMA PickLeaves ==
    ASSUME NEW S, IsFiniteSet(S), NEW s \in SUBSET S, s # {}
    PROVE  /\ Pick(s) \in s /\ s \ {Pick(s)} \in SUBSET S
           /\ Cardinality(s) \in Nat /\ Cardinality(s \ {Pick(s)}) = Cardinality(s) - 1
<1>1. Pick(s) \in s
  BY DEF Pick
<1> QED
  BY <1>1, FS_Subset, FS_CardinalityType, FS_RemoveElement

\* A finite set has a sum.
LEMMA SumExists ==
    ASSUME NEW f, NEW S, IsFiniteSet(S)
    PROVE  \E h : SumsUp(h, f, S)
<1> DEFINE Step(h, s) == IF s = {} THEN 0 ELSE f[Pick(s)] + h[s \ {Pick(s)}]
           N == {n \in Nat : \E h : \A s \in SUBSET S :
                                Cardinality(s) <= n => h[s] = Step(h, s)}
<1>1. \A s \in SUBSET S : Cardinality(s) \in Nat /\ (Cardinality(s) = 0 => s = {})
  BY FS_Subset, FS_CardinalityType, FS_EmptySet
<1>2. 0 \in N
  <2> DEFINE h == [s \in SUBSET S |-> 0]
  <2>1. \A s \in SUBSET S : Cardinality(s) <= 0 => h[s] = Step(h, s)
    BY <1>1
  <2> HIDE DEF h, Step
  <2> QED
    BY <2>1
<1>3. ASSUME NEW n \in N
      PROVE  n + 1 \in N
  <2>1. PICK h : \A s \in SUBSET S : Cardinality(s) <= n => h[s] = Step(h, s)
    OBVIOUS
  <2> DEFINE g == [s \in SUBSET S |-> Step(h, s)]
  <2>2. ASSUME NEW s \in SUBSET S, Cardinality(s) <= n + 1
        PROVE  g[s] = Step(g, s)
    <3>1. CASE s = {}
      BY <3>1
    <3>2. CASE s # {}
      <4> DEFINE r == s \ {Pick(s)}
      <4>1. r \in SUBSET S /\ Cardinality(r) <= n
        BY <2>2, <3>2, PickLeaves
      <4>2. h[r] = Step(h, r)
        BY <2>1, <4>1
      <4>3. g[r] = h[r]
        BY <4>1, <4>2
      <4> QED
        BY <3>2, <4>3
    <3> QED
      BY <3>1, <3>2
  <2>3. n + 1 \in Nat
    OBVIOUS
  <2> HIDE DEF g, Step
  <2> QED
    BY <2>2, <2>3
<1>4. Cardinality(S) \in N
  <2> HIDE DEF N
  <2>1. N \in SUBSET Nat
    BY DEF N
  <2>2. N = Nat
    BY <1>2, <1>3, <2>1, NatInductionSet
  <2> QED
    BY <2>2, FS_CardinalityType
<1>5. PICK h : \A s \in SUBSET S : Cardinality(s) <= Cardinality(S) => h[s] = Step(h, s)
  BY <1>4
<1>6. \A s \in SUBSET S : h[s] = Step(h, s)
  BY <1>5, FS_Subset
<1> DEFINE g == [s \in SUBSET S |-> h[s]]
<1>7. g = [s \in SUBSET S |-> Step(g, s)]
  <2>1. ASSUME NEW s \in SUBSET S
        PROVE  g[s] = Step(g, s)
    <3>1. CASE s = {}
      BY <1>6, <3>1
    <3>2. CASE s # {}
      BY <1>6, <3>2, PickLeaves
    <3> QED
      BY <3>1, <3>2
  <2> QED
    BY <2>1
<1>8. SumsUp(g, f, S)
  BY <1>7 DEF SumsUp
<1> QED
  BY <1>8

\* Two functions that sum up the same values agree where both are defined.
LEMMA SumUnique ==
    ASSUME NEW f, NEW e, NEW S, NEW T, IsFiniteSet(S), IsFiniteSet(T), S \subseteq T,
           \A x \in S : e[x] = f[x],
           NEW g, SumsUp(g, e, S), NEW h, SumsUp(h, f, T)
    PROVE  \A s \in SUBSET S : g[s] = h[s]
<1> DEFINE N == {n \in Nat : \A s \in SUBSET S : Cardinality(s) = n => g[s] = h[s]}
<1>1. \A s \in SUBSET S : Cardinality(s) \in Nat /\ (Cardinality(s) = 0 => s = {})
  BY FS_Subset, FS_CardinalityType, FS_EmptySet
<1>2. 0 \in N
  <2>1. {} \in SUBSET S /\ {} \in SUBSET T
    OBVIOUS
  <2>2. g[{}] = 0 /\ h[{}] = 0
    BY <2>1 DEF SumsUp
  <2> QED
    BY <1>1, <2>2
<1>3. ASSUME NEW n \in N
      PROVE  n + 1 \in N
  <2> SUFFICES ASSUME NEW s \in SUBSET S, Cardinality(s) = n + 1
               PROVE  g[s] = h[s]
    OBVIOUS
  <2>1. s # {}
    <3>1. n \in Nat
      OBVIOUS
    <3> QED
      BY <3>1, FS_EmptySet
  <2> DEFINE r == s \ {Pick(s)}
  <2>2. r \in SUBSET S /\ r \in SUBSET T /\ Cardinality(r) = n /\ Pick(s) \in S
    BY <2>1, PickLeaves
  <2>3. g[r] = h[r]
    BY <2>2
  <2>4. g[s] = e[Pick(s)] + g[r] /\ h[s] = f[Pick(s)] + h[r]
    BY <2>1, <2>2 DEF SumsUp
  <2> QED
    BY <2>2, <2>3, <2>4
<1>4. N = Nat
  <2> HIDE DEF N
  <2>1. N \in SUBSET Nat
    BY DEF N
  <2> QED
    BY <1>2, <1>3, <2>1, NatInductionSet
<1> QED
  BY <1>1, <1>4

\* One function sums f up over all the subsets of S.
LEMMA TotalOnSubsets ==
    ASSUME NEW f, NEW S, IsFiniteSet(S), NEW h, SumsUp(h, f, S)
    PROVE  \A s \in SUBSET S : Total(f, s) = h[s]
<1> SUFFICES ASSUME NEW s \in SUBSET S
             PROVE  Total(f, s) = h[s]
  OBVIOUS
<1>1. IsFiniteSet(s)
  BY FS_Subset
<1>2. PICK g : SumsUp(g, f, s) /\ Total(f, s) = g[s]
  BY <1>1, SumExists, TotalDef
<1>3. g[s] = h[s]
  BY <1>1, <1>2, SumUnique
<1> QED
  BY <1>2, <1>3

\* Nothing adds up to 0; what is summed up may be written in two ways.
LEMMA TotalEmpty ==
    ASSUME NEW f
    PROVE  Total(f, {}) = 0
<1>1. PICK h : SumsUp(h, f, {}) /\ Total(f, {}) = h[{}]
  BY SumExists, TotalDef, FS_EmptySet
<1>2. {} \in SUBSET {}
  OBVIOUS
<1> QED
  BY <1>1, <1>2 DEF SumsUp

\* Equal columns have equal sums.
LEMMA TotalSame ==
    ASSUME NEW e, NEW f, NEW S, IsFiniteSet(S), \A x \in S : e[x] = f[x]
    PROVE  Total(e, S) = Total(f, S)
<1>1. PICK g : SumsUp(g, e, S) /\ Total(e, S) = g[S]
  BY SumExists, TotalDef
<1>2. PICK h : SumsUp(h, f, S) /\ Total(f, S) = h[S]
  BY SumExists, TotalDef
<1>3. g[S] = h[S]
  BY <1>1, <1>2, SumUnique
<1> QED
  BY <1>1, <1>2, <1>3

\* The sum of integers is one, that of natural numbers is one.
LEMMA TotalType ==
    ASSUME NEW f, NEW S, IsFiniteSet(S)
    PROVE  /\ (\A x \in S : f[x] \in Int) => Total(f, S) \in Int
           /\ (\A x \in S : f[x] \in Nat) => Total(f, S) \in Nat
<1>1. PICK h : SumsUp(h, f, S) /\ Total(f, S) = h[S]
  BY SumExists, TotalDef
<1>2. ASSUME NEW M, 0 \in M, \A a, b \in M : a + b \in M, \A x \in S : f[x] \in M
      PROVE  h[S] \in M
  <2> DEFINE N == {n \in Nat : \A s \in SUBSET S : Cardinality(s) = n => h[s] \in M}
  <2>1. 0 \in N
    <3>1. \A s \in SUBSET S : Cardinality(s) = 0 => s = {}
      BY FS_Subset, FS_EmptySet
    <3>2. {} \in SUBSET S
      OBVIOUS
    <3>3. h[{}] = 0
      BY <1>1, <3>2 DEF SumsUp
    <3> QED
      BY <1>2, <3>1, <3>3
  <2>2. ASSUME NEW n \in N
        PROVE  n + 1 \in N
    <3> SUFFICES ASSUME NEW s \in SUBSET S, Cardinality(s) = n + 1
                 PROVE  h[s] \in M
      OBVIOUS
    <3>1. s # {}
      <4>1. n \in Nat
        OBVIOUS
      <4> QED
        BY <4>1, FS_EmptySet
    <3>2. s \ {Pick(s)} \in SUBSET S /\ Cardinality(s \ {Pick(s)}) = n /\ Pick(s) \in S
      BY <3>1, PickLeaves
    <3>3. h[s] = f[Pick(s)] + h[s \ {Pick(s)}]
      BY <1>1, <3>1 DEF SumsUp
    <3>4. h[s \ {Pick(s)}] \in M
      BY <3>2
    <3> QED
      BY <1>2, <3>2, <3>3, <3>4
  <2>3. N = Nat
    <3> HIDE DEF N
    <3>1. N \in SUBSET Nat
      BY DEF N
    <3> QED
      BY <2>1, <2>2, <3>1, NatInductionSet
  <2>4. Cardinality(S) \in Nat
    BY FS_CardinalityType
  <2> QED
    BY <2>3, <2>4
<1>3. (\A x \in S : f[x] \in Int) => h[S] \in Int
  BY <1>2
<1>4. (\A x \in S : f[x] \in Nat) => h[S] \in Nat
  <2>1. 0 \in Nat /\ \A a, b \in Nat : a + b \in Nat
    OBVIOUS
  <2> QED
    BY <1>2, <2>1
<1> QED
  BY <1>1, <1>3, <1>4

\* Any element may be taken first.
LEMMA TotalTake ==
    ASSUME NEW f, NEW S, IsFiniteSet(S), \A x \in S : f[x] \in Int
    PROVE  \A x \in S : Total(f, S) = f[x] + Total(f, S \ {x})
<1>1. PICK h : SumsUp(h, f, S)
  BY SumExists
<1>2. \A s \in SUBSET S : Total(f, s) = h[s]
  BY <1>1, TotalOnSubsets
<1>3. \A s \in SUBSET S : h[s] \in Int
  <2> SUFFICES ASSUME NEW s \in SUBSET S
               PROVE  h[s] \in Int
    OBVIOUS
  <2>1. IsFiniteSet(s)
    BY FS_Subset
  <2> QED
    BY <1>2, <2>1, TotalType
<1> DEFINE N == {n \in Nat : \A s \in SUBSET S :
                    Cardinality(s) = n => \A x \in s : h[s] = f[x] + h[s \ {x}]}
<1>4. 0 \in N
  <2>1. \A s \in SUBSET S : Cardinality(s) = 0 => s = {}
    BY FS_Subset, FS_EmptySet
  <2> QED
    BY <2>1
<1>5. ASSUME NEW n \in N
      PROVE  n + 1 \in N
  <2> SUFFICES ASSUME NEW s \in SUBSET S, Cardinality(s) = n + 1, NEW x \in s
               PROVE  h[s] = f[x] + h[s \ {x}]
    OBVIOUS
  <2> DEFINE y == Pick(s)
  <2>1. y \in s /\ y \in S /\ s \ {y} \in SUBSET S /\ Cardinality(s \ {y}) = n
    BY PickLeaves
  <2>2. h[s] = f[y] + h[s \ {y}]
    BY <1>1 DEF SumsUp
  <2> HIDE DEF y
  <2>3. CASE x = y
    BY <2>2, <2>3
  <2>4. CASE x # y
    <3>1. Cardinality(s \ {x}) = n /\ s \ {x} \in SUBSET S
      BY FS_Subset, FS_CardinalityType, FS_RemoveElement
    <3>2. x \in s \ {y} /\ y \in s \ {x}
      BY <2>1, <2>4
    <3>3. h[s \ {y}] = f[x] + h[(s \ {y}) \ {x}]
      BY <2>1, <3>2
    <3>4. h[s \ {x}] = f[y] + h[(s \ {x}) \ {y}]
      BY <3>1, <3>2
    <3>5. (s \ {x}) \ {y} = (s \ {y}) \ {x} /\ (s \ {y}) \ {x} \in SUBSET S
      OBVIOUS
    <3>6. h[(s \ {y}) \ {x}] \in Int /\ f[x] \in Int /\ f[y] \in Int
      BY <1>3, <2>1, <3>5
    <3>7. h[s \ {x}] = f[y] + h[(s \ {y}) \ {x}]
      BY <3>4, <3>5
    <3> QED
      BY <2>2, <3>3, <3>6, <3>7
  <2> QED
    BY <2>3, <2>4
<1>6. N = Nat
  <2> HIDE DEF N
  <2>1. N \in SUBSET Nat
    BY DEF N
  <2> QED
    BY <1>4, <1>5, <2>1, NatInductionSet
<1>7. Cardinality(S) \in Nat /\ S \in SUBSET S
  BY FS_CardinalityType
<1>8. \A x \in S : h[S] = f[x] + h[S \ {x}]
  BY <1>6, <1>7
<1> QED
  BY <1>2, <1>8

\* One element more.
LEMMA TotalAdd ==
    ASSUME NEW f, NEW S, IsFiniteSet(S), NEW x, x \notin S,
           \A y \in S \cup {x} : f[y] \in Int
    PROVE  Total(f, S \cup {x}) = f[x] + Total(f, S)
<1>1. IsFiniteSet(S \cup {x}) /\ (S \cup {x}) \ {x} = S
  BY FS_AddElement
<1> QED
  BY <1>1, TotalTake

\* The sum stays when the elements are renamed, no two of them to one.
LEMMA TotalRenamed ==
    ASSUME NEW f, NEW g, NEW S, IsFiniteSet(S), NEW b,
           \A x \in S : f[x] \in Int /\ g[b[x]] = f[x],
           \A x, y \in S : b[x] = b[y] => x = y
    PROVE  Total(g, {b[x] : x \in S}) = Total(f, S)
<1> DEFINE Image(s) == {b[x] : x \in s}
           P == {s \in SUBSET S : Total(g, Image(s)) = Total(f, s)}
<1>1. {} \in P
  <2>1. Image({}) = {}
    OBVIOUS
  <2> QED
    BY <2>1, TotalEmpty
<1>2. ASSUME NEW s \in P, NEW x \in S \ s
      PROVE  s \cup {x} \in P
  <2>1. IsFiniteSet(s) /\ s \in SUBSET S
    BY FS_Subset
  <2>2. Total(f, s \cup {x}) = f[x] + Total(f, s)
    BY <2>1, TotalAdd
  <2>3. Image(s \cup {x}) = Image(s) \cup {b[x]}
    OBVIOUS
  <2>4. b[x] \notin Image(s)
    BY <2>1
  <2>5. IsFiniteSet(Image(s))
    <3>1. IsFiniteSet({b[y] : y \in s})
      <4> DEFINE c == [y \in s |-> b[y]]
      <4>1. c \in Surjection(s, {b[y] : y \in s})
        BY DEF Surjection
      <4> HIDE DEF c
      <4> QED
        BY <2>1, <4>1, FS_Surjection
    <3> QED
      BY <3>1
  <2>6. \A z \in Image(s) \cup {b[x]} : g[z] \in Int
    BY <2>1
  <2> HIDE DEF Image
  <2>7. Total(g, Image(s) \cup {b[x]}) = g[b[x]] + Total(g, Image(s))
    BY <2>4, <2>5, <2>6, TotalAdd
  <2>8. Total(g, Image(s)) = Total(f, s) /\ g[b[x]] = f[x]
    OBVIOUS
  <2> QED
    BY <2>1, <2>2, <2>3, <2>7, <2>8
<1>3. P = SUBSET S
  <2> HIDE DEF P
  <2>1. P \in SUBSET (SUBSET S)
    BY DEF P
  <2> QED
    BY <1>1, <1>2, <2>1, SubsetInduction
<1>4. S \in P
  BY <1>3
<1> QED
  BY <1>4

\* Values that are at least the negatives of g lower a sum by the total of g at most.
LEMMA TotalCovers ==
    ASSUME NEW f, NEW g, NEW S, NEW T, IsFiniteSet(S), IsFiniteSet(T), S \cap T = {},
           \A x \in S \cup T : f[x] \in Int,
           \A x \in T : g[x] \in Int /\ f[x] >= -g[x]
    PROVE  Total(f, S \cup T) >= Total(f, S) - Total(g, T)
<1> DEFINE P == {U \in SUBSET T : Total(f, S \cup U) >= Total(f, S) - Total(g, U)}
<1>1. {} \in P
  <2>1. S \cup {} = S /\ Total(f, S) \in Int
    BY TotalType
  <2>2. Total(g, {}) = 0
    BY TotalEmpty
  <2>3. Total(f, S) >= Total(f, S) - 0
    BY <2>1
  <2> QED
    BY <2>1, <2>2, <2>3
<1>2. ASSUME NEW U \in P, NEW x \in T \ U
      PROVE  U \cup {x} \in P
  <2>1. IsFiniteSet(U) /\ U \in SUBSET T /\ IsFiniteSet(S \cup U)
    BY FS_Subset, FS_Union
  <2>2. Total(g, U \cup {x}) = g[x] + Total(g, U)
    BY <2>1, TotalAdd
  <2>3. Total(f, (S \cup U) \cup {x}) = f[x] + Total(f, S \cup U)
    <3>1. x \notin S \cup U /\ \A y \in (S \cup U) \cup {x} : f[y] \in Int
      BY <2>1
    <3> QED
      BY <2>1, <3>1, TotalAdd
  <2>4. /\ Total(g, U) \in Int /\ Total(f, S \cup U) \in Int /\ Total(f, S) \in Int
        /\ f[x] \in Int /\ g[x] \in Int /\ f[x] >= -g[x]
    BY <2>1, TotalType
  <2>5. Total(f, S \cup U) >= Total(f, S) - Total(g, U)
    OBVIOUS
  <2>6. (S \cup U) \cup {x} = S \cup (U \cup {x})
    OBVIOUS
  <2>7. Total(f, S \cup (U \cup {x})) >= Total(f, S) - Total(g, U \cup {x})
    <3> DEFINE a == Total(f, S)
               b == Total(f, S \cup U)
               c == Total(g, U)
               d == f[x]
               k == g[x]
    <3>1. Total(f, S \cup (U \cup {x})) = d + b /\ Total(g, U \cup {x}) = k + c
      BY <2>2, <2>3, <2>6
    <3>2. a \in Int /\ b \in Int /\ c \in Int /\ d \in Int /\ k \in Int /\ d >= -k /\ b >= a - c
      BY <2>4, <2>5
    <3> HIDE DEF a, b, c, d, k
    <3>3. d + b >= a - (k + c)
      BY <3>2
    <3> QED
      BY <3>1, <3>3 DEF a
  <2> QED
    BY <2>1, <2>7
<1>3. P = SUBSET T
  <2> HIDE DEF P
  <2>1. P \in SUBSET (SUBSET T)
    BY DEF P
  <2> QED
    BY <1>1, <1>2, <2>1, SubsetInduction
<1>4. T \in P
  BY <1>3
<1> QED
  BY <1>4

\* The sum of the amounts of some rows, as the models write it, is the Total of a column.
AmountSum(tbl, S) == LET Amount(p) == tbl[p].amount IN MapThenSumSet(Amount, S)

AmountColumn(tbl) == [p \in DOMAIN tbl |-> tbl[p].amount]

\* The sum over the rows of a table is the total of its column.
LEMMA AmountSumIsTotal ==
    ASSUME NEW tbl, NEW S, IsFiniteSet(S), S \subseteq DOMAIN tbl
    PROVE  AmountSum(tbl, S) = Total(AmountColumn(tbl), S)
<1> DEFINE f == AmountColumn(tbl)
           Eq(h) == h = [s \in SUBSET S |-> IF s = {} THEN 0
                                            ELSE tbl[Pick(s)].amount + h[s \ {Pick(s)}]]
           iter == CHOOSE h : Eq(h)
<1>1. \A s \in SUBSET S : s # {} => f[Pick(s)] = tbl[Pick(s)].amount
  BY PickLeaves DEF AmountColumn
<1>2. ASSUME NEW h
      PROVE  SumsUp(h, f, S) <=> Eq(h)
  <2>1. [s \in SUBSET S |-> IF s = {} THEN 0 ELSE f[Pick(s)] + h[s \ {Pick(s)}]]
          = [s \in SUBSET S |-> IF s = {} THEN 0 ELSE tbl[Pick(s)].amount + h[s \ {Pick(s)}]]
    <3> HIDE DEF f
    <3> QED
      BY <1>1
  <2> QED
    BY <2>1 DEF SumsUp
<1>3. AmountSum(tbl, S) = iter[S]
  BY Zenon DEF AmountSum, MapThenSumSet, MapThenFoldSet, Pick
<1>4. \E h : Eq(h)
  <2> HIDE DEF Eq, f
  <2> QED
    BY <1>2, SumExists
<1>5. Eq(iter)
  BY <1>4
<1>6. Total(f, S) = iter[S]
  <2>1. S \in SUBSET S
    OBVIOUS
  <2> HIDE DEF Eq, f, iter
  <2> QED
    BY <1>2, <1>5, <2>1, TotalOnSubsets
<1> QED
  BY <1>3, <1>6
=============================================================================
