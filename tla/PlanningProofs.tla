--------------------------- MODULE PlanningProofs ---------------------------
(***************************************************************************)
(* Portfolio: the table of asset values implements the book of values      *)
(* (SnapshotBook), for any assets, values, days and backups.               *)
(*                                                                         *)
(* The service numbers the values of a form before it saves any; the table *)
(* numbers them as they come, and some take the place of a value of their  *)
(* day.  That no number of the service ever meets a row of the table needs *)
(* that values are never deleted one by one, so that the counter of the    *)
(* table is at the highest id (IInv): then the k-th number of the service  *)
(* is above every id the table has given to the k - 1 values before it     *)
(* (FormEntered).  The list of a form is folded up by SavedInTurn; the     *)
(* first part shows that the fold goes from the first value to the last.   *)
(*                                                                         *)
(* Distribution, in the second half: for any amounts, lines and            *)
(* percentages the parts add up to the whole within half a unit for each,  *)
(* since each is rounded for itself (RoundedNear) and the errors of a sum  *)
(* are added up part by part (ErrorsAdd); and fixed months stay.           *)
(*                                                                         *)
(* Budgets, at the end: two of a scope never share a day, and what a       *)
(* forecast says comes true although it is rounded: a quotient rounded to  *)
(* more than the limit is more than the limit (RoundedAbove), so the money *)
(* is gone before the end (GoneBeforeTheEnd); on the last day the pace is  *)
(* over all days, and rounding changes nothing (RoundedExactly).           *)
(***************************************************************************)
EXTENDS Portfolio, Distribution, Budgets, TablesProofs, SequenceTheorems

-----------------------------------------------------------------------------
(* Values saved one after the other (SavedInTurn).                         *)

\* h folds the values of a list up, over the sets of their places: the equation by which
\* SavedInTurn is defined.
SavesUp(h, tbl, counter, values) ==
    h = [s \in SUBSET (DOMAIN values) |->
           IF s = {} THEN [rows |-> tbl, counter |-> counter]
           ELSE SavedSnapshot(h[s \ {Max(s)}].rows, h[s \ {Max(s)}].counter, values[Max(s)])]

\* SavedInTurn takes its value from a function that folds the values up.
LEMMA InTurnDef ==
    ASSUME NEW tbl, NEW counter, NEW values, \E h : SavesUp(h, tbl, counter, values)
    PROVE  \E h : /\ SavesUp(h, tbl, counter, values)
                  /\ SavedInTurn(tbl, counter, values) = h[DOMAIN values]
<1> DEFINE iter == CHOOSE h : SavesUp(h, tbl, counter, values)
<1>1. SavesUp(iter, tbl, counter, values)
  OBVIOUS
<1>2. SavedInTurn(tbl, counter, values) = iter[DOMAIN values]
  BY Zenon DEF SavedInTurn, FoldLeft, MapThenFoldSet, SavesUp
<1> QED
  BY <1>1, <1>2

\* The last of some places is one of them, and the places before it are fewer.
LEMMA LastLeaves ==
    ASSUME NEW m \in Nat, NEW s \in SUBSET (1 .. m), s # {}
    PROVE  /\ Max(s) \in s /\ s \ {Max(s)} \in SUBSET (1 .. m)
           /\ Cardinality(s) \in Nat /\ Cardinality(s \ {Max(s)}) = Cardinality(s) - 1
<1>1. Ids(s) /\ IsFiniteSet(s)
  BY IdsOfInterval DEF Ids
<1>2. MaxId(s) \in s /\ \A i \in s : i <= MaxId(s)
  BY <1>1, MaxIdBounds
<1>3. \A i \in s : i \in Nat
  OBVIOUS
<1>4. \E i \in s : \A j \in s : i >= j
  BY <1>2, <1>3
<1>5. Max(s) \in s
  BY <1>4 DEF Max
<1> QED
  BY <1>1, <1>5, FS_CardinalityType, FS_RemoveElement

\* A list can be folded up.
LEMMA InTurnExists ==
    ASSUME NEW tbl, NEW counter, NEW values, NEW m \in Nat, DOMAIN values = 1 .. m
    PROVE  \E h : SavesUp(h, tbl, counter, values)
<1> DEFINE D == DOMAIN values
           Step(h, s) ==
               IF s = {} THEN [rows |-> tbl, counter |-> counter]
               ELSE SavedSnapshot(h[s \ {Max(s)}].rows, h[s \ {Max(s)}].counter, values[Max(s)])
           N == {n \in Nat : \E h : \A s \in SUBSET D : Cardinality(s) <= n => h[s] = Step(h, s)}
<1>1. \A s \in SUBSET D : Cardinality(s) \in Nat /\ (Cardinality(s) = 0 => s = {})
  <2> SUFFICES ASSUME NEW s \in SUBSET D
               PROVE  Cardinality(s) \in Nat /\ (Cardinality(s) = 0 => s = {})
    OBVIOUS
  <2>1. IsFiniteSet(s)
    BY IdsOfInterval DEF Ids
  <2> QED
    BY <2>1, FS_CardinalityType, FS_EmptySet
<1>2. 0 \in N
  <2> DEFINE h == [s \in SUBSET D |-> [rows |-> tbl, counter |-> counter]]
  <2>1. \A s \in SUBSET D : Cardinality(s) <= 0 => h[s] = Step(h, s)
    BY <1>1
  <2> HIDE DEF h, Step
  <2> QED
    BY <2>1
<1>3. ASSUME NEW n \in N
      PROVE  n + 1 \in N
  <2>1. PICK h : \A s \in SUBSET D : Cardinality(s) <= n => h[s] = Step(h, s)
    OBVIOUS
  <2> DEFINE g == [s \in SUBSET D |-> Step(h, s)]
  <2>2. ASSUME NEW s \in SUBSET D, Cardinality(s) <= n + 1
        PROVE  g[s] = Step(g, s)
    <3>1. CASE s = {}
      BY <3>1
    <3>2. CASE s # {}
      <4> DEFINE r == s \ {Max(s)}
      <4>1. r \in SUBSET D /\ Cardinality(r) <= n
        <5>1. /\ s \in SUBSET (1 .. m) /\ n \in Nat
              /\ Cardinality(s) \in Nat /\ Cardinality(r) = Cardinality(s) - 1
          BY <3>2, LastLeaves
        <5> QED
          BY <2>2, <5>1
      <4>2. h[r] = Step(h, r)
        BY <2>1, <4>1
      <4>3. g[r] = h[r]
        BY <4>1, <4>2
      <4> QED
        BY <3>2, <4>3
    <3> QED
      BY <3>1, <3>2
  <2>3. n + 1 \in Nat
    OBVIOUS
  <2> HIDE DEF g, Step
  <2> QED
    BY <2>2, <2>3
<1>4. m \in N
  <2> HIDE DEF N
  <2>1. N \in SUBSET Nat
    BY DEF N
  <2> QED
    BY <1>2, <1>3, <2>1, NatInductionSet
<1>5. PICK h : \A s \in SUBSET D : Cardinality(s) <= m => h[s] = Step(h, s)
  BY <1>4
<1>6. \A s \in SUBSET D : h[s] = Step(h, s)
  <2>1. IsFiniteSet(1 .. m) /\ Cardinality(1 .. m) = m
    BY FS_Interval
  <2>2. \A s \in SUBSET D : Cardinality(s) <= m
    BY <2>1, FS_Subset
  <2> QED
    BY <1>5, <2>2
<1> DEFINE g == [s \in SUBSET D |-> h[s]]
<1>7. g = [s \in SUBSET D |-> Step(g, s)]
  <2>1. ASSUME NEW s \in SUBSET D
        PROVE  g[s] = Step(g, s)
    <3>1. CASE s = {}
      BY <1>6, <3>1
    <3>2. CASE s # {}
      <4>1. s \ {Max(s)} \in SUBSET D
        BY <3>2, LastLeaves
      <4> QED
        BY <1>6, <3>2, <4>1
    <3> QED
      BY <3>1, <3>2
  <2> QED
    BY <2>1
<1>8. SavesUp(g, tbl, counter, values)
  BY <1>7 DEF SavesUp
<1> QED
  BY <1>8

\* The states a table goes through while the values are saved: acc[k] after k of them.
Saves(acc, tbl, counter, values, m) ==
    /\ acc[0] = [rows |-> tbl, counter |-> counter]
    /\ \A k \in 1 .. m :
          acc[k] = SavedSnapshot(acc[k - 1].rows, acc[k - 1].counter, values[k])

\* Values are saved one after the other, from the first to the last.
LEMMA InTurn ==
    ASSUME NEW tbl, NEW counter, NEW values, NEW m \in Nat, DOMAIN values = 1 .. m
    PROVE  \E acc : /\ Saves(acc, tbl, counter, values, m)
                    /\ SavedInTurn(tbl, counter, values) = acc[m]
<1>1. PICK h : /\ SavesUp(h, tbl, counter, values)
               /\ SavedInTurn(tbl, counter, values) = h[1 .. m]
  BY InTurnDef, InTurnExists
<1> DEFINE acc == [k \in 0 .. m |-> h[1 .. k]]
<1>2. \A s \in SUBSET (1 .. m) :
         h[s] = IF s = {} THEN [rows |-> tbl, counter |-> counter]
                ELSE SavedSnapshot(h[s \ {Max(s)}].rows, h[s \ {Max(s)}].counter, values[Max(s)])
  BY <1>1 DEF SavesUp
<1>3. acc[0] = [rows |-> tbl, counter |-> counter]
  <2>1. 1 .. 0 = {} /\ acc[0] = h[1 .. 0]
    OBVIOUS
  <2> QED
    BY <1>2, <2>1
<1>4. ASSUME NEW k \in 1 .. m
      PROVE  acc[k] = SavedSnapshot(acc[k - 1].rows, acc[k - 1].counter, values[k])
  <2>1. /\ 1 .. k \in SUBSET (1 .. m) /\ k \in 1 .. k /\ 1 .. k # {}
        /\ \A j \in 1 .. k : k >= j
        /\ (1 .. k) \ {k} = 1 .. (k - 1)
        /\ k \in 0 .. m /\ k - 1 \in 0 .. m
    <3>1. k \in Nat /\ k >= 1 /\ k <= m
      OBVIOUS
    <3>2. 1 .. k \in SUBSET (1 .. m)
      BY <3>1
    <3>3. (1 .. k) \ {k} = 1 .. (k - 1)
      BY <3>1
    <3>4. k \in 1 .. k /\ \A j \in 1 .. k : k >= j
      BY <3>1
    <3> QED
      BY <3>1, <3>2, <3>3, <3>4
  <2>2. Max(1 .. k) = k
    <3>1. /\ Max(1 .. k) \in 1 .. k /\ \A j \in 1 .. k : Max(1 .. k) >= j
      BY <2>1 DEF Max
    <3>2. Max(1 .. k) \in Int /\ Max(1 .. k) <= k /\ Max(1 .. k) >= k
      BY <2>1, <3>1
    <3> QED
      BY <3>2
  <2>3. acc[k] = h[1 .. k] /\ acc[k - 1] = h[1 .. (k - 1)]
    BY <2>1
  <2> HIDE DEF acc
  <2>4. h[1 .. k] = SavedSnapshot(h[(1 .. k) \ {k}].rows, h[(1 .. k) \ {k}].counter, values[k])
    BY <1>2, <2>1, <2>2
  <2> QED
    BY <2>1, <2>3, <2>4
<1>5. acc[m] = h[1 .. m]
  OBVIOUS
<1> HIDE DEF acc
<1> QED
  BY <1>1, <1>3, <1>4, <1>5 DEF Saves

-----------------------------------------------------------------------------
(* The book of a table (BookOf), and what one value saved makes of it.     *)

Key(row) == <<row.asset, row.day>>

\* The entry of a value is in the book, and says what the value says.
LEMMA BookOfTable ==
    ASSUME NEW tbl, OneForEachDay(tbl)
    PROVE  /\ DOMAIN BookOf(tbl) = {Key(tbl[i]) : i \in DOMAIN tbl}
           /\ BookOf(tbl) = [e \in DOMAIN BookOf(tbl) |-> BookOf(tbl)[e]]
           /\ \A i \in DOMAIN tbl : BookOf(tbl)[Key(tbl[i])] = tbl[i].value
<1> DEFINE Row(e) == CHOOSE i \in DOMAIN tbl : Key(tbl[i]) = e
<1>1. BookOf(tbl) = [e \in {Key(tbl[i]) : i \in DOMAIN tbl} |-> tbl[Row(e)].value]
  BY DEF BookOf, Key
<1>2. ASSUME NEW i \in DOMAIN tbl
      PROVE  Row(Key(tbl[i])) = i
  <2> DEFINE j == Row(Key(tbl[i]))
  <2>1. j \in DOMAIN tbl /\ Key(tbl[j]) = Key(tbl[i])
    OBVIOUS
  <2> HIDE DEF j
  <2>2. tbl[j].asset = tbl[i].asset /\ tbl[j].day = tbl[i].day
    BY <2>1 DEF Key
  <2>3. j = i
    BY <2>1, <2>2 DEF OneForEachDay
  <2> QED
    BY <2>3 DEF j
<1> HIDE DEF Row
<1>3. \A i \in DOMAIN tbl : BookOf(tbl)[Key(tbl[i])] = tbl[i].value
  BY <1>1, <1>2
<1>4. DOMAIN BookOf(tbl) = {Key(tbl[i]) : i \in DOMAIN tbl}
  BY <1>1
<1>5. BookOf(tbl) = [e \in DOMAIN BookOf(tbl) |-> BookOf(tbl)[e]]
  BY <1>1
<1> QED
  BY <1>3, <1>4, <1>5

\* The book with a value under a key.
Put(book, key, value) ==
    [e \in DOMAIN book \cup {key} |-> IF e = key THEN value ELSE book[e]]

\* A row that takes the place of the one row with its key, or is added where there is none,
\* puts its value in the book and changes no other.
LEMMA BookOfRow ==
    ASSUME NEW tbl, OneForEachDay(tbl), NEW id, NEW row,
           \A j \in DOMAIN tbl : Key(tbl[j]) = Key(row) <=> j = id
    PROVE  /\ OneForEachDay(With(tbl, id, row))
           /\ BookOf(With(tbl, id, row)) = Put(BookOf(tbl), Key(row), row.value)
<1> DEFINE new == With(tbl, id, row)
           old == BookOf(tbl)
<1>1. /\ DOMAIN new = DOMAIN tbl \cup {id} /\ new[id] = row
      /\ \A j \in DOMAIN tbl : j # id => new[j] = tbl[j]
  BY DEF With
<1> HIDE DEF new
<1>2. OneForEachDay(new)
  <2> SUFFICES ASSUME NEW i \in DOMAIN new, NEW j \in DOMAIN new,
                      new[i].asset = new[j].asset, new[i].day = new[j].day
               PROVE  i = j
    BY DEF OneForEachDay
  <2>1. Key(new[i]) = Key(new[j])
    BY DEF Key
  <2>2. CASE i = id \/ j = id
    BY <1>1, <2>1, <2>2
  <2>3. CASE i # id /\ j # id
    BY <1>1, <2>3 DEF OneForEachDay
  <2> QED
    BY <2>2, <2>3
<1>3. /\ DOMAIN BookOf(new) = {Key(new[i]) : i \in DOMAIN new}
      /\ BookOf(new) = [e \in DOMAIN BookOf(new) |-> BookOf(new)[e]]
      /\ \A i \in DOMAIN new : BookOf(new)[Key(new[i])] = new[i].value
  BY <1>2, BookOfTable
<1>4. /\ DOMAIN old = {Key(tbl[i]) : i \in DOMAIN tbl}
      /\ \A i \in DOMAIN tbl : old[Key(tbl[i])] = tbl[i].value
  BY BookOfTable
<1> HIDE DEF old
<1>5. DOMAIN BookOf(new) = DOMAIN old \cup {Key(row)}
  <2>1. ASSUME NEW e \in DOMAIN BookOf(new)
        PROVE  e \in DOMAIN old \cup {Key(row)}
    <3>1. PICK i \in DOMAIN new : e = Key(new[i])
      BY <1>3
    <3>2. CASE i = id
      BY <1>1, <3>1, <3>2
    <3>3. CASE i # id
      BY <1>1, <1>4, <3>1, <3>3
    <3> QED
      BY <3>2, <3>3
  <2>2. ASSUME NEW e \in DOMAIN old
        PROVE  e \in DOMAIN BookOf(new)
    <3>1. PICK i \in DOMAIN tbl : e = Key(tbl[i])
      BY <1>4
    <3>2. i \in DOMAIN new /\ Key(new[i]) = e
      BY <1>1, <3>1
    <3> QED
      BY <1>3, <3>2
  <2>3. Key(row) \in DOMAIN BookOf(new)
    <3>1. id \in DOMAIN new /\ Key(new[id]) = Key(row)
      BY <1>1
    <3> QED
      BY <1>3, <3>1
  <2> QED
    BY <2>1, <2>2, <2>3
<1>6. ASSUME NEW e \in DOMAIN BookOf(new)
      PROVE  BookOf(new)[e] = IF e = Key(row) THEN row.value ELSE old[e]
  <2>1. PICK i \in DOMAIN new : e = Key(new[i])
    BY <1>3
  <2>2. BookOf(new)[e] = new[i].value
    BY <1>3, <2>1
  <2>3. CASE i = id
    BY <1>1, <2>1, <2>2, <2>3
  <2>4. CASE i # id
    <3>1. i \in DOMAIN tbl /\ new[i] = tbl[i] /\ e = Key(tbl[i])
      BY <1>1, <2>1, <2>4
    <3>2. e # Key(row)
      BY <2>4, <3>1
    <3>3. old[e] = tbl[i].value
      BY <1>4, <3>1
    <3> QED
      BY <2>2, <3>1, <3>2, <3>3
  <2> QED
    BY <2>3, <2>4
<1>7. BookOf(new) = Put(old, Key(row), row.value)
  BY <1>3, <1>5, <1>6 DEF Put
<1> QED
  BY <1>2, <1>7 DEF new, old

\* A table of values of the assets A, of one value for each asset and day, whose counter is
\* at its highest id.
ValueTable(tbl, counter, A) ==
    /\ TableOf(tbl, counter, SnapshotRow)
    /\ OneForEachDay(tbl)
    /\ counter = MaxId(DOMAIN tbl)
    /\ \A i \in DOMAIN tbl : tbl[i].asset \in A

\* A value saved under an id above all others takes the place of that of its asset and day,
\* or is added under the next id; the book gets it, and nothing else.
LEMMA ValueSaved ==
    ASSUME NEW tbl, NEW counter, NEW A, ValueTable(tbl, counter, A),
           NEW s, s.row \in SnapshotRow, s.row.asset \in A, s.id \in Nat, s.id > counter
    PROVE  LET saved == SavedSnapshot(tbl, counter, s)
           IN  /\ ValueTable(saved.rows, saved.counter, A)
               /\ saved.counter <= counter + 1
               /\ BookOf(saved.rows) = Put(BookOf(tbl), Key(s.row), s.row.value)
<1> DEFINE same == {i \in DOMAIN tbl : tbl[i].asset = s.row.asset /\ tbl[i].day = s.row.day}
           saved == SavedSnapshot(tbl, counter, s)
<1>1. TableOf(tbl, counter, SnapshotRow) /\ counter \in Nat /\ s.id \notin DOMAIN tbl
  BY DEF ValueTable, TableOf
<1>2. \A i \in DOMAIN tbl : i \in same <=> Key(tbl[i]) = Key(s.row)
  BY DEF Key
<1>3. CASE same # {}
  <2> DEFINE i == CHOOSE i \in same : TRUE
  <2>1. i \in same
    BY <1>3
  <2>2. saved = [rows |-> With(tbl, i, s.row), counter |-> counter]
    BY <1>1, <1>3 DEF SavedSnapshot, Updated
  <2> HIDE DEF i
  <2>3. \A j \in DOMAIN tbl : Key(tbl[j]) = Key(s.row) <=> j = i
    <3> SUFFICES ASSUME NEW j \in DOMAIN tbl, j \in same
                 PROVE  j = i
      BY <1>2, <2>1
    <3> QED
      BY <2>1 DEF ValueTable, OneForEachDay
  <2> HIDE DEF same, saved
  <2>4. i \in DOMAIN tbl
    BY <2>1 DEF same
  <2> DEFINE new == With(tbl, i, s.row)
  <2>5. OneForEachDay(new) /\ BookOf(new) = Put(BookOf(tbl), Key(s.row), s.row.value)
    BY <2>3, BookOfRow DEF ValueTable
  <2>6. DOMAIN new = DOMAIN tbl /\ \A j \in DOMAIN tbl :
           new[j] = IF j = i THEN s.row ELSE tbl[j]
    BY <2>4 DEF With
  <2>7. new \in [DOMAIN tbl -> SnapshotRow]
    <3>1. new = [j \in DOMAIN tbl |-> IF j = i THEN s.row ELSE tbl[j]]
      BY <2>4 DEF With
    <3>2. \A j \in DOMAIN tbl : tbl[j] \in SnapshotRow
      BY <1>1 DEF TableOf
    <3> QED
      BY <3>1, <3>2
  <2> HIDE DEF new
  <2>8. ValueTable(new, counter, A)
    <3>1. TableOf(new, counter, SnapshotRow)
      BY <1>1, <2>6, <2>7 DEF TableOf
    <3>2. \A j \in DOMAIN new : new[j].asset \in A
      BY <2>6 DEF ValueTable
    <3> QED
      BY <2>5, <2>6, <3>1, <3>2 DEF ValueTable
  <2>9. saved.rows = new /\ saved.counter = counter
    BY <2>2 DEF new
  <2> QED
    BY <1>1, <2>5, <2>8, <2>9 DEF saved
<1>4. CASE same = {}
  <2> DEFINE new == With(tbl, counter + 1, s.row)
  <2>1. saved = [rows |-> new, counter |-> counter + 1]
    BY <1>1, <1>4 DEF SavedSnapshot, Saved, Inserted
  <2>2. Adds(new, tbl, counter, SnapshotRow, s.row)
    BY <1>1, RowAdded
  <2>3. counter + 1 \notin DOMAIN tbl
    BY <1>1, TableIds
  <2>4. \A j \in DOMAIN tbl : Key(tbl[j]) = Key(s.row) <=> j = counter + 1
    BY <1>2, <1>4, <2>3
  <2> HIDE DEF same, saved
  <2>5. OneForEachDay(new) /\ BookOf(new) = Put(BookOf(tbl), Key(s.row), s.row.value)
    BY <2>4, BookOfRow DEF ValueTable
  <2> HIDE DEF new
  <2>6. ValueTable(new, counter + 1, A)
    BY <2>2, <2>5 DEF ValueTable, Adds
  <2>7. saved.rows = new /\ saved.counter = counter + 1
    BY <2>1
  <2> QED
    BY <1>1, <2>5, <2>6, <2>7 DEF saved
<1> QED
  BY <1>3, <1>4

-----------------------------------------------------------------------------
(* The bulk form.                                                          *)

\* The book with the values given for some assets on a day.
Entered(book, day, given, some) ==
    [e \in DOMAIN book \cup (some \X {day}) |->
       IF e[2] = day /\ e[1] \in some THEN given[e[1]] ELSE book[e]]

\* One asset more.
LEMMA EnteredNext ==
    ASSUME NEW book, \A e \in DOMAIN book : e = <<e[1], e[2]>>,
           NEW day, NEW given, NEW some, NEW a
    PROVE  Put(Entered(book, day, given, some), <<a, day>>, given[a])
           = Entered(book, day, given, some \cup {a})
<1> DEFINE old == Entered(book, day, given, some)
           new == Entered(book, day, given, some \cup {a})
           D   == DOMAIN book \cup ((some \cup {a}) \X {day})
           Value(e) == IF e[2] = day /\ e[1] \in some \cup {a} THEN given[e[1]] ELSE book[e]
<1>1. /\ DOMAIN old = DOMAIN book \cup (some \X {day})
      /\ \A e \in DOMAIN old :
            old[e] = IF e[2] = day /\ e[1] \in some THEN given[e[1]] ELSE book[e]
  BY DEF Entered
<1>2. new = [e \in D |-> Value(e)]
  BY DEF Entered
<1> HIDE DEF old, new
<1>3. DOMAIN old \cup {<<a, day>>} = D
  BY <1>1
<1>4. ASSUME NEW e \in D
      PROVE  (IF e = <<a, day>> THEN given[a] ELSE old[e]) = Value(e)
  <2>1. CASE e = <<a, day>>
    BY <2>1
  <2>2. CASE e # <<a, day>>
    <3>1. e \in DOMAIN old
      BY <1>3, <2>2
    <3>2. ~ (e[2] = day /\ e[1] = a)
      <4>1. e = <<e[1], e[2]>>
        BY <1>1, <3>1
      <4> QED
        BY <2>2, <4>1
    <3> QED
      BY <1>1, <2>2, <3>1, <3>2
  <2> QED
    BY <2>1, <2>2
<1> HIDE DEF D, Value
<1>5. Put(old, <<a, day>>, given[a]) = [e \in D |-> Value(e)]
  BY <1>3, <1>4 DEF Put
<1> QED
  BY <1>2, <1>5 DEF old, new

\* The first k assets of a form.
First(D, k) == {Nth(D, j) : j \in 1 .. k}

\* The row of one line of the form.
Line(day, given, a) ==
    [asset |-> a, day |-> day, value |-> given[a], currency |-> assets[a].kind.currency]

\* What the service numbers: the value of the k-th asset gets the k-th number after the highest.
LEMMA NumberedValues ==
    ASSUME NEW day, NEW given, NEW D, D = DOMAIN given, Ids(D), Ids(DOMAIN snapshots)
    PROVE  /\ Cardinality(D) \in Nat
           /\ DOMAIN Numbered(Entries(day, given)) = 1 .. Cardinality(D)
           /\ \A k \in 1 .. Cardinality(D) :
                 /\ Nth(D, k) \in D
                 /\ Numbered(Entries(day, given))[k]
                    = [id |-> MaxId(DOMAIN snapshots) + k, row |-> Line(day, given, Nth(D, k))]
<1> DEFINE m == Cardinality(D)
           Row(k) == Line(day, given, Nth(D, k))
<1>1. m \in Nat
  BY FS_CardinalityType DEF Ids
<1>2. Entries(day, given) = [k \in 1 .. m |-> Row(k)]
  BY DEF Entries, Line
<1>3. /\ DOMAIN Entries(day, given) = 1 .. m
      /\ \A k \in 1 .. m : Entries(day, given)[k] = Row(k)
  BY <1>2
<1> HIDE DEF m, Row
<1>4. \A k \in 1 .. m : NextId(snapshots) + k - 1 = MaxId(DOMAIN snapshots) + k
  BY <1>1, MaxIdBounds DEF NextId
<1>5. /\ DOMAIN Numbered(Entries(day, given)) = 1 .. m
      /\ \A k \in 1 .. m : Numbered(Entries(day, given))[k]
                            = [id |-> MaxId(DOMAIN snapshots) + k, row |-> Row(k)]
  BY <1>3, <1>4 DEF Numbered
<1>6. \A k \in 1 .. m : Nth(D, k) \in D
  BY NthOfRank DEF m
<1> QED
  BY <1>1, <1>5, <1>6 DEF m, Row

\* The values of a form are those of its assets, each once: the table stays one of values, and
\* the book has entered them all.
LEMMA FormEntered ==
    ASSUME PortfolioAssumption, TypeOK, ValueTable(snapshots, counters.snapshots, DOMAIN assets),
           NEW day \in Days, NEW some \in SUBSET (DOMAIN assets), NEW given \in [some -> Values]
    PROVE  LET saved == SavedInTurn(snapshots, counters.snapshots, Numbered(Entries(day, given)))
           IN  /\ ValueTable(saved.rows, saved.counter, DOMAIN assets)
               /\ BookOf(saved.rows) = Entered(BookOf(snapshots), day, given, some)
<1> DEFINE m      == Cardinality(some)
           n      == counters.snapshots
           values == Numbered(Entries(day, given))
           book   == BookOf(snapshots)
           A      == DOMAIN assets
<1>1. Ids(some) /\ Ids(DOMAIN snapshots) /\ DOMAIN given = some
  <2>1. Ids(DOMAIN assets) /\ Ids(DOMAIN snapshots)
    BY DEF TypeOK, IsTable, Ids
  <2> QED
    BY <2>1, IdsOfPart
<1>2. n \in Nat /\ n = MaxId(DOMAIN snapshots)
  BY DEF ValueTable, TableOf
<1>3. /\ m \in Nat /\ DOMAIN values = 1 .. m
      /\ \A k \in 1 .. m :
            /\ Nth(some, k) \in some
            /\ values[k] = [id |-> n + k, row |-> Line(day, given, Nth(some, k))]
  BY <1>1, <1>2, NumberedValues
<1>4. /\ book = [e \in DOMAIN book |-> book[e]]
      /\ \A e \in DOMAIN book : e = <<e[1], e[2]>>
  <2>1. OneForEachDay(snapshots)
    BY DEF ValueTable
  <2>2. /\ DOMAIN book = {Key(snapshots[i]) : i \in DOMAIN snapshots}
        /\ book = [e \in DOMAIN book |-> book[e]]
    BY <2>1, BookOfTable
  <2> HIDE DEF book
  <2>3. \A e \in DOMAIN book : e = <<e[1], e[2]>>
    BY <2>2 DEF Key
  <2> QED
    BY <2>2, <2>3
<1> HIDE DEF values, m, n, book
<1>5. PICK acc : /\ Saves(acc, snapshots, n, values, m)
                 /\ SavedInTurn(snapshots, n, values) = acc[m]
  BY <1>3, InTurn
<1> DEFINE Stage(k) == /\ ValueTable(acc[k].rows, acc[k].counter, A)
                       /\ acc[k].counter <= n + k
                       /\ BookOf(acc[k].rows) = Entered(book, day, given, First(some, k))
           M == {k \in Nat : k <= m => Stage(k)}
<1>6. 0 \in M
  <2>1. acc[0].rows = snapshots /\ acc[0].counter = n
    BY <1>5 DEF Saves
  <2>2. First(some, 0) = {}
    BY DEF First
  <2>3. Entered(book, day, given, {}) = book
    BY <1>4 DEF Entered
  <2>4. ValueTable(acc[0].rows, acc[0].counter, A)
    BY <2>1 DEF n
  <2>5. BookOf(acc[0].rows) = Entered(book, day, given, First(some, 0))
    BY <2>1, <2>2, <2>3 DEF book
  <2>6. acc[0].counter <= n + 0
    BY <1>2, <2>1
  <2> QED
    BY <2>4, <2>5, <2>6
<1>7. ASSUME NEW k \in M
      PROVE  k + 1 \in M
  <2> SUFFICES ASSUME k + 1 <= m
               PROVE  Stage(k + 1)
    OBVIOUS
  <2> DEFINE a   == Nth(some, k + 1)
             row == Line(day, given, a)
             s   == [id |-> n + (k + 1), row |-> row]
  <2>1. k \in Nat /\ k <= m /\ k + 1 \in 1 .. m /\ (k + 1) - 1 = k /\ Stage(k)
    <3> HIDE DEF Stage
    <3>1. k \in Nat /\ m \in Nat /\ k + 1 <= m
      BY <1>3
    <3>2. k <= m /\ k + 1 \in 1 .. m /\ (k + 1) - 1 = k
      BY <3>1
    <3> QED
      BY <3>1, <3>2
  <2>2. a \in some /\ values[k + 1] = s
    BY <1>3, <2>1
  <2>3. acc[k + 1] = SavedSnapshot(acc[k].rows, acc[k].counter, s)
    BY <1>5, <2>1, <2>2 DEF Saves
  <2>4. row \in SnapshotRow
    <3>1. a \in DOMAIN assets /\ a \in Nat /\ given[a] \in Values
      BY <1>1, <2>2 DEF Ids
    <3>2. assets[a].kind \in Kinds
      BY <3>1 DEF TypeOK, IsTable, AssetRow
    <3> QED
      BY <3>1, <3>2 DEF SnapshotRow, Line
  <2>5. s.id \in Nat /\ s.id > acc[k].counter /\ acc[k].counter \in Nat
    BY <1>2, <2>1 DEF ValueTable, TableOf
  <2>6. s.row = row /\ row.asset = a /\ Key(row) = <<a, day>> /\ row.value = given[a]
    BY DEF Key, Line
  <2>7. a \in A
    BY <2>2
  <2> HIDE DEF s, row, A
  <2>8. /\ ValueTable(acc[k + 1].rows, acc[k + 1].counter, A)
        /\ acc[k + 1].counter <= acc[k].counter + 1
        /\ BookOf(acc[k + 1].rows) = Put(BookOf(acc[k].rows), <<a, day>>, given[a])
    BY <2>1, <2>3, <2>4, <2>5, <2>6, <2>7, ValueSaved
  <2>9. First(some, k + 1) = First(some, k) \cup {a}
    <3>1. 1 .. (k + 1) = (1 .. k) \cup {k + 1}
      BY <2>1
    <3> QED
      BY <3>1 DEF First
  <2>10. BookOf(acc[k + 1].rows) = Entered(book, day, given, First(some, k + 1))
    BY <1>4, <2>1, <2>8, <2>9, EnteredNext
  <2>11. acc[k + 1].counter <= n + (k + 1)
    <3>1. acc[k + 1].counter \in Nat
      BY <2>8 DEF ValueTable, TableOf
    <3> QED
      BY <1>2, <2>1, <2>5, <2>8, <3>1
  <2> QED
    BY <2>8, <2>10, <2>11 DEF A
<1>8. Stage(m)
  <2> HIDE DEF M
  <2>1. M \in SUBSET Nat
    BY DEF M
  <2>2. M = Nat
    BY <1>6, <1>7, <2>1, NatInductionSet
  <2> QED
    BY <1>3, <2>2 DEF M
<1>9. First(some, m) = some
  <2>1. \A i \in some : Rank(some, i) \in 1 .. m /\ Nth(some, Rank(some, i)) = i
    BY <1>1, RankType, NthOfRank DEF m
  <2>2. \A j \in 1 .. m : Nth(some, j) \in some
    BY <1>3
  <2> QED
    BY <2>1, <2>2 DEF First
<1> QED
  BY <1>5, <1>8, <1>9 DEF n, values, book

-----------------------------------------------------------------------------
(* The inductive invariant.                                                *)

\* Ids an asset may have: given by the table, or by a backup.
AssetIds == 1 .. MaxAssets \cup UNION {DOMAIN b.assets : b \in Backups}

\* Assets and values are never deleted one by one, so their counters are at the highest id.
IInv ==
    /\ TypeOK
    /\ counters.assets = MaxId(DOMAIN assets)
    /\ counters.snapshots = MaxId(DOMAIN snapshots)
    /\ OneForEachDay(snapshots)
    /\ DOMAIN assets \subseteq AssetIds

\* Two ways to say what a table is.
LEMMA TableIs ==
    ASSUME NEW tbl, NEW n \in Nat, NEW Row
    PROVE  TableOf(tbl, n, Row) <=> IsTable(tbl, Row) /\ DOMAIN tbl \subseteq 1 .. n
<1>1. ASSUME TableOf(tbl, n, Row)
      PROVE  IsTable(tbl, Row) /\ DOMAIN tbl \subseteq 1 .. n
  BY <1>1, IdsOfInterval DEF TableOf, IsTable, Ids
<1>2. ASSUME IsTable(tbl, Row), DOMAIN tbl \subseteq 1 .. n
      PROVE  TableOf(tbl, n, Row)
  BY <1>2 DEF TableOf, IsTable
<1> QED
  BY <1>1, <1>2

\* The three tables.
LEMMA TypesAre ==
    ASSUME counters \in [assets : Nat, snapshots : Nat, goals : Nat]
    PROVE  TypeOK <=> /\ today \in Days /\ outcome \in {"done", "raised"}
                      /\ TableOf(assets, counters.assets, AssetRow)
                      /\ TableOf(snapshots, counters.snapshots, SnapshotRow)
                      /\ TableOf(goals, counters.goals, GoalRow)
                      /\ \A i \in DOMAIN snapshots : snapshots[i].asset \in DOMAIN assets
  BY TableIs DEF TypeOK

\* A row saved under an id that no row has is added under the next id.
LEMMA SavedNew ==
    ASSUME NEW tbl, NEW n, NEW Row, TableOf(tbl, n, Row), NEW row \in Row,
           NEW id, id \notin DOMAIN tbl
    PROVE  /\ Saved(tbl, n, id, row) = [rows |-> With(tbl, n + 1, row), counter |-> n + 1]
           /\ Adds(With(tbl, n + 1, row), tbl, n, Row, row)
  BY RowAdded DEF Saved, Inserted

\* Nothing is stored at the beginning.
LEMMA InitKeeps ==
    ASSUME PortfolioAssumption, Init
    PROVE  IInv
<1>1. DOMAIN (<<>>) = {} /\ IsFiniteSet({})
  BY FS_EmptySet
<1>2. \A Row : IsTable(<<>>, Row)
  BY <1>1 DEF IsTable
<1>3. TypeOK
  BY <1>1, <1>2 DEF Init, TypeOK, PortfolioAssumption, Days
<1> QED
  BY <1>1, <1>3 DEF Init, IInv, MaxId, OneForEachDay

\* A new asset gets the number the service chose: the table's next id.
LEMMA CreateAssetKeeps ==
    ASSUME PortfolioAssumption, IInv, NEW form \in AssetForms, CreateAsset(form)
    PROVE  IInv' /\ outcome' = "done"
<1> DEFINE n   == counters.assets
           row == [kind |-> form.kind, created |-> form.created, active |-> TRUE]
<1>1. /\ n \in Nat /\ n = MaxId(DOMAIN assets) /\ TableOf(assets, n, AssetRow)
      /\ counters \in [assets : Nat, snapshots : Nat, goals : Nat]
  BY TableIs DEF IInv, TypeOK
<1>2. row \in AssetRow
  BY DEF PortfolioAssumption, AssetRow
<1>3. NextId(assets) = n + 1 /\ n + 1 \notin DOMAIN assets
  BY <1>1, TableIds DEF NextId
<1>4. /\ Saved(assets, n, n + 1, row) = [rows |-> With(assets, n + 1, row), counter |-> n + 1]
      /\ Adds(With(assets, n + 1, row), assets, n, AssetRow, row)
  BY <1>1, <1>2, <1>3, SavedNew
<1>5. /\ assets' = With(assets, n + 1, row)
      /\ counters' = [counters EXCEPT !.assets = n + 1]
      /\ outcome' = IF n + 1 \in DOMAIN assets' THEN "done" ELSE "raised"
      /\ n < MaxAssets
      /\ UNCHANGED <<today, snapshots, goals>>
  BY <1>3, <1>4 DEF CreateAsset
<1> HIDE DEF row
<1>6. /\ TableOf(assets', n + 1, AssetRow) /\ MaxId(DOMAIN assets') = n + 1
      /\ DOMAIN assets' = DOMAIN assets \cup {n + 1}
  BY <1>4, <1>5 DEF Adds
<1>7. /\ counters'.assets = n + 1 /\ counters'.snapshots = counters.snapshots
      /\ counters'.goals = counters.goals
      /\ counters' \in [assets : Nat, snapshots : Nat, goals : Nat]
  BY <1>1, <1>5
<1>8. outcome' = "done"
  BY <1>5, <1>6
<1>9. n + 1 \in AssetIds
  BY <1>1, <1>5 DEF AssetIds, PortfolioAssumption
<1> HIDE DEF n
<1>10. TypeOK'
  <2>1. IsTable(assets', AssetRow) /\ DOMAIN assets' \subseteq 1 .. (n + 1)
    BY <1>1, <1>6, TableIs
  <2> QED
    BY <1>5, <1>6, <1>7, <1>8, <2>1 DEF IInv, TypeOK, Days
<1> QED
  BY <1>5, <1>6, <1>7, <1>8, <1>9, <1>10 DEF IInv, OneForEachDay, AssetIds

\* An asset edited or deactivated keeps its id, and its values stay.
LEMMA EditAssetKeeps ==
    ASSUME PortfolioAssumption, IInv, NEW a \in DOMAIN assets, NEW row \in AssetRow,
           assets' = [assets EXCEPT ![a] = row], outcome' = "done",
           UNCHANGED <<today, snapshots, goals, counters>>
    PROVE  IInv'
<1>1. DOMAIN assets' = DOMAIN assets
  OBVIOUS
<1>2. IsTable(assets', AssetRow)
  BY <1>1 DEF IInv, TypeOK, IsTable
<1>3. TypeOK'
  BY <1>1, <1>2 DEF IInv, TypeOK, Days
<1> QED
  BY <1>1, <1>3 DEF IInv, OneForEachDay, AssetIds

\* The table of values is one in the sense of the lemmas on saving.
LEMMA SnapshotsAreValues ==
    ASSUME IInv
    PROVE  ValueTable(snapshots, counters.snapshots, DOMAIN assets)
<1>1. counters.snapshots \in Nat
  BY DEF IInv, TypeOK
<1> QED
  BY <1>1, TableIs DEF IInv, TypeOK, ValueTable

\* The bulk form enters in the book exactly what was given.
LEMMA BulkEnters ==
    ASSUME PortfolioAssumption, IInv, NEW day \in Days, NEW some \in SUBSET Active,
           NEW given \in [some -> Values], BulkUpsertSnapshots(day, given)
    PROVE  IInv' /\ Book!Enter(day, given) /\ outcome' = "done"
<1> DEFINE saved == SavedInTurn(snapshots, counters.snapshots, Numbered(Entries(day, given)))
<1>1. some \in SUBSET (DOMAIN assets)
  BY DEF Active
<1>2. /\ ValueTable(saved.rows, saved.counter, DOMAIN assets)
      /\ BookOf(saved.rows) = Entered(BookOf(snapshots), day, given, some)
  <2>1. TypeOK
    BY DEF IInv
  <2> QED
    BY <1>1, <2>1, SnapshotsAreValues, FormEntered
<1>3. /\ snapshots' = saved.rows
      /\ counters' = [counters EXCEPT !.snapshots = saved.counter]
      /\ outcome' = "done" /\ UNCHANGED <<today, assets, goals>>
  BY DEF BulkUpsertSnapshots
<1> HIDE DEF saved
<1>4. DOMAIN given = some
  OBVIOUS
<1>5. Book!Enter(day, given)
  BY <1>2, <1>3, <1>4 DEF Book!Enter, Entered
<1>6. /\ TableOf(snapshots', saved.counter, SnapshotRow) /\ saved.counter \in Nat
      /\ OneForEachDay(snapshots') /\ saved.counter = MaxId(DOMAIN snapshots')
      /\ \A i \in DOMAIN snapshots' : snapshots'[i].asset \in DOMAIN assets
  BY <1>2, <1>3 DEF ValueTable, TableOf
<1>7. /\ counters'.assets = counters.assets /\ counters'.snapshots = saved.counter
      /\ counters'.goals = counters.goals
      /\ counters' \in [assets : Nat, snapshots : Nat, goals : Nat]
  BY <1>3, <1>6 DEF IInv, TypeOK
<1>8. IsTable(snapshots', SnapshotRow) /\ DOMAIN snapshots' \subseteq 1 .. saved.counter
  BY <1>6, TableIs
<1>9. TypeOK'
  BY <1>3, <1>6, <1>7, <1>8 DEF IInv, TypeOK, Days
<1>10. IInv'
  BY <1>3, <1>6, <1>7, <1>9 DEF IInv, AssetIds
<1> QED
  BY <1>3, <1>5, <1>10

\* A new goal; it is not found where the counter was past the highest goal.
LEMMA CreateGoalKeeps ==
    ASSUME PortfolioAssumption, IInv, NEW form \in GoalForms, CreateGoal(form)
    PROVE  /\ IInv' /\ UNCHANGED <<assets, snapshots>>
           /\ outcome' = "raised" => counters.goals > MaxId(DOMAIN goals)
<1> DEFINE n   == counters.goals
           id  == NextId(goals)
           row == [target |-> form.target, created |-> form.created,
                   due |-> form.due, done |-> FALSE]
<1>1. /\ n \in Nat /\ TableOf(goals, n, GoalRow)
      /\ counters \in [assets : Nat, snapshots : Nat, goals : Nat]
  BY TableIs DEF IInv, TypeOK
<1>2. row \in GoalRow
  BY DEF PortfolioAssumption, GoalRow
<1>3. Ids(DOMAIN goals) /\ MaxId(DOMAIN goals) \in Nat /\ id = MaxId(DOMAIN goals) + 1
  BY <1>1, TableIds, MaxIdBounds DEF NextId
<1>4. id \notin DOMAIN goals
  <2>1. \A i \in DOMAIN goals : i <= MaxId(DOMAIN goals)
    BY <1>3, MaxIdBounds
  <2> QED
    BY <1>3, <2>1
<1>5. MaxId(DOMAIN goals) <= n
  <2>1. DOMAIN goals # {} => MaxId(DOMAIN goals) \in DOMAIN goals
    BY <1>3, MaxIdBounds
  <2>2. DOMAIN goals = {} => MaxId(DOMAIN goals) = 0
    BY DEF MaxId
  <2>3. n \in Nat /\ \A i \in DOMAIN goals : i <= n
    BY <1>1 DEF TableOf
  <2>4. CASE DOMAIN goals = {}
    BY <2>2, <2>3, <2>4
  <2>5. CASE DOMAIN goals # {}
    BY <2>1, <2>3, <2>5
  <2> QED
    BY <2>4, <2>5
<1>6. /\ Saved(goals, n, id, row) = [rows |-> With(goals, n + 1, row), counter |-> n + 1]
      /\ Adds(With(goals, n + 1, row), goals, n, GoalRow, row)
  BY <1>1, <1>2, <1>4, SavedNew
<1>7. /\ goals' = With(goals, n + 1, row)
      /\ counters' = [counters EXCEPT !.goals = n + 1]
      /\ outcome' = IF id \in DOMAIN goals' THEN "done" ELSE "raised"
      /\ UNCHANGED <<today, assets, snapshots>>
  BY <1>6 DEF CreateGoal
<1> HIDE DEF row, id
<1>8. TableOf(goals', n + 1, GoalRow) /\ DOMAIN goals' = DOMAIN goals \cup {n + 1}
  BY <1>6, <1>7 DEF Adds
<1>9. /\ counters'.assets = counters.assets /\ counters'.snapshots = counters.snapshots
      /\ counters'.goals = n + 1
      /\ counters' \in [assets : Nat, snapshots : Nat, goals : Nat]
  BY <1>1, <1>7
<1>10. outcome' = "raised" => n > MaxId(DOMAIN goals)
  <2>1. outcome' = "raised" => id # n + 1
    BY <1>7, <1>8
  <2> QED
    BY <1>1, <1>3, <1>5, <2>1
<1>11. TypeOK'
  <2>1. IsTable(goals', GoalRow) /\ DOMAIN goals' \subseteq 1 .. (n + 1)
    BY <1>1, <1>8, TableIs
  <2>2. outcome' \in {"done", "raised"}
    BY <1>7
  <2> HIDE DEF n
  <2> QED
    BY <1>7, <1>9, <2>1, <2>2 DEF IInv, TypeOK, Days
<1> QED
  BY <1>7, <1>9, <1>10, <1>11 DEF IInv, OneForEachDay, AssetIds

\* What changes goals alone keeps the invariant.
LEMMA GoalsAloneKeep ==
    ASSUME IInv, IsTable(goals', GoalRow), DOMAIN goals' \subseteq DOMAIN goals,
           outcome' = "done", UNCHANGED <<today, assets, snapshots, counters>>
    PROVE  IInv'
<1>1. TypeOK'
  BY DEF IInv, TypeOK, Days
<1> QED
  BY <1>1 DEF IInv, OneForEachDay, AssetIds

\* A goal completed, or set back.
LEMMA CompletedKeeps ==
    ASSUME IInv, NEW g \in DOMAIN goals, SetGoalCompleted(g)
    PROVE  IInv' /\ UNCHANGED <<assets, snapshots>> /\ outcome' = "done"
<1>1. IsTable(goals, GoalRow)
  BY DEF IInv, TypeOK
<1>2. goals' = [goals EXCEPT ![g].done = ~ @] /\ DOMAIN goals' = DOMAIN goals
  BY DEF SetGoalCompleted
<1>3. goals[g] \in GoalRow
  BY <1>1 DEF IsTable
<1>4. [goals[g] EXCEPT !.done = ~ @] \in GoalRow
  BY <1>3 DEF GoalRow
<1>5. goals' = [goals EXCEPT ![g] = [goals[g] EXCEPT !.done = ~ @]]
  BY <1>2
<1>6. IsTable(goals', GoalRow)
  BY <1>1, <1>4, <1>5 DEF IsTable
<1> QED
  BY <1>2, <1>6, GoalsAloneKeep DEF SetGoalCompleted

\* A goal deleted.
LEMMA DeletedKeeps ==
    ASSUME IInv, NEW g \in DOMAIN goals, DeleteGoal(g)
    PROVE  IInv' /\ UNCHANGED <<assets, snapshots>> /\ outcome' = "done"
<1>1. goals' = [j \in DOMAIN goals \ {g} |-> goals[j]]
  BY DEF DeleteGoal, Without
<1>2. IsTable(goals', GoalRow)
  <2>1. IsTable(goals, GoalRow)
    BY DEF IInv, TypeOK
  <2>2. IsFiniteSet(DOMAIN goals \ {g})
    BY <2>1, FS_Subset DEF IsTable
  <2> QED
    BY <1>1, <2>1, <2>2 DEF IsTable
<1> QED
  BY <1>1, <1>2, GoalsAloneKeep DEF DeleteGoal

\* A backup comes with its counters; its values are a book of the backups.
LEMMA ReplacedKeeps ==
    ASSUME PortfolioAssumption, IInv, NEW b \in Backups, ReplaceTables(b)
    PROVE  IInv' /\ BookOf(snapshots') = BookOf(b.snapshots) /\ outcome' = "done"
<1>1. BackupIsAccepted(b)
  BY DEF PortfolioAssumption
<1>2. /\ assets' = b.assets /\ snapshots' = b.snapshots /\ goals' = b.goals
      /\ counters' = CountersAfter(b) /\ outcome' = "done" /\ today' = today
  BY DEF ReplaceTables, ReplaceAssets, ReplaceGoals
<1>3. ASSUME NEW tbl, NEW Row, IsTable(tbl, Row)
      PROVE  MaxId(DOMAIN tbl) \in Nat /\ DOMAIN tbl \subseteq 1 .. MaxId(DOMAIN tbl)
  <2>1. Ids(DOMAIN tbl)
    BY <1>3 DEF IsTable, Ids
  <2>2. MaxId(DOMAIN tbl) \in Nat /\ \A i \in DOMAIN tbl : i <= MaxId(DOMAIN tbl)
    BY <2>1, MaxIdBounds
  <2>3. \A i \in DOMAIN tbl : i \in Nat \ {0}
    BY <2>1 DEF Ids
  <2> QED
    BY <2>2, <2>3
<1>4. /\ MaxId(DOMAIN assets') \in Nat /\ DOMAIN assets' \subseteq 1 .. MaxId(DOMAIN assets')
      /\ MaxId(DOMAIN snapshots') \in Nat
      /\ DOMAIN snapshots' \subseteq 1 .. MaxId(DOMAIN snapshots')
      /\ MaxId(DOMAIN goals') \in Nat /\ DOMAIN goals' \subseteq 1 .. MaxId(DOMAIN goals')
  BY <1>1, <1>2, <1>3 DEF BackupIsAccepted
<1>5. counters' = [assets |-> MaxId(DOMAIN assets'), snapshots |-> MaxId(DOMAIN snapshots'),
                   goals |-> MaxId(DOMAIN goals')]
  BY <1>2 DEF CountersAfter
<1>6. TypeOK'
  BY <1>1, <1>2, <1>4, <1>5 DEF IInv, TypeOK, BackupIsAccepted, Days
<1>7. DOMAIN assets' \subseteq AssetIds
  BY <1>2 DEF AssetIds
<1>8. OneForEachDay(snapshots')
  BY <1>1, <1>2 DEF BackupIsAccepted
<1> QED
  BY <1>2, <1>5, <1>6, <1>7, <1>8 DEF IInv, AssetIds

\* Every step keeps the invariant, and fails without a trace but for the goal.
StepHolds ==
    /\ IInv'
    /\ outcome' = "raised" =>
          \/ UNCHANGED tables
          \/ UNCHANGED <<assets, snapshots>> /\ counters.goals > MaxId(DOMAIN goals)
    /\ \/ UNCHANGED snapshots
       \/ \E day \in Days, some \in SUBSET (DOMAIN assets) :
             \E given \in [some -> Values] : Book!Enter(day, given)
       \/ \E b \in Backups : BookOf(snapshots') = BookOf(b.snapshots)

\* One case for each operation of the dialogs.
LEMMA StepsHold ==
    ASSUME PortfolioAssumption, IInv, [Next]_vars
    PROVE  StepHolds
<1>1. CASE UNCHANGED vars
  <2>1. IInv'
    BY <1>1 DEF IInv, TypeOK, OneForEachDay, AssetIds, Days, vars, tables
  <2> QED
    BY <1>1, <2>1 DEF StepHolds, vars, tables
<1>2. CASE NextDay
  <2>1. IInv'
    <3>1. today' \in Days
      BY <1>2 DEF NextDay, IInv, TypeOK, Days, PortfolioAssumption
    <3> QED
      BY <1>2, <3>1 DEF NextDay, IInv, TypeOK, OneForEachDay, AssetIds, Days, tables
  <2> QED
    BY <1>2, <2>1 DEF StepHolds, NextDay, tables
<1>3. ASSUME NEW form \in AssetForms, CreateAsset(form)
      PROVE  StepHolds
  <2>1. IInv' /\ outcome' = "done"
    BY <1>3, CreateAssetKeeps
  <2> QED
    BY <1>3, <2>1 DEF StepHolds, CreateAsset
<1>4. ASSUME NEW a \in DOMAIN assets, NEW kind \in Kinds, UpdateAsset(a, kind)
      PROVE  StepHolds
  <2> DEFINE row == [assets[a] EXCEPT !.kind = kind]
  <2>1. assets[a] \in AssetRow
    BY DEF IInv, TypeOK, IsTable
  <2>2. row \in AssetRow
    BY <2>1 DEF AssetRow
  <2>3. /\ assets' = [assets EXCEPT ![a] = row] /\ outcome' = "done"
        /\ UNCHANGED <<today, snapshots, goals, counters>>
    BY <1>4 DEF UpdateAsset
  <2> HIDE DEF row
  <2>4. IInv'
    BY <2>2, <2>3, EditAssetKeeps
  <2> QED
    BY <2>3, <2>4 DEF StepHolds
<1>5. ASSUME NEW a \in DOMAIN assets, DeactivateAsset(a)
      PROVE  StepHolds
  <2> DEFINE row == [assets[a] EXCEPT !.active = FALSE]
  <2>1. assets[a] \in AssetRow
    BY DEF IInv, TypeOK, IsTable
  <2>2. row \in AssetRow
    BY <2>1 DEF AssetRow
  <2>3. /\ assets' = [assets EXCEPT ![a] = row] /\ outcome' = "done"
        /\ UNCHANGED <<today, snapshots, goals, counters>>
    BY <1>5 DEF DeactivateAsset
  <2> HIDE DEF row
  <2>4. IInv'
    BY <2>2, <2>3, EditAssetKeeps
  <2> QED
    BY <2>3, <2>4 DEF StepHolds
<1>6. ASSUME NEW day \in Days, NEW some \in SUBSET Active, NEW given \in [some -> Values],
             BulkUpsertSnapshots(day, given)
      PROVE  StepHolds
  <2>1. IInv' /\ Book!Enter(day, given) /\ outcome' = "done"
    BY <1>6, BulkEnters
  <2>2. some \in SUBSET (DOMAIN assets)
    BY DEF Active
  <2> QED
    BY <2>1, <2>2 DEF StepHolds
<1>7. ASSUME NEW form \in GoalForms, CreateGoal(form)
      PROVE  StepHolds
  BY <1>7, CreateGoalKeeps DEF StepHolds
<1>8. ASSUME NEW g \in DOMAIN goals, SetGoalCompleted(g) \/ DeleteGoal(g)
      PROVE  StepHolds
  <2>1. IInv' /\ UNCHANGED <<assets, snapshots>> /\ outcome' = "done"
    BY <1>8, CompletedKeeps, DeletedKeeps
  <2> QED
    BY <2>1 DEF StepHolds
<1>9. ASSUME NEW b \in Backups, ReplaceTables(b)
      PROVE  StepHolds
  <2>1. IInv' /\ BookOf(snapshots') = BookOf(b.snapshots) /\ outcome' = "done"
    BY <1>9, ReplacedKeeps
  <2> QED
    BY <2>1 DEF StepHolds
<1> QED
  BY <1>1, <1>2, <1>3, <1>4, <1>5, <1>6, <1>7, <1>8, <1>9
     DEF Next, AssetDialog, ManageDialog, BulkDialog, GoalDialog, GoalList

-----------------------------------------------------------------------------
(* The theorems.                                                           *)

\* The inductive invariant holds throughout.
THEOREM InvariantHolds == Spec => []IInv
<1>1. Init => IInv
  BY PortfolioAssumption, InitKeeps
<1>2. IInv /\ [Next]_vars => IInv'
  BY PortfolioAssumption, StepsHold DEF StepHolds
<1> QED
  BY <1>1, <1>2, PTL DEF Spec

\* Types of assets, values and goals, and of their references.
THEOREM TypeCorrect == Spec => []TypeOK
<1>1. IInv => TypeOK
  BY DEF IInv
<1> QED
  BY <1>1, InvariantHolds, PTL

\* No value is ever saved beside another of its asset and day: the unique index of the table
\* has nothing to refuse, whatever numbers the service and the table give.
THEOREM IndexIsKept == Spec => []OneForEachDay(snapshots)
<1>1. IInv => OneForEachDay(snapshots)
  BY DEF IInv
<1> QED
  BY <1>1, InvariantHolds, PTL

\* A step of the portfolio is a step of the book, or leaves it alone.
LEMMA StepOfBook ==
    ASSUME PortfolioAssumption, IInv, [Next]_vars
    PROVE  [Book!Next]_(BookOf(snapshots))
<1>1. StepHolds
  BY StepsHold
<1>2. CASE UNCHANGED snapshots
  BY <1>2
<1>3. ASSUME NEW day \in Days, NEW some \in SUBSET (DOMAIN assets),
             NEW given \in [some -> Values], Book!Enter(day, given)
      PROVE  Book!Next
  <2>1. some \in SUBSET AssetIds
    BY DEF IInv
  <2>2. given \in UNION {[part -> Values] : part \in SUBSET AssetIds}
    BY <2>1
  <2> QED
    BY <1>3, <2>2 DEF Book!Next, AssetIds
<1>4. ASSUME NEW b \in Backups, BookOf(snapshots') = BookOf(b.snapshots)
      PROVE  Book!Next
  BY <1>4 DEF Book!Next
<1> QED
  BY <1>1, <1>2, <1>3, <1>4 DEF StepHolds

\* The table of values implements the book, and the bulk form enters in it exactly what was
\* given.
THEOREM TableIsABook == Spec => KeepsTheBook
<1>1. Init => BookOf(snapshots) = Book!NoValues
  BY DEF Init, BookOf, Book!NoValues
<1>2. IInv /\ [Next]_vars => [Book!Next]_(BookOf(snapshots))
  BY PortfolioAssumption, StepOfBook
<1> DEFINE Entering ==
             \A day \in Days, some \in SUBSET Active : \A given \in [some -> Values] :
                BulkUpsertSnapshots(day, given) => Book!Enter(day, given)
<1>3. IInv /\ [Next]_vars => Entering
  BY PortfolioAssumption, BulkEnters
<1> HIDE DEF Entering
<1>4. Spec => [][Entering]_vars
  BY <1>3, InvariantHolds, PTL DEF Spec
<1>5. Spec => Book!Spec
  BY <1>1, <1>2, InvariantHolds, PTL DEF Spec, Book!Spec
<1> QED
  BY <1>4, <1>5, PTL DEF KeepsTheBook, Entering

\* A form that reports an error has saved nothing, but for the goal that is not found.
THEOREM ErrorsSaveNothing == Spec => FailureSavesNothing
<1> DEFINE Harmless ==
             outcome' = "raised" =>
                \/ UNCHANGED tables
                \/ UNCHANGED <<assets, snapshots>> /\ counters.goals > MaxId(DOMAIN goals)
<1>1. IInv /\ [Next]_vars => Harmless
  BY PortfolioAssumption, StepsHold DEF StepHolds
<1> HIDE DEF Harmless
<1>2. Spec => [][Harmless]_vars
  BY <1>1, InvariantHolds, PTL DEF Spec
<1> QED
  BY <1>2, PTL DEF FailureSavesNothing, Harmless

-----------------------------------------------------------------------------
(* Distribution: parts of a sum, each rounded for itself.                  *)

\* Sums of the model are the Total of a column.
LEMMA SumIsTotal ==
    ASSUME NEW f, NEW S PROVE SumOver(f, S) = Total(f, S)
BY DEF SumOver, Total

\* Division and remainder.
LEMMA Quotient ==
    ASSUME NEW a \in Int, NEW b \in Nat \ {0}
    PROVE  /\ a \div b \in Int
           /\ b * (a \div b) <= a /\ a < b * (a \div b) + b
BY SMT

\* Rounding misses by at most half a unit.
LEMMA RoundedNear ==
    ASSUME DistributionAssumption, NEW a \in Int, NEW p \in Int
    PROVE  /\ ApplyPct(a, p) \in Int
           /\ 2 * FullPct * ApplyPct(a, p) - 2 * (a * p) \in -FullPct .. FullPct
<1> DEFINE w == a * p
           f == FullPct
           m == Magnitude(w)
           q == (2 * m + f) \div (2 * f)
<1>1. f \in Nat \ {0} /\ w \in Int
  BY DEF DistributionAssumption
<1>2. m \in Nat /\ (w < 0 => w = -m) /\ (~(w < 0) => w = m)
  BY <1>1 DEF Magnitude
<1> HIDE DEF w, f, m
<1>3. 2 * f \in Nat \ {0} /\ 2 * m + f \in Nat
  BY <1>1, <1>2
<1>4. q \in Int /\ (2 * f) * q <= 2 * m + f /\ 2 * m + f < (2 * f) * q + 2 * f
  BY <1>3, Quotient
<1> HIDE DEF q
<1>5. (2 * f) * q - 2 * m \in -f .. f /\ 2 * m - (2 * f) * q \in -f .. f
  BY <1>1, <1>2, <1>4
<1>6. ApplyPct(a, p) = IF w < 0 THEN -q ELSE q
  BY DEF ApplyPct, w, m, f, q
<1>7. (2 * f) * (-q) = -((2 * f) * q)
  BY <1>1, <1>4
<1>8. ApplyPct(a, p) \in Int /\ (2 * f) * ApplyPct(a, p) - 2 * w \in -f .. f
  BY <1>2, <1>4, <1>5, <1>6, <1>7, <1>1
<1> QED BY <1>8 DEF f, w

\* What is at most n times a positive number, times that number, is at most n.
LEMMA Cancels ==
    ASSUME NEW f \in Nat \ {0}, NEW x \in Int, NEW n \in Nat, f * x \in -(f * n) .. f * n
    PROVE  x \in -n .. n
<1>1. f * x \in Int /\ f * n \in Int /\ f * (x - n) = f * x - f * n /\ f * (x + n) = f * x + f * n
  OBVIOUS
<1>2. ASSUME NEW y \in Int, y >= 1 PROVE f * y >= 1
  BY <1>2
<1>3. x - n >= 1 => f * x > f * n
  BY <1>1, <1>2
<1>4. -(x + n) >= 1 => f * (-(x + n)) >= 1
  BY <1>2
<1>5. f * (-(x + n)) = -(f * x + f * n)
  BY <1>1
<1> QED BY <1>1, <1>3, <1>4, <1>5

\* The errors of a sum are at most one for each part.
LEMMA ErrorsAdd ==
    ASSUME NEW F \in Nat \ {0}, NEW c \in Int, NEW a \in Int, NEW S, IsFiniteSet(S), NEW pct, NEW share,
           \A x \in S : /\ pct[x] \in Int /\ share[x] \in Int
                        /\ c * share[x] - a * pct[x] \in -F .. F
    PROVE  c * Total(share, S) - a * Total(pct, S) \in -(F * Cardinality(S)) .. F * Cardinality(S)
<1> DEFINE Near(T) == c * Total(share, T) - a * Total(pct, T)
                         \in -(F * Cardinality(T)) .. F * Cardinality(T)
           P == {T \in SUBSET S : Near(T)}
<1>1. {} \in P
  BY TotalEmpty, FS_EmptySet
<1>2. ASSUME NEW T \in P, NEW x \in S \ T PROVE T \cup {x} \in P
  <2>1. IsFiniteSet(T) /\ T \in SUBSET S
    BY FS_Subset
  <2>2. /\ Total(share, T \cup {x}) = share[x] + Total(share, T)
        /\ Total(pct, T \cup {x}) = pct[x] + Total(pct, T)
    BY <2>1, TotalAdd
  <2>3. Total(share, T) \in Int /\ Total(pct, T) \in Int
    BY <2>1, TotalType
  <2>4. Cardinality(T) \in Nat /\ Cardinality(T \cup {x}) = Cardinality(T) + 1
    BY <2>1, FS_AddElement, FS_CardinalityType
  <2> DEFINE n == Cardinality(T)
             s == Total(share, T)
             p == Total(pct, T)
  <2>5. c * s - a * p \in -(F * n) .. F * n
    OBVIOUS
  <2>6. n \in Nat /\ s \in Int /\ p \in Int
    BY <2>3, <2>4
  <2>7. pct[x] \in Int /\ share[x] \in Int /\ c * share[x] - a * pct[x] \in -F .. F
    OBVIOUS
  <2> HIDE DEF n, s, p
  <2>8. c * (share[x] + s) - a * (pct[x] + p) \in -(F * (n + 1)) .. F * (n + 1)
    <3>1. ASSUME NEW t \in Int, NEW q \in Int, c * t - a * q \in -F .. F
          PROVE  c * (t + s) - a * (q + p) \in -(F * (n + 1)) .. F * (n + 1)
      <4>1. /\ c * (t + s) = c * t + c * s /\ a * (q + p) = a * q + a * p
            /\ F * (n + 1) = F * n + F
        BY <2>6, <3>1
      <4>2. c * t \in Int /\ c * s \in Int /\ a * q \in Int /\ a * p \in Int /\ F * n \in Int
        BY <2>6, <3>1
      <4> QED BY <2>5, <3>1, <4>1, <4>2
    <3> QED BY <2>7, <3>1
  <2>9. Near(T \cup {x})
    BY <2>2, <2>4, <2>8 DEF n, s, p
  <2> QED BY <2>1, <2>9
<1> HIDE DEF Near
<1>3. P = SUBSET S
  <2>1. P \in SUBSET (SUBSET S)
    OBVIOUS
  <2> HIDE DEF P
  <2> QED BY <1>1, <1>2, <2>1, SubsetInduction
<1>4. S \in P
  BY <1>3
<1> QED BY <1>4 DEF Near

\* Parts of one hundred percent of an amount add up to it, within half a unit for each.
LEMMA PartsAddUp ==
    ASSUME DistributionAssumption, NEW a \in Int, NEW S, IsFiniteSet(S), NEW share,
           \A l \in S : l.pct \in Int /\ share[l] = ApplyPct(a, l.pct),
           SumOfPercents(S) = FullPct
    PROVE  2 * Magnitude(SumOver(share, S) - a) <= Cardinality(S)
<1> DEFINE f == FullPct
           pct == [l \in S |-> l.pct]
           n == Cardinality(S)
           s == Total(share, S)
<1>1. f \in Nat \ {0}
  BY DEF DistributionAssumption
<1>2. SumOver(share, S) = s /\ Total(pct, S) = f
  BY SumIsTotal DEF SumOfPercents
<1>3. \A l \in S : /\ pct[l] \in Int /\ share[l] \in Int
                   /\ (2 * f) * share[l] - (2 * a) * pct[l] \in -f .. f
  <2> SUFFICES ASSUME NEW l \in S
               PROVE  /\ pct[l] \in Int /\ share[l] \in Int
                      /\ (2 * f) * share[l] - (2 * a) * pct[l] \in -f .. f
    OBVIOUS
  <2>1. pct[l] = l.pct /\ l.pct \in Int /\ share[l] = ApplyPct(a, l.pct)
    OBVIOUS
  <2> DEFINE q == l.pct
  <2>2. /\ ApplyPct(a, q) \in Int
        /\ (2 * f) * ApplyPct(a, q) - 2 * (a * q) \in -f .. f
    BY <2>1, RoundedNear
  <2>3. 2 * (a * q) = (2 * a) * q
    BY <2>1
  <2> QED BY <2>1, <2>2, <2>3
<1>4. n \in Nat
  BY FS_CardinalityType
<1>5. s \in Int
  BY <1>3, TotalType
<1> HIDE DEF f, n, s, pct
<1>6. (2 * f) * s - (2 * a) * f \in -(f * n) .. f * n
  <2> DEFINE c == 2 * f
             b == 2 * a
  <2>1. c \in Int /\ b \in Int
    BY <1>1
  <2>2. \A l \in S : pct[l] \in Int /\ share[l] \in Int /\ c * share[l] - b * pct[l] \in -f .. f
    BY <1>3
  <2> HIDE DEF c, b
  <2>3. c * Total(share, S) - b * Total(pct, S)
           \in -(f * Cardinality(S)) .. f * Cardinality(S)
    BY <1>1, <2>1, <2>2, ErrorsAdd
  <2> QED BY <1>2, <2>3 DEF c, b, s, n
<1>7. (2 * f) * s - (2 * a) * f = f * (2 * (s - a))
  BY <1>1, <1>5
<1>8. 2 * (s - a) \in -n .. n
  BY <1>1, <1>4, <1>5, <1>6, <1>7, Cancels
<1>9. 2 * Magnitude(s - a) <= n
  BY <1>4, <1>5, <1>8 DEF Magnitude
<1> QED BY <1>2, <1>9 DEF n

\* What is shown are lines; a month's net income is a number.
LEMMA ShownAreLines ==
    /\ Items \subseteq lines /\ Items \subseteq Shown /\ Shown \subseteq lines
    /\ \A item \in Items : SubitemsOf(item) \subseteq lines /\ SubitemsOf(item) \subseteq Shown
BY DEF Items, SubitemsOf, Shown

\* Each line has an id of its own and a percentage that is a number.
LEMMA EachLine ==
    ASSUME DistributionTypeOK
    PROVE  /\ IsFiniteSet(lines)
           /\ \A l \in lines : l.pct \in Int /\ l.id \in Nat \ {0}
           /\ \A k, l \in lines : k.id = l.id => k = l
BY DEF DistributionTypeOK, LinesOK

\* The net income of a month is a number.
LEMMA NetIsNumber ==
    ASSUME DistributionAssumption, DistributionTypeOK, NEW m \in Months
    PROVE  NetIncome(m) \in Int
<1>1. entries[m] \in Seq(Amounts) /\ Amounts \subseteq Int
  BY DEF DistributionTypeOK, DistributionAssumption
<1>2. IsFiniteSet(DOMAIN entries[m])
  <2>1. DOMAIN entries[m] = 1 .. Len(entries[m]) /\ Len(entries[m]) \in Nat
    BY <1>1, LenProperties
  <2> QED BY <2>1, FS_Interval
<1> DEFINE e == entries[m]
<1>3. \A n \in DOMAIN e : e[n] \in Int
  <2>1. e \in Seq(Amounts)
    BY <1>1
  <2> HIDE DEF e
  <2>2. DOMAIN e = 1 .. Len(e) /\ \A n \in 1 .. Len(e) : e[n] \in Amounts
    BY <2>1, ElementOfSeq, LenProperties
  <2> QED BY <1>1, <2>2
<1>4. Total(e, DOMAIN e) \in Int
  BY <1>2, <1>3, TotalType
<1> QED BY <1>4, SumIsTotal DEF NetIncome

\* The row of a month: an item gets its part of the income, a subitem its part of that.
LEMMA RowOfMonth ==
    ASSUME DistributionAssumption, DistributionTypeOK, NEW m \in Months
    PROVE  LET row == MonthlyDistribution(m)
           IN  /\ row.net = NetIncome(m)
               /\ DOMAIN row.share = {l.id : l \in Shown}
               /\ \A item \in Items : /\ row.share[item.id] = ApplyPct(NetIncome(m), item.pct)
                                      /\ row.share[item.id] \in Int
               /\ \A item \in Items : \A l \in SubitemsOf(item) :
                     /\ row.share[l.id] = ApplyPct(row.share[item.id], l.pct)
                     /\ row.share[l.id] \in Int
<1> DEFINE row == MonthlyDistribution(m)
           net == NetIncome(m)
           LineOf(id) == CHOOSE l \in Shown : l.id = id
           Part(line) == IF line.parent = NoParent THEN ItemShare(m, line)
               ELSE ApplyPct(ItemShare(m, CHOOSE i \in Items : i.id = line.parent), line.pct)
<1>1. net \in Int
  BY NetIsNumber
<1>2. \A l \in Shown : LineOf(l.id) = l
  BY ShownAreLines, EachLine
<1>3. row.net = net /\ row.share = [id \in {l.id : l \in Shown} |-> Part(LineOf(id))]
  <2>1. row = [net |-> net, share |-> [id \in {l.id : l \in Shown} |-> Part(LineOf(id))]]
    BY DEF MonthlyDistribution
  <2> HIDE DEF row, net, Part
  <2> QED BY <2>1
<1> HIDE DEF row, net, Part
<1>4. ASSUME NEW l \in Shown PROVE row.share[l.id] = Part(l)
  <2>1. l.id \in {k.id : k \in Shown} /\ LineOf(l.id) = l
    BY <1>2
  <2> HIDE DEF LineOf
  <2> QED BY <1>3, <2>1
<1>5. ASSUME NEW a \in Int, NEW l \in lines PROVE ApplyPct(a, l.pct) \in Int
  <2> DEFINE q == l.pct
  <2>1. q \in Int
    BY EachLine
  <2> HIDE DEF q
  <2>2. ApplyPct(a, q) \in Int
    BY <2>1, RoundedNear
  <2> QED BY <2>2 DEF q
<1>6. ASSUME NEW item \in Items
      PROVE  row.share[item.id] = ApplyPct(net, item.pct) /\ row.share[item.id] \in Int
  <2>1. item \in Shown /\ item \in lines /\ item.parent = NoParent
    BY ShownAreLines DEF Items
  <2>2. row.share[item.id] = ApplyPct(net, item.pct)
    BY <1>4, <2>1 DEF ItemShare, Part, net
  <2> QED BY <1>1, <1>5, <2>1, <2>2
<1>7. ASSUME NEW item \in Items, NEW l \in SubitemsOf(item)
      PROVE  /\ row.share[l.id] = ApplyPct(row.share[item.id], l.pct)
             /\ row.share[l.id] \in Int
  <2>1. l.parent = item.id /\ l.parent # NoParent /\ l \in Shown /\ l \in lines /\ item \in lines
    BY ShownAreLines, EachLine DEF SubitemsOf, NoParent
  <2>2. (CHOOSE i \in Items : i.id = l.parent) = item
    BY ShownAreLines, EachLine, <2>1
  <2>3. Part(l) = ApplyPct(ItemShare(m, item), l.pct)
    BY <2>1, <2>2 DEF Part
  <2>4. ItemShare(m, item) = row.share[item.id]
    BY <1>6 DEF ItemShare, net
  <2>5. row.share[l.id] = ApplyPct(row.share[item.id], l.pct)
    BY <1>4, <2>1, <2>3, <2>4
  <2> QED BY <1>5, <1>6, <2>1, <2>5
<1>8. row.net = net /\ DOMAIN row.share = {l.id : l \in Shown}
  BY <1>3
<1> QED BY <1>6, <1>7, <1>8 DEF row, net

\* Lines that make up one hundred percent get an amount among them, whatever it is.
LEMMA LinesAddUp ==
    ASSUME DistributionAssumption, DistributionTypeOK, NEW parts \in SUBSET lines, NEW a \in Int,
           NEW given, \A l \in parts : given[l.id] = ApplyPct(a, l.pct),
           SumOfPercents(parts) = FullPct
    PROVE  2 * Magnitude(SumOver([l \in parts |-> given[l.id]], parts) - a) <= Cardinality(parts)
<1> DEFINE share == [l \in parts |-> given[l.id]]
<1>1. IsFiniteSet(parts) /\ \A l \in parts : l.pct \in Int
  BY EachLine, FS_Subset
<1>2. \A l \in parts : share[l] = ApplyPct(a, l.pct)
  OBVIOUS
<1> HIDE DEF share
<1>3. 2 * Magnitude(SumOver(share, parts) - a) <= Cardinality(parts)
  BY <1>1, <1>2, PartsAddUp
<1> QED BY <1>3 DEF share

\* The shares of every month add up, of the items and of the subitems of each.
LEMMA TypedShares ==
    ASSUME DistributionAssumption, DistributionTypeOK PROVE SharesAddUp
<1> DEFINE near(sum, whole, parts) == 2 * Magnitude(sum - whole) <= Cardinality(parts)
           sumOf(row, parts) == SumOver([l \in parts |-> row.share[l.id]], parts)
<1>1. ASSUME AddUpToFull, NEW m \in Months
      PROVE  LET row == MonthlyDistribution(m)
             IN  /\ near(sumOf(row, Items), row.net, Items)
                 /\ \A item \in Items : SubitemsOf(item) # {} =>
                       near(sumOf(row, SubitemsOf(item)), row.share[item.id], SubitemsOf(item))
  <2> DEFINE row == MonthlyDistribution(m)
  <2>1. /\ row.net = NetIncome(m)
        /\ \A item \in Items : /\ row.share[item.id] = ApplyPct(row.net, item.pct)
                               /\ row.share[item.id] \in Int
        /\ \A item \in Items : \A l \in SubitemsOf(item) :
              row.share[l.id] = ApplyPct(row.share[item.id], l.pct)
    BY RowOfMonth
  <2>2. row.net \in Int
    BY <2>1, NetIsNumber
  <2> HIDE DEF row
  <2> DEFINE given == row.share
  <2>3. near(sumOf(row, Items), row.net, Items)
    <3>1. Items \in SUBSET lines /\ SumOfPercents(Items) = FullPct
      BY <1>1, ShownAreLines DEF AddUpToFull
    <3>2. \A l \in Items : given[l.id] = ApplyPct(row.net, l.pct)
      BY <2>1
    <3> HIDE DEF given
    <3>3. 2 * Magnitude(SumOver([l \in Items |-> given[l.id]], Items) - row.net)
             <= Cardinality(Items)
      BY <2>2, <3>1, <3>2, LinesAddUp
    <3> QED BY <3>3 DEF given
  <2>4. ASSUME NEW item \in Items, SubitemsOf(item) # {}
        PROVE  near(sumOf(row, SubitemsOf(item)), row.share[item.id], SubitemsOf(item))
    <3> DEFINE subs == SubitemsOf(item)
               a == row.share[item.id]
    <3>1. subs \in SUBSET lines /\ SumOfPercents(subs) = FullPct /\ a \in Int
      BY <1>1, <2>1, <2>4, ShownAreLines DEF AddUpToFull
    <3>2. \A l \in subs : given[l.id] = ApplyPct(a, l.pct)
      BY <2>1
    <3> HIDE DEF given, subs, a
    <3>3. 2 * Magnitude(SumOver([l \in subs |-> given[l.id]], subs) - a) <= Cardinality(subs)
      BY <3>1, <3>2, LinesAddUp
    <3> QED BY <3>3 DEF given, subs, a
  <2> QED BY <2>3, <2>4 DEF row
<1> QED BY <1>1 DEF SharesAddUp

-----------------------------------------------------------------------------
(* Every step keeps the types. *)

Lines == [id : Nat \ {0}, parent : Nat, name : LineNames, pct : Int, active : BOOLEAN]

\* At the beginning nothing is booked and nothing is fixed.
LEMMA DistributionInitTyped ==
    ASSUME DistributionAssumption, DistributionInit PROVE DistributionTypeOK
<1>1. now \in Months /\ entries \in [Months -> Seq(Amounts)]
  BY DEF DistributionAssumption, DistributionInit, Months
<1>2. LinesOK(lines) /\ lineIds \in Nat /\ \A l \in lines : l.id <= lineIds
  <2>1. IsFiniteSet(FirstLines)
    BY DEF DistributionAssumption, LinesOK
  <2> QED BY <2>1, FS_CardinalityType DEF DistributionAssumption, DistributionInit
<1>3. FixedOK(fixed)
  <2>1. /\ NotFixed.auto \in BOOLEAN /\ NotFixed.live \in BOOLEAN /\ NotFixed.net \in Int
        /\ \A id \in DOMAIN NotFixed.share : NotFixed.share[id] \in Int
    BY DEF NotFixed
  <2>2. fixed = [m \in Months |-> NotFixed]
    BY DEF DistributionInit
  <2>3. fixed = [m \in Months |-> fixed[m]]
    BY <2>2
  <2> QED BY <2>1, <2>2, <2>3 DEF FixedOK
<1>4. freezing \in Seq(Months)
  BY DEF DistributionInit
<1> QED BY <1>1, <1>2, <1>3, <1>4 DEF DistributionTypeOK

\* A month's row, as it is fixed.
LEMMA FrozenRowType ==
    ASSUME DistributionAssumption, DistributionTypeOK, NEW m \in Months, NEW auto \in BOOLEAN
    PROVE  LET row == FrozenRow(m, auto)
           IN  /\ row.auto \in BOOLEAN /\ row.live \in BOOLEAN /\ row.net \in Int
               /\ \A id \in DOMAIN row.share : row.share[id] \in Int
<1> DEFINE row == MonthlyDistribution(m)
<1>1. row.net \in Int
  BY RowOfMonth, NetIsNumber
<1>2. ASSUME NEW id \in DOMAIN row.share PROVE row.share[id] \in Int
  <2>1. PICK l \in Shown : id = l.id
    BY <1>2, RowOfMonth
  <2>2. CASE l \in Items
    BY <2>1, <2>2, RowOfMonth
  <2>3. CASE l \notin Items
    <3>1. PICK item \in Items : l \in SubitemsOf(item)
      BY <2>3 DEF Shown
    <3> QED BY <2>1, <3>1, RowOfMonth
  <2> QED BY <2>2, <2>3
<1> HIDE DEF row
<1>3. FrozenRow(m, auto) = [auto |-> auto, net |-> row.net, share |-> row.share, live |-> FALSE]
  BY DEF FrozenRow, row
<1> QED BY <1>1, <1>2, <1>3

\* Fixing a month, or giving it back.
LEMMA FixedRowTyped ==
    ASSUME NEW rows, FixedOK(rows), NEW m \in Months, NEW row,
           row.auto \in BOOLEAN /\ row.live \in BOOLEAN /\ row.net \in Int,
           \A id \in DOMAIN row.share : row.share[id] \in Int
    PROVE  FixedOK([rows EXCEPT ![m] = row])
<1> DEFINE new == [rows EXCEPT ![m] = row]
<1>1. new = [k \in Months |-> IF k = m THEN row ELSE rows[k]]
  BY DEF FixedOK
<1> HIDE DEF new
<1>2. \A k \in Months : new[k] = IF k = m THEN row ELSE rows[k]
  BY <1>1
<1>3. new = [k \in Months |-> new[k]]
  BY <1>1
<1>4. FixedOK(new)
  BY <1>2, <1>3 DEF FixedOK
<1> QED BY <1>4 DEF new

\* A record of a month.
LEMMA AddEntryTyped ==
    ASSUME DistributionTypeOK, NEW m \in Months, NEW amount \in Amounts, AddEntry(m, amount)
    PROVE  DistributionTypeOK'
<1>1. entries' \in [Months -> Seq(Amounts)]
  <2>1. entries[m] \in Seq(Amounts)
    BY DEF DistributionTypeOK
  <2>2. Append(entries[m], amount) \in Seq(Amounts)
    BY <2>1
  <2> QED BY <2>2 DEF DistributionTypeOK, AddEntry
<1> QED BY <1>1 DEF DistributionTypeOK, AddEntry

\* A record less.
LEMMA DeleteEntryTyped ==
    ASSUME DistributionTypeOK, NEW m \in Months, NEW n, DeleteEntry(m, n)
    PROVE  DistributionTypeOK'
<1> DEFINE s == entries[m]
<1>1. s \in Seq(Amounts) /\ n \in DOMAIN s
  BY DEF DistributionTypeOK, DeleteEntry
<1> HIDE DEF s
<1>2. Len(s) \in Nat /\ n \in 1 .. Len(s)
  BY <1>1, LenProperties
<1>3. SubSeq(s, 1, n - 1) \in Seq(Amounts) /\ SubSeq(s, n + 1, Len(s)) \in Seq(Amounts)
  BY <1>1, <1>2, SubSeqProperties
<1>4. RemoveAt(s, n) \in Seq(Amounts)
  BY <1>3 DEF RemoveAt
<1>5. entries' \in [Months -> Seq(Amounts)]
  BY <1>4 DEF DistributionTypeOK, DeleteEntry, s
<1> QED BY <1>5 DEF DistributionTypeOK, DeleteEntry

\* A line more: its id is above all others, its parent an item that is there.
LEMMA CreateLineTyped ==
    ASSUME DistributionAssumption, DistributionTypeOK, NEW parent, NEW name \in LineNames,
           NEW pct \in Percents, CreateLine(parent, name, pct)
    PROVE  DistributionTypeOK'
<1> DEFINE new == [id |-> lineIds + 1, parent |-> parent, name |-> name, pct |-> pct,
                   active |-> TRUE]
<1>1. lineIds' = lineIds + 1 /\ lines' = lines \cup {new}
  BY DEF CreateLine
<1>2. LinesOK(lines) /\ lineIds \in Nat /\ \A l \in lines : l.id <= lineIds /\ l.id \in Nat
  BY DEF DistributionTypeOK, LinesOK
<1>3. parent = NoParent \/ \E i \in lines : i.id = parent /\ i.parent = NoParent
  BY DEF CreateLine
<1>4. parent \in Nat
  BY <1>2, <1>3 DEF NoParent
<1>5. new \in Lines
  BY <1>2, <1>4 DEF Lines, DistributionAssumption
<1>6. new.id = lineIds + 1 /\ new.parent = parent
  OBVIOUS
<1> HIDE DEF new
<1>7. IsFiniteSet(lines')
  BY <1>1, <1>2, FS_AddElement DEF LinesOK
<1>8. lines' \subseteq Lines
  BY <1>1, <1>2, <1>5 DEF LinesOK, Lines
<1>9. \A k, l \in lines' : k.id = l.id => k = l
  BY <1>1, <1>2, <1>6 DEF LinesOK
<1>10. \A l \in lines' :
          l.parent = NoParent \/ \E i \in lines' : i.id = l.parent /\ i.parent = NoParent
  BY <1>1, <1>2, <1>3, <1>6 DEF LinesOK
<1>11. LinesOK(lines')
  BY <1>7, <1>8, <1>9, <1>10 DEF LinesOK, Lines
<1>12. lineIds' \in Nat /\ \A l \in lines' : l.id <= lineIds'
  BY <1>1, <1>2, <1>6
<1> QED BY <1>11, <1>12 DEF DistributionTypeOK, CreateLine

\* A line that changed keeps its id and its parent.
LEMMA ChangedTyped ==
    ASSUME DistributionTypeOK, NEW line \in lines, NEW to \in Lines,
           to.id = line.id, to.parent = line.parent, Changed(line, to)
    PROVE  LinesOK(lines') /\ \A l \in lines' : l.id <= lineIds
<1>1. LinesOK(lines) /\ \A l \in lines : l.id <= lineIds
  BY DEF DistributionTypeOK
<1>2. lines' = (lines \ {line}) \cup {to}
  BY DEF Changed
<1>3. IsFiniteSet(lines')
  <2>1. IsFiniteSet(lines \ {line})
    BY <1>1, FS_Subset DEF LinesOK
  <2> QED BY <1>2, <2>1, FS_AddElement
<1>4. lines' \subseteq Lines
  BY <1>1, <1>2 DEF LinesOK, Lines
<1>5. \A k, l \in lines' : k.id = l.id => k = l
  BY <1>1, <1>2 DEF LinesOK
<1>6. \A l \in lines' :
          l.parent = NoParent \/ \E i \in lines' : i.id = l.parent /\ i.parent = NoParent
  <2>1. \A l \in lines :
            l.parent = NoParent \/ \E i \in lines : i.id = l.parent /\ i.parent = NoParent
    BY <1>1 DEF LinesOK
  <2>2. \A i \in lines : \E j \in lines' : j.id = i.id /\ j.parent = i.parent
    BY <1>2
  <2>3. \A l \in lines' : \E k \in lines : k.id = l.id /\ k.parent = l.parent
    BY <1>2
  <2> QED BY <2>1, <2>2, <2>3
<1>7. \A l \in lines' : l.id <= lineIds
  BY <1>1, <1>2
<1>8. LinesOK(lines')
  BY <1>3, <1>4, <1>5, <1>6 DEF LinesOK, Lines
<1> QED BY <1>7, <1>8

\* Another percentage.
LEMMA UpdatePctTyped ==
    ASSUME DistributionAssumption, DistributionTypeOK, NEW line \in lines, NEW pct \in Percents,
           UpdatePct(line, pct)
    PROVE  DistributionTypeOK'
<1> DEFINE to == [line EXCEPT !.pct = pct]
<1>1. line \in Lines /\ pct \in Int
  BY DEF DistributionTypeOK, LinesOK, Lines, DistributionAssumption
<1>2. to \in Lines /\ to.id = line.id /\ to.parent = line.parent
  BY <1>1 DEF Lines
<1>3. Changed(line, to)
  BY DEF UpdatePct
<1> HIDE DEF to
<1>4. LinesOK(lines') /\ \A l \in lines' : l.id <= lineIds
  BY <1>2, <1>3, ChangedTyped
<1> QED BY <1>4 DEF DistributionTypeOK, UpdatePct

\* Another name.
LEMMA UpdateNameTyped ==
    ASSUME DistributionTypeOK, NEW line \in lines, NEW name \in LineNames, UpdateName(line, name)
    PROVE  DistributionTypeOK'
<1> DEFINE to == [line EXCEPT !.name = name]
<1>1. line \in Lines
  BY DEF DistributionTypeOK, LinesOK, Lines
<1>2. to \in Lines /\ to.id = line.id /\ to.parent = line.parent
  BY <1>1 DEF Lines
<1>3. Changed(line, to)
  BY DEF UpdateName
<1> HIDE DEF to
<1>4. LinesOK(lines') /\ \A l \in lines' : l.id <= lineIds
  BY <1>2, <1>3, ChangedTyped
<1> QED BY <1>4 DEF DistributionTypeOK, UpdateName

\* A line goes, and with an item its subitems: none is left without its item.
LEMMA DeleteLineTyped ==
    ASSUME DistributionTypeOK, NEW line \in lines, DeleteLine(line)
    PROVE  DistributionTypeOK'
<1>1. LinesOK(lines) /\ \A l \in lines : l.id <= lineIds
  BY DEF DistributionTypeOK
<1>2. lines' = {l \in lines : l # line /\ l.parent # line.id}
  BY DEF DeleteLine
<1>3. IsFiniteSet(lines')
  BY <1>1, <1>2, FS_Subset DEF LinesOK
<1>4. \A l \in lines' :
          l.parent = NoParent \/ \E i \in lines' : i.id = l.parent /\ i.parent = NoParent
  <2> SUFFICES ASSUME NEW l \in lines', l.parent # NoParent
               PROVE  \E i \in lines' : i.id = l.parent /\ i.parent = NoParent
    OBVIOUS
  <2>1. PICK i \in lines : i.id = l.parent /\ i.parent = NoParent
    BY <1>1, <1>2 DEF LinesOK
  <2>2. i # line /\ i.parent # line.id
    <3>1. line.id # NoParent
      BY <1>1 DEF LinesOK, NoParent
    <3> QED BY <1>2, <2>1, <3>1
  <2> QED BY <1>2, <2>1, <2>2
<1>5. LinesOK(lines')
  BY <1>1, <1>2, <1>3, <1>4 DEF LinesOK
<1> QED BY <1>1, <1>2, <1>5 DEF DistributionTypeOK, DeleteLine

\* The months that maintenance looks at are months.
LEMMA FreezeClosedMonthsTyped ==
    ASSUME DistributionAssumption, DistributionTypeOK, FreezeClosedMonths PROVE DistributionTypeOK'
<1> DEFINE S == {i \in 1 .. now - 1 : entries[i] # <<>>}
           t == [m \in S |-> m]
<1>1. now - 1 \in Nat /\ S \subseteq Months
  BY DEF DistributionTypeOK, DistributionAssumption, Months
<1>2. Ids(S)
  BY <1>1, IdsOfInterval
<1> HIDE DEF S
<1>3. DOMAIN t = S
  OBVIOUS
<1>4. /\ DOMAIN Reinserted(t) = 1 .. Cardinality(S) /\ Cardinality(S) \in Nat
      /\ \A k \in DOMAIN Reinserted(t) : \E i \in S : Reinserted(t)[k] = t[i]
  <2> HIDE DEF t
  <2> QED BY <1>2, <1>3, ReinsertedRows
<1>5. \A k \in DOMAIN Reinserted(t) : Reinserted(t)[k] \in Months
  BY <1>1, <1>4
<1>6. Reinserted(t) = [k \in 1 .. Cardinality(S) |-> Reinserted(t)[k]]
  BY <1>4 DEF Reinserted
<1> HIDE DEF t
<1>7. Reinserted(t) \in Seq(Months)
  BY <1>4, <1>5, <1>6, IsASeq
<1>8. freezing' = Reinserted(t)
  BY DEF FreezeClosedMonths, t, S
<1> QED BY <1>7, <1>8 DEF DistributionTypeOK, FreezeClosedMonths

\* The next of them is fixed, unless it is.
LEMMA FreezeNextTyped ==
    ASSUME DistributionAssumption, DistributionTypeOK, FreezeNext PROVE DistributionTypeOK'
<1>1. freezing \in Seq(Months) /\ freezing # <<>>
  BY DEF DistributionTypeOK, FreezeNext, Idle
<1>2. Head(freezing) \in Months /\ Tail(freezing) \in Seq(Months)
  BY <1>1
<1>3. FixedOK([fixed EXCEPT ![Head(freezing)] = FrozenRow(Head(freezing), TRUE)])
  BY <1>2, FrozenRowType, FixedRowTyped DEF DistributionTypeOK
<1>4. FixedOK(fixed')
  BY <1>3 DEF DistributionTypeOK, FreezeNext
<1> QED BY <1>2, <1>4 DEF DistributionTypeOK, FreezeNext

\* The structure and the fixed rows of a backup.
LEMMA ImportDistributionTyped ==
    ASSUME DistributionAssumption, DistributionTypeOK, NEW backup \in LineBackups,
           ImportDistribution(backup)
    PROVE  DistributionTypeOK'
<1>1. lines' = backup.lines /\ LinesOK(lines') /\ FixedOK(fixed')
  BY DEF ImportDistribution, DistributionAssumption
<1>2. lineIds' \in Nat /\ \A l \in lines' : l.id <= lineIds'
  <2>1. CASE backup.lines = {}
    BY <1>1, <2>1 DEF DistributionTypeOK, ImportDistribution
  <2>2. CASE backup.lines # {}
    <3> DEFINE S == {l.id : l \in backup.lines}
    <3>1. Ids(S) /\ S # {}
      <4>1. IsFiniteSet(S)
        <5> DEFINE L == backup.lines
                   f == [l \in L |-> l.id]
        <5>1. f \in Surjection(L, S)
          BY DEF Surjection
        <5>2. IsFiniteSet(L)
          BY <1>1 DEF LinesOK
        <5> HIDE DEF f, L, S
        <5> QED BY <5>1, <5>2, FS_Surjection
      <4> QED BY <1>1, <2>2, <4>1 DEF LinesOK, Ids
    <3>2. lineIds' = Max(S)
      BY <2>2 DEF ImportDistribution
    <3> HIDE DEF S
    <3>3. Max(S) \in S /\ \A i \in S : i <= Max(S)
      <4>1. MaxId(S) \in S /\ \A i \in S : MaxId(S) >= i
        BY <3>1, MaxIdBounds DEF Ids
      <4>2. Max(S) \in S /\ \A i \in S : Max(S) >= i
        BY <4>1 DEF Max
      <4> QED BY <3>1, <4>2 DEF Ids
    <3> QED BY <1>1, <3>1, <3>2, <3>3 DEF S, Ids
  <2> QED BY <2>1, <2>2
<1> QED BY <1>1, <1>2 DEF DistributionTypeOK, ImportDistribution

\* So does every step.
LEMMA DistributionStepTyped ==
    ASSUME DistributionAssumption, DistributionTypeOK, [DistributionNext]_distributionVars
    PROVE  DistributionTypeOK'
<1>1. ASSUME NEW m \in Months, NEW amount \in Amounts, AddEntry(m, amount)
      PROVE  DistributionTypeOK'
  BY <1>1, AddEntryTyped
<1>2. ASSUME NEW m \in Months, NEW n, DeleteEntry(m, n) PROVE DistributionTypeOK'
  BY <1>2, DeleteEntryTyped
<1>3. ASSUME NEW m \in Months, Freeze(m) PROVE DistributionTypeOK'
  <2>1. FixedOK(fixed')
    BY <1>3, FrozenRowType, FixedRowTyped DEF DistributionTypeOK, Freeze
  <2> QED BY <1>3, <2>1 DEF DistributionTypeOK, Freeze
<1>4. ASSUME NEW m \in Months, Unfreeze(m) PROVE DistributionTypeOK'
  <2>1. /\ NotFixed.auto \in BOOLEAN /\ NotFixed.live \in BOOLEAN /\ NotFixed.net \in Int
        /\ \A id \in DOMAIN NotFixed.share : NotFixed.share[id] \in Int
    BY DEF NotFixed
  <2>2. FixedOK(fixed')
    BY <1>4, <2>1, FixedRowTyped DEF DistributionTypeOK, Unfreeze
  <2> QED BY <1>4, <2>2 DEF DistributionTypeOK, Unfreeze
<1>5. ASSUME NextMonth PROVE DistributionTypeOK'
  BY <1>5 DEF DistributionTypeOK, NextMonth, Months, DistributionAssumption
<1>6. ASSUME NEW parent, NEW name \in LineNames, NEW pct \in Percents,
             CreateLine(parent, name, pct)
      PROVE  DistributionTypeOK'
  BY <1>6, CreateLineTyped
<1>7. ASSUME NEW line \in lines, NEW pct \in Percents, UpdatePct(line, pct)
      PROVE  DistributionTypeOK'
  BY <1>7, UpdatePctTyped
<1>8. ASSUME NEW line \in lines, NEW name \in LineNames, UpdateName(line, name)
      PROVE  DistributionTypeOK'
  BY <1>8, UpdateNameTyped
<1>9. ASSUME NEW line \in lines, DeleteLine(line) PROVE DistributionTypeOK'
  BY <1>9, DeleteLineTyped
<1>10. ASSUME FreezeClosedMonths PROVE DistributionTypeOK'
  BY <1>10, FreezeClosedMonthsTyped
<1>11. ASSUME FreezeNext PROVE DistributionTypeOK'
  BY <1>11, FreezeNextTyped
<1>12. ASSUME FreezingEnds PROVE DistributionTypeOK'
  BY <1>12 DEF DistributionTypeOK, FreezingEnds
<1>13. ASSUME NEW backup \in LineBackups, ImportDistribution(backup) PROVE DistributionTypeOK'
  BY <1>13, ImportDistributionTyped
<1>14. CASE UNCHANGED distributionVars
  BY <1>14 DEF DistributionTypeOK, distributionVars
<1> QED
  BY <1>1, <1>2, <1>3, <1>4, <1>5, <1>6, <1>7, <1>8, <1>9, <1>10, <1>11, <1>12, <1>13, <1>14
  DEF DistributionNext

-----------------------------------------------------------------------------

\* The lines stay a structure of items and subitems, each with its own id, and
\* the rows that are fixed are rows (DistributionTypeOK).
THEOREM DistributionTyped ==
    ASSUME DistributionAssumption PROVE DistributionSpec => []DistributionTypeOK
<1>1. DistributionInit => DistributionTypeOK
  BY DistributionInitTyped
<1>2. DistributionTypeOK /\ [DistributionNext]_distributionVars => DistributionTypeOK'
  BY DistributionStepTyped
<1> QED BY <1>1, <1>2, PTL DEF DistributionSpec

\* Whatever the income, the items and the percentages: parts that make up one
\* hundred percent add up to the whole within half a minor unit for each (SharesAddUp).
THEOREM DistributionAddsUp ==
    ASSUME DistributionAssumption PROVE DistributionSpec => []SharesAddUp
<1>1. DistributionTypeOK => SharesAddUp
  BY TypedShares
<1> QED BY <1>1, DistributionTyped, PTL

\* No edit of a record or a line and no maintenance changes a fixed month (FixedRowsStay).
THEOREM FixedMonthsStay ==
    ASSUME DistributionAssumption PROVE DistributionSpec => FixedRowsStay
<1> DEFINE Stays == \A m \in Months :
        IsFixed(m) /\ fixed'[m] # fixed[m] =>
            \/ fixed'[m] = NotFixed /\ ~fixed[m].auto
            \/ \E backup \in LineBackups : ImportDistribution(backup)
<1>1. DistributionTypeOK /\ [DistributionNext]_distributionVars => [Stays]_distributionVars
  <2> SUFFICES ASSUME DistributionTypeOK, [DistributionNext]_distributionVars,
                      NEW m \in Months, IsFixed(m), fixed'[m] # fixed[m],
                      \A backup \in LineBackups : ~ImportDistribution(backup)
               PROVE  fixed'[m] = NotFixed /\ ~fixed[m].auto
    OBVIOUS
  <2>1. m \in DOMAIN fixed
    BY DEF DistributionTypeOK, FixedOK
  <2>2. ASSUME NEW k \in Months, Freeze(k) PROVE FALSE
    BY <2>2, <2>1 DEF Freeze
  <2>3. ASSUME NEW k \in Months, Unfreeze(k) PROVE fixed'[m] = NotFixed /\ ~fixed[m].auto
    BY <2>3, <2>1 DEF Unfreeze
  <2>4. ASSUME FreezeNext PROVE FALSE
    BY <2>4, <2>1 DEF FreezeNext
  <2>5. fixed' # fixed
    OBVIOUS
  <2> QED
    BY <2>2, <2>3, <2>4, <2>5
    DEF DistributionNext, distributionVars, AddEntry, DeleteEntry, NextMonth, CreateLine,
        UpdatePct, UpdateName, DeleteLine, FreezeClosedMonths, FreezingEnds
<1>2. [][Stays]_distributionVars => FixedRowsStay
  BY DEF FixedRowsStay
<1> QED BY <1>1, <1>2, DistributionTyped, PTL DEF DistributionSpec

-----------------------------------------------------------------------------
(* Budgets: a forecast of the code, over whole days and rounded, still comes true. *)

\* A product is monotonic, and strictly so in what it is multiplied by.
LEMMA ProductGrows ==
    ASSUME NEW f \in Nat \ {0}, NEW x \in Int, NEW y \in Int
    PROVE  /\ f * x \in Int /\ f * y \in Int
           /\ x <= y <=> f * x <= f * y
<1>1. ASSUME NEW d \in Nat PROVE f * d >= 0
  OBVIOUS
<1>2. ASSUME NEW d \in Nat, d >= 1 PROVE f * d >= 1
  BY <1>2
<1>3. x <= y => f * x <= f * y
  <2>1. x <= y => y - x \in Nat
    OBVIOUS
  <2>2. f * (y - x) = f * y - f * x
    OBVIOUS
  <2> QED BY <1>1, <2>1, <2>2
<1>4. y < x => f * y < f * x
  <2>1. y < x => x - y \in Nat /\ x - y >= 1
    OBVIOUS
  <2>2. f * (x - y) = f * x - f * y
    OBVIOUS
  <2> QED BY <1>2, <2>1, <2>2
<1> QED BY <1>3, <1>4

\* Rounding leaves a multiple as it is.
LEMMA RoundedExactly ==
    ASSUME NEW s \in Int, NEW n \in Nat \ {0}
    PROVE  Rounded(s * n, n) = s
<1>1. s * n \in Int /\ s * n = n * s
  OBVIOUS
<1>2. /\ (s * n) \div n \in Int
      /\ n * ((s * n) \div n) <= s * n /\ s * n < n * ((s * n) \div n) + n
  BY <1>1, Quotient
<1> DEFINE q == (s * n) \div n
<1>3. q = s
  <2>1. n * q <= n * s /\ ~ (n * (q + 1) <= n * s)
    <3>1. q \in Int /\ n * (q + 1) = n * q + n
      BY <1>2
    <3> QED BY <1>1, <1>2, <3>1
  <2> HIDE DEF q
  <2>2. q \in Int /\ q + 1 \in Int
    BY <1>2 DEF q
  <2>3. q <= s /\ ~ (q + 1 <= s)
    BY <2>1, <2>2, ProductGrows
  <2> QED BY <2>2, <2>3
<1>4. (s * n) % n = 0
  <2>1. ASSUME NEW a \in Int PROVE a % n \in Int /\ a = n * (a \div n) + (a % n)
    OBVIOUS
  <2>2. (s * n) % n \in Int /\ s * n = n * ((s * n) \div n) + ((s * n) % n)
    BY <1>1, <2>1
  <2> QED BY <1>1, <1>3, <2>2
<1> QED BY <1>3, <1>4 DEF Rounded

\* A quotient that is rounded to more than a number is more than that number.
LEMMA RoundedAbove ==
    ASSUME NEW a \in Int, NEW n \in Nat \ {0}, NEW m \in Int
    PROVE  /\ Rounded(a, n) \in Int
           /\ Rounded(a, n) > m => a > n * m
<1> DEFINE q == a \div n
           r == a % n
<1>1. q \in Int /\ r \in Int /\ a = n * q + r /\ 0 <= r /\ r < n
  OBVIOUS
<1>2. Rounded(a, n) = (IF 2 * r > n \/ (2 * r = n /\ q % 2 = 1) THEN q + 1 ELSE q)
  BY DEF Rounded
<1> HIDE DEF q, r
<1>3. Rounded(a, n) \in Int
  BY <1>1, <1>2
<1>4. ASSUME Rounded(a, n) > m PROVE a > n * m
  <2>1. CASE Rounded(a, n) = q
    <3>1. n * (m + 1) <= n * q
      BY <1>1, <1>4, <2>1, ProductGrows
    <3>2. n * (m + 1) = n * m + n /\ n * m \in Int /\ n * q \in Int
      BY <1>1
    <3> QED BY <1>1, <3>1, <3>2
  <2>2. CASE Rounded(a, n) = q + 1 /\ r > 0
    <3>1. n * m <= n * q
      BY <1>1, <1>4, <2>2, ProductGrows
    <3>2. n * m \in Int /\ n * q \in Int
      BY <1>1
    <3> QED BY <1>1, <2>2, <3>1, <3>2
  <2>3. r = 0 => Rounded(a, n) = q
    BY <1>1, <1>2
  <2> QED BY <1>1, <1>2, <2>1, <2>2, <2>3
<1> QED BY <1>3, <1>4

\* What is spent too fast is gone before the end: if s in p days leads above the limit after n,
\* then the rest of the limit lasts less than the rest of the days.
LEMMA GoneBeforeTheEnd ==
    ASSUME NEW s \in Nat, s > 0, NEW lim \in Int, NEW p \in Nat \ {0}, NEW n \in Int,
           s * n > p * lim
    PROVE  ((lim - s) * p) \div s < n - p
<1> DEFINE a == (lim - s) * p
           d == a \div s
<1>1. a \in Int /\ a = p * lim - s * p
  OBVIOUS
<1>2. s * (n - p) = s * n - s * p /\ s * n \in Int /\ s * p \in Int /\ p * lim \in Int
  OBVIOUS
<1>3. d \in Int /\ s * d <= a
  <2> HIDE DEF a
  <2>1. s \in Nat \ {0}
    OBVIOUS
  <2> QED BY <1>1, <2>1, Quotient
<1>4. s * d \in Int
  BY <1>3
<1> HIDE DEF d, a
<1>5. s * d < s * (n - p)
  BY <1>1, <1>2, <1>3, <1>4
<1>6. d < n - p
  <2>1. n - p <= d <=> s * (n - p) <= s * d
    BY <1>3, ProductGrows
  <2>2. n - p \in Int /\ s * (n - p) \in Int
    OBVIOUS
  <2> QED BY <1>3, <1>4, <1>5, <2>1, <2>2
<1> QED BY <1>6 DEF d, a

\* The larger of two numbers.
LEMMA LargerOfTwo ==
    ASSUME NEW x \in Int
    PROVE  /\ Max({1, x}) \in Nat \ {0}
           /\ x >= 1 => Max({1, x}) = x
<1>1. PICK m \in {1, x} : \A y \in {1, x} : m >= y
  <2>1. x >= 1 \/ 1 >= x
    OBVIOUS
  <2> QED BY <2>1
<1>2. Max({1, x}) \in {1, x} /\ \A y \in {1, x} : Max({1, x}) >= y
  BY <1>1 DEF Max
<1> QED BY <1>2

\* The amount of some records is the total of a column.
LEMMA AmountIsTotal ==
    ASSUME NEW rs, IsFiniteSet(DOMAIN rs)
    PROVE  View!Amount(rs) = Total([i \in DOMAIN rs |-> rs[i].base], DOMAIN rs)
<1> DEFINE S == DOMAIN rs
           f == [i \in S |-> rs[i].base]
           Eq(h) == h = [s \in SUBSET S |-> IF s = {} THEN 0
                                            ELSE rs[Pick(s)].base + h[s \ {Pick(s)}]]
           iter == CHOOSE h : Eq(h)
<1>1. \A s \in SUBSET S : s # {} => f[Pick(s)] = rs[Pick(s)].base
  BY PickLeaves
<1>2. ASSUME NEW h
      PROVE  SumsUp(h, f, S) <=> Eq(h)
  <2>1. [s \in SUBSET S |-> IF s = {} THEN 0 ELSE f[Pick(s)] + h[s \ {Pick(s)}]]
          = [s \in SUBSET S |-> IF s = {} THEN 0 ELSE rs[Pick(s)].base + h[s \ {Pick(s)}]]
    <3> HIDE DEF f
    <3> QED BY <1>1
  <2> QED BY <2>1 DEF SumsUp
<1>3. View!Amount(rs) = iter[S]
  BY Zenon DEF View!Amount, View!MapThenSumSet, View!MapThenFoldSet, Pick
<1>4. \E h : Eq(h)
  <2> HIDE DEF Eq, f
  <2> QED BY <1>2, SumExists
<1>5. Eq(iter)
  BY <1>4
<1>6. Total(f, S) = iter[S]
  <2>1. S \in SUBSET S
    OBVIOUS
  <2> HIDE DEF Eq, f, iter
  <2> QED BY <1>2, <1>5, <2>1, TotalOnSubsets
<1> QED BY <1>3, <1>6

\* What a budget has spent is a natural number.
LEMMA SpentIsNumber ==
    ASSUME NEW b, IsFiniteSet(DOMAIN records), \A i \in DOMAIN records : records[i].base \in Nat
    PROVE  Spent(b) \in Nat
<1> DEFINE rs == SpentOn(b)
           col == [i \in DOMAIN rs |-> rs[i].base]
<1>1. DOMAIN rs \subseteq DOMAIN records /\ \A i \in DOMAIN rs : rs[i] = records[i]
  BY DEF SpentOn, View!Where, View!Within, View!Own
<1>2. IsFiniteSet(DOMAIN rs)
  BY <1>1, FS_Subset
<1> HIDE DEF rs
<1>3. Total(col, DOMAIN rs) \in Nat
  BY <1>1, <1>2, TotalType
<1>4. View!Amount(rs) = Total(col, DOMAIN rs)
  BY <1>2, AmountIsTotal
<1> QED BY <1>3, <1>4 DEF Spent, rs

\* A forecast comes true of whatever a possible budget has spent.
LEMMA ForecastComesTrue ==
    ASSUME NEW b, b \in BudgetRow, b.from <= b.to, b.limit > 0, LastDate \in Nat,
           Spent(b) \in Nat, NEW day \in 1 .. LastDate, Forecast(b, day).known
    PROVE  LET forecast == Forecast(b, day)
           IN  /\ day >= b.to => forecast.remains = b.limit - Spent(b)
               /\ Status(b, day) = "active" /\ forecast.remains < 0 =>
                     \A days \in forecast.days : days < b.to - day
               /\ forecast.remains < 0 => Pace(b, day) # "on_track" \/ day < b.to
               /\ day >= b.to => (Pace(b, day) = "overspent" <=> forecast.remains <= 0)
<1> DEFINE s == Spent(b)
           lim == b.limit
           len == Length(b)
           e == Elapsed(b, day)
           p == Max({1, e})
           left == Rounded(s * len, p)
           days == IF s > 0 /\ s < lim THEN {((lim - s) * p) \div s} ELSE {}
           f == Forecast(b, day)
<1>1. /\ s \in Nat /\ lim \in Int /\ lim > 0 /\ b.from \in Nat /\ b.to \in Nat
      /\ len = b.to - b.from + 1 /\ len \in Nat \ {0} /\ day \in Nat
  BY DEF BudgetRow, Length
<1>2. e \in Int /\ (day >= b.to => e = len) /\ (b.from <= day /\ day <= b.to => e = day - b.from + 1)
  BY <1>1 DEF Elapsed
<1>3. f.remains = lim - left /\ f.days = days
  <2>1. f = IF e < 3 /\ s < Max({1, lim \div 10}) THEN TooEarly
            ELSE [known |-> TRUE, remains |-> lim - left, days |-> days]
    BY DEF Forecast
  <2>2. ~ TooEarly.known
    BY DEF TooEarly
  <2> HIDE DEF f, e, s, lim, left, days
  <2>3. f.known
    BY DEF f
  <2> QED BY <2>1, <2>2, <2>3
<1>4. p \in Nat \ {0} /\ (e >= 1 => p = e)
  <2> HIDE DEF e
  <2> QED BY <1>2, LargerOfTwo
<1>5. Pace(b, day) = "overspent" <=> s >= lim
  BY DEF Pace
<1> HIDE DEF s, lim, len, e, p, left, days, f
<1>6. s * len \in Int
  BY <1>1
<1>7. left \in Int /\ (left > lim => s * len > p * lim)
  BY <1>1, <1>4, <1>6, RoundedAbove DEF left
<1>8. day >= b.to => f.remains = lim - s
  <2> SUFFICES ASSUME day >= b.to PROVE left = s
    BY <1>3
  <2>1. p = len
    BY <1>1, <1>2, <1>4
  <2> QED BY <1>1, <2>1, RoundedExactly DEF left
<1>9. ASSUME Status(b, day) = "active", f.remains < 0, NEW d \in f.days
      PROVE  d < b.to - day
  <2>1. b.from <= day /\ day <= b.to
    BY <1>1, <1>9 DEF Status
  <2>2. p = day - b.from + 1
    BY <1>1, <1>2, <1>4, <2>1
  <2>3. left > lim
    BY <1>1, <1>3, <1>7, <1>9
  <2>4. s > 0 /\ d = ((lim - s) * p) \div s
    BY <1>3, <1>9 DEF days
  <2>5. d < len - p
    BY <1>1, <1>4, <1>7, <2>3, <2>4, GoneBeforeTheEnd
  <2> QED BY <1>1, <2>2, <2>5
<1>10. f.remains < 0 => Pace(b, day) # "on_track" \/ day < b.to
  <2> SUFFICES ASSUME f.remains < 0, ~ (day < b.to) PROVE Pace(b, day) = "overspent"
    BY <1>1
  <2>1. s > lim
    BY <1>1, <1>8
  <2> QED BY <1>1, <1>5, <2>1
<1>11. day >= b.to => (Pace(b, day) = "overspent" <=> f.remains <= 0)
  BY <1>1, <1>5, <1>8
<1> QED BY <1>8, <1>9, <1>10, <1>11 DEF f, s, lim

\* Budgets the schema admits.
PossibleBudgets == {b \in BudgetRow : b.from <= b.to /\ b.limit > 0}

\* The records of the views: rows 1..n.
RecordsTyped(recs) ==
    \E n \in Nat : DOMAIN recs = 1 .. n /\ \A i \in 1 .. n : recs[i] \in View!RecordRow

RecordsInv ==
    /\ active \subseteq Wallets /\ View!SystemWallet \in active
    /\ RecordsTyped(records)

\* The inductive invariant: no two budgets of a scope share a day, and the schema holds.
BudgetsInv ==
    /\ RecordsInv
    /\ TableOf(budgets, lastBudget, PossibleBudgets)
    /\ NoneOverlap(budgets)

\* Cardinality is the same in the instance.
LEMMA ViewCounts ==
    ASSUME NEW S
    PROVE  View!Cardinality(S) = Cardinality(S)
BY DEF View!Cardinality, Cardinality

\* Records are as many as the number of the last, and finite.
LEMMA RecordsCounted ==
    ASSUME NEW n \in Nat, DOMAIN records = 1 .. n
    PROVE  IsFiniteSet(DOMAIN records) /\ View!Rows = n
BY FS_Interval, ViewCounts DEF View!Rows

\* A record added under the next number.
LEMMA RecordAdded ==
    ASSUME NEW recs, NEW n \in Nat, DOMAIN recs = 1 .. n,
           \A i \in 1 .. n : recs[i] \in View!RecordRow, NEW row \in View!RecordRow
    PROVE  LET new == View!With(recs, n + 1, row)
           IN  DOMAIN new = 1 .. (n + 1) /\ \A i \in 1 .. (n + 1) : new[i] \in View!RecordRow
<1> DEFINE new == View!With(recs, n + 1, row)
<1>1. DOMAIN new = 1 .. (n + 1)
  BY DEF View!With
<1>2. ASSUME NEW i \in 1 .. (n + 1) PROVE new[i] \in View!RecordRow
  BY <1>2 DEF View!With
<1> QED BY <1>1, <1>2

\* Steps of the views keep the records what they are.
LEMMA ViewKeeps ==
    ASSUME BudgetsAssumption, RecordsInv, View!Next
    PROVE  RecordsInv'
<1>1. PICK n \in Nat : DOMAIN records = 1 .. n /\ \A i \in 1 .. n : records[i] \in View!RecordRow
  BY DEF RecordsInv, RecordsTyped
<1>2. View!Rows = n
  BY <1>1, RecordsCounted
<1>3. ASSUME NEW form \in Forms, View!Book(form) PROVE RecordsInv'
  <2>1. form \in View!RecordRow
    BY DEF BudgetsAssumption, View!ViewsAssumption
  <2>2. records' = View!With(records, n + 1, form) /\ active' = active
    BY <1>2, <1>3 DEF View!Book
  <2> QED BY <1>1, <2>1, <2>2, RecordAdded DEF RecordsInv, RecordsTyped
<1>4. ASSUME NEW move \in Moves, View!Transfer(move) PROVE RecordsInv'
  <2> DEFINE Leg(kind, w) ==
               [date |-> move.date, kind |-> kind, wallet |-> w, base |-> move.base,
                now |-> move.now, category |-> View!TransferCategory, tags |-> {},
                transfer |-> 1 + n]
             out == Leg("expense", move.from)
             in == Leg("income", move.to)
             half == View!With(records, n + 1, out)
  <2>1. move \in [date : 1 .. LastDate, from : Wallets, to : Wallets, base : Nat, now : Nat]
    BY DEF BudgetsAssumption, View!ViewsAssumption
  <2>2. ASSUME NEW kind \in {"expense", "income"}, NEW w \in Wallets
        PROVE  Leg(kind, w) \in View!RecordRow
    <3>1. 1 + n \in Nat /\ {} \in SUBSET STRING
      OBVIOUS
    <3>4. View!TransferCategory \in {form.category : form \in Forms} \cup {View!TransferCategory}
      OBVIOUS
    <3>2. kind \in {"income", "expense", "mandatory"}
      OBVIOUS
    <3>3. move.date \in 1 .. LastDate /\ move.base \in Nat /\ move.now \in Nat
      BY <2>1
    <3> QED BY <3>1, <3>2, <3>3, <3>4 DEF View!RecordRow
  <2>8. out \in View!RecordRow /\ in \in View!RecordRow
    BY <2>1, <2>2
  <2>3. records' = View!With(half, n + 2, in) /\ active' = active
    BY <1>2, <1>4 DEF View!Transfer
  <2> HIDE DEF Leg, out, in
  <2>4. DOMAIN half = 1 .. (n + 1) /\ \A i \in 1 .. (n + 1) : half[i] \in View!RecordRow
    BY <1>1, <2>8, RecordAdded DEF half
  <2> HIDE DEF half
  <2>5. n + 1 \in Nat /\ (n + 1) + 1 = n + 2
    OBVIOUS
  <2>6. DOMAIN records' = 1 .. (n + 2) /\ \A i \in 1 .. (n + 2) : records'[i] \in View!RecordRow
    BY <2>3, <2>4, <2>5, <2>8, RecordAdded
  <2>7. n + 2 \in Nat
    OBVIOUS
  <2> QED BY <2>3, <2>6, <2>7 DEF RecordsInv, RecordsTyped
<1>5. ASSUME NEW w \in Wallets, View!SoftDeleteWallet(w) PROVE RecordsInv'
  BY <1>5 DEF View!SoftDeleteWallet, RecordsInv, RecordsTyped
<1> QED BY <1>3, <1>4, <1>5 DEF View!Next

\* So does another name of a tag.
LEMMA RenameTagKeepsRecords ==
    ASSUME BudgetsAssumption, RecordsInv, NEW names \in TagRenames, RenameTag(names[1], names[2])
    PROVE  RecordsInv'
<1>1. PICK n \in Nat : DOMAIN records = 1 .. n /\ \A i \in 1 .. n : records[i] \in View!RecordRow
  BY DEF RecordsInv, RecordsTyped
<1>2. names[1] \in STRING /\ names[2] \in STRING
  BY DEF BudgetsAssumption
<1> DEFINE old == names[1]
           new == names[2]
           Named(tags) == IF old \in tags THEN (tags \ {old}) \cup {new} ELSE tags
<1>3. /\ records' = [i \in DOMAIN records |->
                       [records[i] EXCEPT !.tags = Named(records[i].tags)]]
      /\ active' = active
  BY DEF RenameTag
<1>4. ASSUME NEW r \in View!RecordRow PROVE [r EXCEPT !.tags = Named(r.tags)] \in View!RecordRow
  <2>1. Named(r.tags) \in SUBSET STRING
    BY <1>2 DEF View!RecordRow
  <2> HIDE DEF Named
  <2> QED BY <2>1 DEF View!RecordRow
<1> HIDE DEF Named
<1>5. DOMAIN records' = 1 .. n /\ \A i \in 1 .. n : records'[i] \in View!RecordRow
  BY <1>1, <1>3, <1>4
<1> QED BY <1>3, <1>5 DEF RecordsInv, RecordsTyped

\* Two budgets of a scope that share a day of the calendar overlap.
LEMMA DaySharedIsOverlap ==
    ASSUME NEW b \in PossibleBudgets, NEW c \in PossibleBudgets, NEW day \in 1 .. LastDate,
           LastDate \in Nat, SameScope(b, c),
           b.from <= day, day <= b.to, c.from <= day, day <= c.to
    PROVE  Overlap(b, c) /\ Overlap(c, b)
<1>1. /\ b.from \in Int /\ b.to \in Int /\ c.from \in Int /\ c.to \in Int /\ day \in Int
      /\ SameScope(c, b)
  BY DEF PossibleBudgets, BudgetRow, SameScope
<1> QED BY <1>1 DEF Overlap

\* What each operation of the tab leaves.
TabKeeps == TableOf(budgets', lastBudget', PossibleBudgets) /\ NoneOverlap(budgets')

\* A budget is created only where none of its scope overlaps.
LEMMA CreateBudgetKeeps ==
    ASSUME BudgetsAssumption, BudgetsInv, NEW form \in BudgetForms, CreateBudget(form)
    PROVE  TabKeeps
<1> DEFINE id == lastBudget + 1
<1>1. form \in PossibleBudgets /\ LastDate \in Nat
  BY DEF BudgetsAssumption, View!ViewsAssumption, CreateBudget, BudgetAccepted, PossibleBudgets
<1>2. budgets' = With(budgets, id, form) /\ lastBudget' = id
  BY DEF CreateBudget
<1>3. Adds(budgets', budgets, lastBudget, PossibleBudgets, form)
  BY <1>1, <1>2, RowAdded DEF BudgetsInv
<1>4. ASSUME NEW i \in DOMAIN budgets', NEW j \in DOMAIN budgets', i # j,
             SameScope(budgets'[i], budgets'[j]), NEW day \in 1 .. LastDate,
             budgets'[i].from <= day, day <= budgets'[i].to,
             budgets'[j].from <= day, day <= budgets'[j].to
      PROVE  FALSE
  <2>1. \A k \in DOMAIN budgets : ~ Overlap(budgets[k], form) /\ budgets[k] \in PossibleBudgets
    BY TableIds DEF CreateBudget, BudgetAccepted, BudgetsInv
  <2>2. ASSUME NEW k \in DOMAIN budgets', k # id PROVE k \in DOMAIN budgets /\ budgets'[k] = budgets[k]
    BY <1>3, <2>2 DEF Adds
  <2>3. budgets'[id] = form
    BY <1>3 DEF Adds
  <2>4. CASE i # id /\ j # id
    BY <1>4, <2>2, <2>4 DEF BudgetsInv, NoneOverlap
  <2>5. CASE i = id
    <3>1. budgets'[i] = form /\ j \in DOMAIN budgets /\ budgets'[j] = budgets[j]
      BY <1>4, <2>2, <2>3, <2>5
    <3> QED BY <1>1, <1>4, <2>1, <3>1, DaySharedIsOverlap
  <2>6. CASE j = id
    <3>1. budgets'[j] = form /\ i \in DOMAIN budgets /\ budgets'[i] = budgets[i]
      BY <1>4, <2>2, <2>3, <2>6
    <3> QED BY <1>1, <1>4, <2>1, <3>1, DaySharedIsOverlap
  <2> QED BY <2>4, <2>5, <2>6
<1>5. NoneOverlap(budgets')
  BY <1>4 DEF NoneOverlap
<1> QED BY <1>2, <1>3, <1>5 DEF TabKeeps, Adds

\* Another limit leaves scope and days.
LEMMA UpdateBudgetLimitKeeps ==
    ASSUME BudgetsAssumption, BudgetsInv, NEW i \in DOMAIN budgets, NEW limit \in Limits,
           UpdateBudgetLimit(i, limit)
    PROVE  TabKeeps
<1>1. limit \in Int /\ limit > 0
  BY DEF BudgetsAssumption
<1>2. budgets' = [budgets EXCEPT ![i].limit = limit] /\ lastBudget' = lastBudget
  BY DEF UpdateBudgetLimit
<1>3. \A k \in DOMAIN budgets : budgets[k] \in PossibleBudgets
  BY TableIds DEF BudgetsInv
<1>4. ASSUME NEW b \in PossibleBudgets
      PROVE  LET c == [b EXCEPT !.limit = limit]
             IN  c \in PossibleBudgets /\ c.from = b.from /\ c.to = b.to /\ c.scope = b.scope
                 /\ c.value = b.value
  BY <1>1 DEF PossibleBudgets, BudgetRow
<1>5. DOMAIN budgets' = DOMAIN budgets
  BY <1>2
<1>6. \A k \in DOMAIN budgets :
         budgets'[k] = IF k = i THEN [budgets[i] EXCEPT !.limit = limit] ELSE budgets[k]
  BY <1>2 DEF BudgetsInv, TableOf
<1>7. ASSUME NEW k \in DOMAIN budgets
      PROVE  /\ budgets'[k] \in PossibleBudgets
             /\ budgets'[k].from = budgets[k].from /\ budgets'[k].to = budgets[k].to
             /\ budgets'[k].scope = budgets[k].scope /\ budgets'[k].value = budgets[k].value
  <2>1. CASE k = i
    <3>1. budgets'[k] = [budgets[k] EXCEPT !.limit = limit]
      BY <1>6, <2>1
    <3> QED BY <1>3, <1>4, <3>1
  <2>2. CASE k # i
    BY <1>3, <1>6, <2>2
  <2> QED BY <2>1, <2>2
<1>8. NoneOverlap(budgets')
  BY <1>5, <1>7 DEF BudgetsInv, NoneOverlap, SameScope
<1>9. TableOf(budgets', lastBudget', PossibleBudgets)
  <2>1. budgets' = [k \in DOMAIN budgets |-> budgets'[k]]
    BY <1>2
  <2> QED BY <1>2, <1>5, <1>7, <2>1 DEF BudgetsInv, TableOf
<1> QED BY <1>8, <1>9 DEF TabKeeps

\* A budget less: the others stay.
LEMMA DeleteBudgetKeeps ==
    ASSUME BudgetsInv, NEW i \in DOMAIN budgets, DeleteBudget(i)
    PROVE  TabKeeps
<1>1. budgets' = Without(budgets, {i}) /\ lastBudget' = lastBudget
  BY DEF DeleteBudget
<1>2. /\ TableOf(budgets', lastBudget', PossibleBudgets)
      /\ DOMAIN budgets' = DOMAIN budgets \ {i}
      /\ \A k \in DOMAIN budgets' : budgets'[k] = budgets[k]
  BY <1>1, RowsRemoved DEF BudgetsInv
<1> QED BY <1>2 DEF TabKeeps, BudgetsInv, NoneOverlap

\* An imported table is one that the application wrote.
LEMMA ReplaceBudgetsKeeps ==
    ASSUME BudgetsAssumption, NEW file \in BudgetFiles, ReplaceBudgets(file)
    PROVE  TabKeeps
<1>1. budgets' = file /\ lastBudget' = MaxId(DOMAIN file)
  BY DEF ReplaceBudgets
<1>2. Ids(DOMAIN file) /\ NoneOverlap(file)
  BY DEF BudgetsAssumption, Ids
<1>3. file \in [DOMAIN file -> PossibleBudgets]
  BY DEF BudgetsAssumption, Possible, PossibleBudgets
<1>4. MaxId(DOMAIN file) \in Nat /\ \A i \in DOMAIN file : i \in 1 .. MaxId(DOMAIN file)
  BY <1>2, MaxIdBounds DEF Ids
<1> QED BY <1>1, <1>2, <1>3, <1>4 DEF TabKeeps, TableOf

\* Every step keeps the invariant.
LEMMA BudgetsStepKeeps ==
    ASSUME BudgetsAssumption, BudgetsInv, [BudgetsNext]_budgetsVars
    PROVE  BudgetsInv'
<1>1. CASE UNCHANGED budgetsVars
  BY <1>1 DEF budgetsVars, budgetVars, BudgetsInv, RecordsInv, TableOf, NoneOverlap
<1>2. CASE View!Next /\ UNCHANGED budgetVars
  BY <1>2, ViewKeeps DEF budgetVars, BudgetsInv, TableOf, NoneOverlap
<1>3. CASE BudgetTab /\ UNCHANGED <<active, records>>
  <2>1. TabKeeps
    BY <1>3, CreateBudgetKeeps, UpdateBudgetLimitKeeps, DeleteBudgetKeeps, ReplaceBudgetsKeeps
       DEF BudgetTab
  <2>2. RecordsInv'
    BY <1>3 DEF BudgetsInv, RecordsInv
  <2> QED BY <2>1, <2>2 DEF TabKeeps, BudgetsInv
<1>4. ASSUME NEW names \in TagRenames, RenameTag(names[1], names[2]) PROVE BudgetsInv'
  <2>1. RecordsInv' /\ UNCHANGED budgetVars
    BY <1>4, RenameTagKeepsRecords DEF BudgetsInv, RenameTag
  <2> QED BY <2>1 DEF budgetVars, BudgetsInv, TableOf, NoneOverlap
<1> QED BY <1>1, <1>2, <1>3, <1>4 DEF BudgetsNext

\* No records and no budgets.
LEMMA BudgetsStart ==
    ASSUME BudgetsAssumption, BudgetsInit
    PROVE  BudgetsInv
<1>1. active = Wallets /\ records = <<>> /\ budgets = <<>> /\ lastBudget = 0
  BY DEF BudgetsInit, View!Init
<1>2. DOMAIN <<>> = 1 .. 0 /\ 1 .. 0 = {} /\ <<>> \in [1 .. 0 -> PossibleBudgets]
  <2>1. <<>> \in Seq(PossibleBudgets) /\ Len(<<>>) = 0
    BY EmptySeq
  <2>2. <<>> \in [1 .. 0 -> PossibleBudgets] /\ DOMAIN <<>> = 1 .. 0
    BY <2>1, LenProperties
  <2> QED BY <2>2
<1>3. RecordsTyped(records)
  <2>1. 0 \in Nat
    OBVIOUS
  <2> QED BY <1>1, <1>2, <2>1 DEF RecordsTyped
<1>4. RecordsInv
  BY <1>1, <1>3 DEF BudgetsAssumption, View!ViewsAssumption, RecordsInv
<1>5. TableOf(budgets, lastBudget, PossibleBudgets) /\ NoneOverlap(budgets)
  BY <1>1, <1>2 DEF TableOf, NoneOverlap
<1> QED BY <1>4, <1>5 DEF BudgetsInv

\* The invariant gives the types and the property.
LEMMA BudgetsInvMeans ==
    ASSUME BudgetsAssumption, BudgetsInv
    PROVE  BudgetsTypeOK /\ BudgetsHold
<1>1. PICK n \in Nat : DOMAIN records = 1 .. n /\ \A i \in 1 .. n : records[i] \in View!RecordRow
  BY DEF BudgetsInv, RecordsInv, RecordsTyped
<1>2. IsFiniteSet(DOMAIN records) /\ View!Rows = n
  BY <1>1, RecordsCounted
<1>3. \A i \in DOMAIN records : records[i].base \in Nat
  BY <1>1 DEF View!RecordRow
<1>4. \A i \in DOMAIN budgets : budgets[i] \in PossibleBudgets
  BY TableIds DEF BudgetsInv
<1>5. LastDate \in Nat
  BY DEF BudgetsAssumption, View!ViewsAssumption
<1>6. BudgetsTypeOK
  BY <1>1, <1>2, <1>4 DEF BudgetsTypeOK, View!TypeOK, BudgetsInv, RecordsInv, TableOf, Possible,
                          PossibleBudgets
<1>7. ForecastsComeTrue
  <2> SUFFICES ASSUME NEW i \in DOMAIN budgets, NEW day \in 1 .. LastDate,
                      Forecast(budgets[i], day).known
               PROVE  LET b        == budgets[i]
                          forecast == Forecast(b, day)
                      IN  /\ day >= b.to => forecast.remains = b.limit - Spent(b)
                          /\ Status(b, day) = "active" /\ forecast.remains < 0 =>
                                \A days \in forecast.days : days < b.to - day
                          /\ forecast.remains < 0 => Pace(b, day) # "on_track" \/ day < b.to
                          /\ day >= b.to => (Pace(b, day) = "overspent" <=> forecast.remains <= 0)
    BY DEF ForecastsComeTrue
  <2> DEFINE b == budgets[i]
  <2>1. b \in BudgetRow /\ b.from <= b.to /\ b.limit > 0
    BY <1>4 DEF PossibleBudgets
  <2>2. Spent(b) \in Nat
    BY <1>2, <1>3, SpentIsNumber
  <2> QED BY <1>5, <2>1, <2>2, ForecastComesTrue
<1>8. CountsOnce
  BY DEF BudgetsInv, CountsOnce
<1> QED BY <1>6, <1>7, <1>8 DEF BudgetsHold

\* The rows of budgets are those the schema admits, whatever is created, changed, deleted and
\* imported (BudgetsTypeOK).
THEOREM BudgetsTyped ==
    ASSUME BudgetsAssumption
    PROVE  BudgetsSpec => []BudgetsTypeOK
<1>1. BudgetsInit => BudgetsInv
  BY BudgetsStart
<1>2. BudgetsInv /\ [BudgetsNext]_budgetsVars => BudgetsInv'
  BY BudgetsStepKeeps
<1>3. BudgetsInv => BudgetsTypeOK
  BY BudgetsInvMeans
<1> QED BY <1>1, <1>2, <1>3, PTL DEF BudgetsSpec

\* For any records, limits and days: a spending counts in one budget of a scope, and what a
\* forecast says of the end comes true (BudgetsHold).
THEOREM BudgetsKeepTheirWord ==
    ASSUME BudgetsAssumption
    PROVE  BudgetsSpec => []BudgetsHold
<1>1. BudgetsInit => BudgetsInv
  BY BudgetsStart
<1>2. BudgetsInv /\ [BudgetsNext]_budgetsVars => BudgetsInv'
  BY BudgetsStepKeeps
<1>3. BudgetsInv => BudgetsHold
  BY BudgetsInvMeans
<1> QED BY <1>1, <1>2, <1>3, PTL DEF BudgetsSpec
=============================================================================
