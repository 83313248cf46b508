----------------------------- MODULE DebtsProofs ----------------------------
(***************************************************************************)
(* What Debts promises, for any amounts, any opening balance and any       *)
(* number of rows.  Whatever operations are cut off: types and references, *)
(* the status of debts and the links of payments to records.  As long as   *)
(* none is cut off: the balance of every debt, and that a deletion hits    *)
(* the payment and the debt it was meant for.                              *)
(*                                                                         *)
(* The parts: what a renumbering makes of the three tables, what was paid  *)
(* as a sum over the table of payments, what each change of a table        *)
(* leaves, the inductive invariant IInv with one lemma for each action,    *)
(* and the theorems.                                                       *)
(***************************************************************************)
EXTENDS Debts, TablesProofs

\* A debt row within its total, closed exactly when nothing remains.
SoundDebt ==
    {row \in DebtRow : /\ row.remaining <= row.total
                       /\ row.status = "closed" <=> row.remaining = 0}

DebtsOK == TableOf(debts, seq.debts, SoundDebt)

RecordsOK ==
    /\ TableOf(records, seq.records, RecordRow)
    /\ \A i \in DOMAIN records : records[i].debt \in DOMAIN debts \cup {None}

PaymentsOK ==
    /\ TableOf(payments, seq.payments, PaymentRow)
    /\ \A p \in DOMAIN payments : /\ payments[p].debt \in DOMAIN debts
                                  /\ payments[p].record \in DOMAIN records \cup {None}

\* link gives each payment a record of its debt and of the kind it needs, or none, and no two
\* payments the same.
Linking(link) ==
    /\ \A p \in DOMAIN payments :
          link[p] # None => /\ link[p] \in DOMAIN records
                            /\ records[link[p]].debt = payments[p].debt
                            /\ records[link[p]].kind \in ExpectedKinds(payments[p].type)
    /\ \A p, q \in DOMAIN payments : p # q /\ link[p] # None => link[p] # link[q]

(***************************************************************************)
(* The renumbering.                                                        *)
(***************************************************************************)

\* The search for records gives no payment a record of another debt or of another kind, and no
\* two payments one record.
LEMMA RestoredLinksAgree ==
    ASSUME RecordsOK, PaymentsOK, LinksAgree
    PROVE  RestoredLinks \in [DOMAIN payments -> Nat] /\ Linking(RestoredLinks)
<1> DEFINE ids == DOMAIN payments
           n == Cardinality(ids)
           X == {link \in [ids -> Nat] : Linking(link)}
           x0 == [p \in ids |-> payments[p].record]
           Free(link, p) == Candidates(p) \ Range(link)
           Body(link, k) == LET p == Nth(ids, k)
                            IN  IF link[p] # None \/ Free(link, p) = {} THEN link
                                ELSE [link EXCEPT ![p] = Min(Free(link, p))]
           step == [k \in 1 .. n |-> [link \in X |-> Body(link, k)]]
<1>1. Ids(ids) /\ Ids(DOMAIN records) /\ n \in Nat /\ 0 \notin DOMAIN records
  BY TableIds, FS_CardinalityType DEF PaymentsOK, RecordsOK, Ids
<1>2. x0 \in X
  <2>1. x0 \in [ids -> Nat]
    <3>1. \A p \in ids : payments[p] \in PaymentRow
      BY TableIds DEF PaymentsOK
    <3> QED
      BY <3>1 DEF PaymentRow
  <2>2. Linking(x0)
    BY DEF LinksAgree, Linking, PaymentsOK
  <2> QED
    BY <2>1, <2>2
<1>3. ASSUME NEW k \in 1 .. n, NEW link \in X
      PROVE  Body(link, k) \in X
  <2> DEFINE p == Nth(ids, k)
  <2>1. p \in ids
    BY <1>1, NthOfRank
  <2>2. CASE link[p] # None \/ Free(link, p) = {}
    BY <2>2
  <2>3. CASE link[p] = None /\ Free(link, p) # {}
    <3> DEFINE r == Min(Free(link, p))
               new == [link EXCEPT ![p] = r]
    <3>1. Free(link, p) \in SUBSET DOMAIN records
      BY DEF Candidates
    <3>2. r \in Free(link, p)
      BY <1>1, <2>3, <3>1, IdsOfPart, MinIsMember
    <3>3. /\ r \in DOMAIN records /\ r \in Nat /\ r # None
          /\ records[r].debt = payments[p].debt
          /\ records[r].kind \in ExpectedKinds(payments[p].type)
          /\ \A q \in ids : link[q] # r
      <4>1. DOMAIN link = ids
        OBVIOUS
      <4> HIDE DEF p, r
      <4> QED
        BY <1>1, <3>1, <3>2, <4>1 DEF Candidates, Range, Ids, None
    <3>4. new \in [ids -> Nat] /\ new[p] = r /\ \A q \in ids : q # p => new[q] = link[q]
      BY <2>1, <3>3
    <3>5. Body(link, k) = new
      BY <2>3
    <3> HIDE DEF new, r, p
    <3>6. Linking(new)
      BY <3>3, <3>4 DEF Linking
    <3> QED
      BY <3>4, <3>5, <3>6
  <2> QED
    BY <2>2, <2>3
<1>4. step \in [1 .. n -> [X -> X]]
  BY <1>3
<1> DEFINE Rec(f) == f = [k \in 0 .. n |-> IF k = 0 THEN x0 ELSE Body(f[k - 1], k)]
<1>5. \E f : Rec(f)
  <2>1. PICK f \in [0 .. n -> X] : Iterates(f, n, x0, step)
    <3>1. n \in Nat /\ x0 \in X /\ step \in [1 .. n -> [X -> X]]
      BY <1>1, <1>2, <1>4
    <3> HIDE DEF X, x0, step, n
    <3> QED
      BY <3>1, StepsExist
  <2>2. \A k \in 0 .. n : f[k] = IF k = 0 THEN x0 ELSE Body(f[k - 1], k)
    <3> SUFFICES ASSUME NEW k \in 0 .. n
                 PROVE  f[k] = IF k = 0 THEN x0 ELSE Body(f[k - 1], k)
      OBVIOUS
    <3>1. f[k] = IF k = 0 THEN x0 ELSE step[k][f[k - 1]]
      <4> HIDE DEF x0, step
      <4> QED
        BY <2>1 DEF Iterates
    <3>2. k # 0 => k \in 1 .. n /\ f[k - 1] \in X
      <4> HIDE DEF X, n, step, x0
      <4>1. k # 0 => k \in 1 .. n /\ k - 1 \in 0 .. n
        BY <1>1
      <4> QED
        BY <2>1, <4>1
    <3> HIDE DEF X, Body, x0
    <3> QED
      BY <3>1, <3>2
  <2>3. f = [k \in 0 .. n |-> f[k]]
    BY <2>1
  <2> HIDE DEF Body, x0
  <2> QED
    BY <2>2, <2>3
<1> DEFINE f == CHOOSE f : Rec(f)
<1>6. Rec(f)
  BY <1>5
<1>7. RestoredLinks = f[n]
  BY DEF RestoredLinks
<1>8. \A k \in 0 .. n : f[k] \in X
  <2> HIDE DEF X, x0, f, Body
  <2> DEFINE M == {k \in Nat : k <= n => f[k] \in X}
  <2>1. 0 \in M
    BY <1>1, <1>2, <1>6
  <2>2. ASSUME NEW k \in M
        PROVE  k + 1 \in M
    <3> SUFFICES ASSUME k + 1 <= n
                 PROVE  f[k + 1] \in X
      OBVIOUS
    <3>1. k \in Nat /\ k + 1 \in 1 .. n /\ k + 1 \in 0 .. n /\ (k + 1) - 1 = k /\ f[k] \in X
      BY <1>1
    <3>2. f[k + 1] = Body(f[(k + 1) - 1], k + 1)
      <4> HIDE DEF n
      <4>1. k + 1 # 0
        BY <3>1
      <4> QED
        BY <1>6, <3>1, <4>1
    <3> QED
      BY <1>3, <3>1, <3>2
  <2>3. M = Nat
    <3> HIDE DEF M
    <3>1. M \in SUBSET Nat
      BY DEF M
    <3> QED
      BY <2>1, <2>2, <3>1, NatInductionSet
  <2> QED
    BY <2>3
<1>9. f[n] \in X
  <2> HIDE DEF f, X
  <2> QED
    BY <1>1, <1>8
<1> QED
  BY <1>7, <1>9

\* After a renumbering every row has its rank as its id, and so have the rows it refers to.
LEMMA RenumberedRows ==
    ASSUME DebtsOK, RecordsOK, PaymentsOK, LinksAgree, Renumbering
    PROVE  LET D == DOMAIN debts
               R == DOMAIN records
               P == DOMAIN payments
               link == RestoredLinks
           IN  /\ TableOf(debts', seq'.debts, SoundDebt)
               /\ TableOf(records', seq'.records, RecordRow)
               /\ TableOf(payments', seq'.payments, PaymentRow)
               /\ DOMAIN debts' = 1 .. seq'.debts /\ DOMAIN records' = 1 .. seq'.records
               /\ DOMAIN payments' = 1 .. seq'.payments
               /\ debts' = Reinserted(debts)
               /\ \A d \in D : Rank(D, d) \in DOMAIN debts' /\ debts'[Rank(D, d)] = debts[d]
               /\ \A e \in DOMAIN debts' : \E d \in D : Rank(D, d) = e /\ debts'[e] = debts[d]
               /\ \A i \in R : /\ Rank(R, i) \in DOMAIN records'
                               /\ records'[Rank(R, i)].kind = records[i].kind
                               /\ records'[Rank(R, i)].debt = Rank(D, records[i].debt)
               /\ \A k \in DOMAIN records' : \E i \in R : Rank(R, i) = k
               /\ \A p \in P : /\ Rank(P, p) \in DOMAIN payments'
                               /\ payments'[Rank(P, p)].type = payments[p].type
                               /\ payments'[Rank(P, p)].amount = payments[p].amount
                               /\ payments'[Rank(P, p)].debt = Rank(D, payments[p].debt)
                               /\ payments'[Rank(P, p)].record = Rank(R, link[p])
               /\ \A k \in DOMAIN payments' : \E p \in P : Rank(P, p) = k
<1> DEFINE D == DOMAIN debts
           R == DOMAIN records
           P == DOMAIN payments
           link == RestoredLinks
           recs == [i \in R |-> [records[i] EXCEPT !.debt = Rank(D, records[i].debt)]]
           pays == [p \in P |-> [payments[p] EXCEPT !.debt = Rank(D, payments[p].debt),
                                                    !.record = Rank(R, link[p])]]
<1>1. /\ debts' = Reinserted(debts) /\ records' = Reinserted(recs)
      /\ payments' = Reinserted(pays)
      /\ seq'.debts = Cardinality(D) /\ seq'.records = Cardinality(R)
      /\ seq'.payments = Cardinality(P)
  BY DEF Renumbering
<1>2. /\ Ids(D) /\ Ids(R) /\ Ids(P)
      /\ \A i \in R : records[i] \in RecordRow
      /\ \A p \in P : payments[p] \in PaymentRow
  BY TableIds DEF DebtsOK, RecordsOK, PaymentsOK
<1>3. \A i : Rank(D, i) \in Nat /\ Rank(R, i) \in Nat
  BY <1>2, RankType, FS_CardinalityType DEF Ids
<1>4. TableOf(recs, seq.records, RecordRow)
  <2>1. \A i \in R : recs[i] \in RecordRow
    BY <1>2, <1>3 DEF RecordRow
  <2>2. recs \in [DOMAIN recs -> RecordRow] /\ DOMAIN recs = R
    BY <2>1
  <2> QED
    BY <2>2 DEF RecordsOK, TableOf
<1>5. TableOf(pays, seq.payments, PaymentRow)
  <2>1. \A p \in P : payments[p].debt \in D
    BY DEF PaymentsOK
  <2>2. \A p \in P : Rank(D, payments[p].debt) \in Nat \ {0}
    BY <1>2, <2>1, RankType
  <2>3. \A p \in P : pays[p] \in PaymentRow
    BY <1>2, <1>3, <2>2 DEF PaymentRow
  <2>4. pays \in [DOMAIN pays -> PaymentRow] /\ DOMAIN pays = P
    BY <2>3
  <2> QED
    BY <2>4 DEF PaymentsOK, TableOf
<1>6. /\ TableOf(debts', seq'.debts, SoundDebt)
      /\ DOMAIN debts' = 1 .. seq'.debts
      /\ \A d \in D : Rank(D, d) \in DOMAIN debts' /\ debts'[Rank(D, d)] = debts[d]
      /\ \A e \in DOMAIN debts' : \E d \in D : Rank(D, d) = e /\ debts'[e] = debts[d]
  BY <1>1, TableReinserted DEF DebtsOK
<1>7. /\ TableOf(records', seq'.records, RecordRow)
      /\ DOMAIN records' = 1 .. seq'.records
      /\ \A i \in R : Rank(R, i) \in DOMAIN records' /\ records'[Rank(R, i)] = recs[i]
      /\ \A k \in DOMAIN records' : \E i \in R : Rank(R, i) = k
  <2>1. DOMAIN recs = R
    OBVIOUS
  <2> HIDE DEF recs, pays
  <2>2. /\ TableOf(Reinserted(recs), Cardinality(R), RecordRow)
        /\ DOMAIN Reinserted(recs) = 1 .. Cardinality(R)
        /\ \A i \in R : /\ Rank(R, i) \in DOMAIN Reinserted(recs)
                        /\ Reinserted(recs)[Rank(R, i)] = recs[i]
        /\ \A k \in DOMAIN Reinserted(recs) : \E i \in R : Rank(R, i) = k
    BY <1>4, <2>1, TableReinserted
  <2> QED
    BY <1>1, <2>2
<1>8. /\ TableOf(payments', seq'.payments, PaymentRow)
      /\ DOMAIN payments' = 1 .. seq'.payments
      /\ \A p \in P : Rank(P, p) \in DOMAIN payments' /\ payments'[Rank(P, p)] = pays[p]
      /\ \A k \in DOMAIN payments' : \E p \in P : Rank(P, p) = k
  <2>1. DOMAIN pays = P
    OBVIOUS
  <2> HIDE DEF pays
  <2> QED
    BY <1>1, <1>5, <2>1, TableReinserted
<1>9. \A i \in R : recs[i].kind = records[i].kind /\ recs[i].debt = Rank(D, records[i].debt)
  BY <1>2 DEF RecordRow
<1>10. \A p \in P : /\ pays[p].type = payments[p].type /\ pays[p].amount = payments[p].amount
                    /\ pays[p].debt = Rank(D, payments[p].debt)
                    /\ pays[p].record = Rank(R, link[p])
  BY <1>2 DEF PaymentRow
<1> HIDE DEF recs, pays, link
<1>11. \A i \in R : /\ Rank(R, i) \in DOMAIN records'
                    /\ records'[Rank(R, i)].kind = records[i].kind
                    /\ records'[Rank(R, i)].debt = Rank(D, records[i].debt)
  BY <1>7, <1>9
<1>12. \A p \in P : /\ Rank(P, p) \in DOMAIN payments'
                    /\ payments'[Rank(P, p)].type = payments[p].type
                    /\ payments'[Rank(P, p)].amount = payments[p].amount
                    /\ payments'[Rank(P, p)].debt = Rank(D, payments[p].debt)
                    /\ payments'[Rank(P, p)].record = Rank(R, link[p])
  BY <1>8, <1>10
<1> QED
  BY <1>1, <1>6, <1>7, <1>8, <1>11, <1>12 DEF link

\* A renumbering keeps types, references and links.
LEMMA RenumberingKeepsTables ==
    ASSUME DebtsOK, RecordsOK, PaymentsOK, LinksAgree, Renumbering
    PROVE  DebtsOK' /\ RecordsOK' /\ PaymentsOK' /\ LinksAgree'
<1> DEFINE D == DOMAIN debts
           R == DOMAIN records
           P == DOMAIN payments
           link == RestoredLinks
<1>1. Ids(D) /\ Ids(R) /\ Ids(P)
  BY TableIds DEF DebtsOK, RecordsOK, PaymentsOK
<1>2. link \in [P -> Nat] /\ Linking(link)
  BY RestoredLinksAgree
<1>3. Rank(D, None) = None /\ Rank(R, None) = None
  BY <1>1, RankOfNone DEF None
<1> HIDE DEF link
<1>4. \A d \in D : Rank(D, d) \in DOMAIN debts'
  BY RenumberedRows
<1>5. DebtsOK'
  BY RenumberedRows DEF DebtsOK
<1>6. RecordsOK'
  <2>1. ASSUME NEW k \in DOMAIN records'
        PROVE  records'[k].debt \in DOMAIN debts' \cup {None}
    <3>1. PICK i \in R : Rank(R, i) = k
      BY RenumberedRows
    <3>2. records'[k].debt = Rank(D, records[i].debt)
      BY <3>1, RenumberedRows
    <3>3. records[i].debt \in D \cup {None}
      BY DEF RecordsOK
    <3> QED
      BY <1>3, <1>4, <3>2, <3>3
  <2> QED
    BY <2>1, RenumberedRows DEF RecordsOK
<1>7. \A p \in P : link[p] # None => link[p] \in R
  BY <1>2 DEF Linking
<1>8. PaymentsOK'
  <2>1. ASSUME NEW k \in DOMAIN payments'
        PROVE  /\ payments'[k].debt \in DOMAIN debts'
               /\ payments'[k].record \in DOMAIN records' \cup {None}
    <3>1. PICK p \in P : Rank(P, p) = k
      BY RenumberedRows
    <3>2. payments'[k].debt = Rank(D, payments[p].debt) /\ payments'[k].record = Rank(R, link[p])
      BY <3>1, RenumberedRows DEF link
    <3>3. payments[p].debt \in D
      BY DEF PaymentsOK
    <3>4. \A i \in R : Rank(R, i) \in DOMAIN records'
      BY RenumberedRows
    <3> QED
      BY <1>3, <1>4, <1>7, <3>2, <3>3, <3>4
  <2> QED
    BY <2>1, RenumberedRows DEF PaymentsOK
<1>9. ASSUME NEW k \in DOMAIN payments', payments'[k].record # None
      PROVE  /\ records'[payments'[k].record].debt = payments'[k].debt
             /\ records'[payments'[k].record].kind \in ExpectedKinds(payments'[k].type)
  <2>1. PICK p \in P : Rank(P, p) = k
    BY RenumberedRows
  <2>2. /\ payments'[k].type = payments[p].type
        /\ payments'[k].debt = Rank(D, payments[p].debt)
        /\ payments'[k].record = Rank(R, link[p])
    BY <2>1, RenumberedRows DEF link
  <2>3. link[p] # None
    BY <1>3, <1>9, <2>2
  <2>4. /\ link[p] \in R /\ records[link[p]].debt = payments[p].debt
        /\ records[link[p]].kind \in ExpectedKinds(payments[p].type)
    BY <1>2, <2>3 DEF Linking
  <2>5. /\ records'[Rank(R, link[p])].kind = records[link[p]].kind
        /\ records'[Rank(R, link[p])].debt = Rank(D, records[link[p]].debt)
    BY <2>4, RenumberedRows
  <2> QED
    BY <2>2, <2>4, <2>5
<1>10. ASSUME NEW k \in DOMAIN payments', NEW l \in DOMAIN payments', k # l,
              payments'[k].record # None
       PROVE  payments'[k].record # payments'[l].record
  <2>1. PICK p \in P : Rank(P, p) = k
    BY RenumberedRows
  <2>2. PICK q \in P : Rank(P, q) = l
    BY RenumberedRows
  <2>3. payments'[k].record = Rank(R, link[p]) /\ payments'[l].record = Rank(R, link[q])
    BY <2>1, <2>2, RenumberedRows DEF link
  <2>4. p # q /\ link[p] # None
    BY <1>3, <1>10, <2>1, <2>2, <2>3
  <2>5. link[p] \in R /\ link[p] # link[q]
    BY <1>2, <2>4 DEF Linking
  <2>6. CASE link[q] = None
    BY <1>3, <1>10, <2>3, <2>6
  <2>7. CASE link[q] # None
    BY <1>1, <1>7, <2>3, <2>5, <2>7, RankInjective
  <2> QED
    BY <2>6, <2>7
<1>11. LinksAgree'
  BY <1>9, <1>10 DEF LinksAgree
<1> QED
  BY <1>5, <1>6, <1>8, <1>11

(***************************************************************************)
(* What was paid on a debt, and how it changes with the table of payments. *)
(***************************************************************************)
PaymentsIn(pays, d) == {p \in DOMAIN pays : pays[p].debt = d}

PaidIn(pays, d) == AmountSum(pays, PaymentsIn(pays, d))

\* Paid, the sum of the model, as a function of the table of payments, before and after a step.
LEMMA PaidIsPaidIn ==
    ASSUME NEW d
    PROVE  Paid(d) = PaidIn(payments, d) /\ Paid(d)' = PaidIn(payments', d)
<1>1. Paid(d) = PaidIn(payments, d)
  BY Zenon DEF Paid, PaidIn, PaymentsOf, PaymentsIn, AmountSum
<1>2. Paid(d)' = PaidIn(payments', d)
  BY SMT DEF Paid, PaidIn, PaymentsOf, PaymentsIn, AmountSum, MapThenSumSet, MapThenFoldSet
<1> QED
  BY <1>1, <1>2

\* The amounts of the payments are the numbers that are added up.
LEMMA ColumnOfPayments ==
    ASSUME NEW pays, NEW n, TableOf(pays, n, PaymentRow), NEW p \in DOMAIN pays
    PROVE  AmountColumn(pays)[p] = pays[p].amount /\ pays[p].amount \in Nat \ {0}
<1>1. pays[p] \in PaymentRow
  BY TableIds
<1> QED
  BY <1>1 DEF AmountColumn, PaymentRow

\* What was paid on a debt is a finite sum of natural numbers.
LEMMA PaidIsTotal ==
    ASSUME NEW pays, NEW n, TableOf(pays, n, PaymentRow), NEW d
    PROVE  /\ IsFiniteSet(PaymentsIn(pays, d))
           /\ PaidIn(pays, d) = Total(AmountColumn(pays), PaymentsIn(pays, d))
           /\ PaidIn(pays, d) \in Nat
<1>1. IsFiniteSet(PaymentsIn(pays, d)) /\ PaymentsIn(pays, d) \subseteq DOMAIN pays
  BY TableIds, FS_Subset DEF PaymentsIn, Ids
<1>2. PaidIn(pays, d) = Total(AmountColumn(pays), PaymentsIn(pays, d))
  BY <1>1, AmountSumIsTotal DEF PaidIn
<1>3. Total(AmountColumn(pays), PaymentsIn(pays, d)) \in Nat
  <2>1. \A p \in PaymentsIn(pays, d) : AmountColumn(pays)[p] \in Nat
    BY <1>1, ColumnOfPayments
  <2> QED
    BY <1>1, <2>1, TotalType
<1> QED
  BY <1>1, <1>2, <1>3

\* A debt whose payments keep their amounts has been paid as much as before.
LEMMA PaidSame ==
    ASSUME NEW pays, NEW n, TableOf(pays, n, PaymentRow),
           NEW new, NEW m, TableOf(new, m, PaymentRow), NEW d,
           PaymentsIn(new, d) = PaymentsIn(pays, d),
           \A p \in PaymentsIn(new, d) : new[p].amount = pays[p].amount
    PROVE  PaidIn(new, d) = PaidIn(pays, d)
<1>1. \A p \in PaymentsIn(new, d) : p \in DOMAIN new /\ p \in DOMAIN pays
  BY DEF PaymentsIn
<1>2. \A p \in PaymentsIn(new, d) : AmountColumn(new)[p] = AmountColumn(pays)[p]
  BY <1>1, ColumnOfPayments
<1> QED
  BY <1>2, PaidIsTotal, TotalSame

\* A payment counts for its own debt, whether it is added or removed.
LEMMA PaidAdded ==
    ASSUME NEW pays, NEW n, TableOf(pays, n, PaymentRow), NEW row \in PaymentRow, NEW d
    PROVE  PaidIn(With(pays, n + 1, row), d)
             = PaidIn(pays, d) + (IF row.debt = d THEN row.amount ELSE 0)
<1> DEFINE new == With(pays, n + 1, row)
           S == PaymentsIn(pays, d)
<1>1. /\ TableOf(new, n + 1, PaymentRow) /\ DOMAIN new = DOMAIN pays \cup {n + 1}
      /\ new[n + 1] = row /\ \A p \in DOMAIN pays : new[p] = pays[p]
      /\ n + 1 \notin DOMAIN pays
  <2>1. n + 1 \notin DOMAIN pays
    BY TableIds
  <2> QED
    BY <2>1, RowAdded DEF Adds
<1>0. \A p \in S : p \in DOMAIN pays
  BY DEF PaymentsIn
<1> HIDE DEF new, S
<1>2. CASE row.debt # d
  <2>1. PaymentsIn(new, d) = S
    BY <1>1, <1>2 DEF PaymentsIn, S
  <2>2. \A p \in S : new[p].amount = pays[p].amount
    BY <1>1, <1>0
  <2>3. PaidIn(new, d) = PaidIn(pays, d)
    BY <1>1, <2>1, <2>2, PaidSame DEF S
  <2> QED
    BY <1>2, <2>3, PaidIsTotal DEF new
<1>3. CASE row.debt = d
  <2>1. PaymentsIn(new, d) = S \cup {n + 1} /\ n + 1 \notin S
    BY <1>1, <1>3 DEF PaymentsIn, S
  <2>2. /\ \A p \in S \cup {n + 1} : AmountColumn(new)[p] \in Int
        /\ AmountColumn(new)[n + 1] = row.amount
    <3>1. \A p \in DOMAIN new : AmountColumn(new)[p] \in Int
      BY <1>1, ColumnOfPayments
    <3>2. n + 1 \in DOMAIN new
      BY <1>1
    <3>3. AmountColumn(new)[n + 1] = row.amount
      BY <1>1, <3>2, ColumnOfPayments
    <3> QED
      BY <1>1, <1>0, <3>1, <3>3
  <2>3. Total(AmountColumn(new), S \cup {n + 1}) = row.amount + Total(AmountColumn(new), S)
    BY <2>1, <2>2, PaidIsTotal, TotalAdd DEF S
  <2>4. Total(AmountColumn(new), S) = Total(AmountColumn(pays), S)
    <3>1. \A p \in S : AmountColumn(new)[p] = AmountColumn(pays)[p]
      BY <1>1, <1>0, ColumnOfPayments
    <3> QED
      BY <3>1, PaidIsTotal, TotalSame DEF S
  <2>5. PaidIn(new, d) = row.amount + PaidIn(pays, d)
    BY <1>1, <2>1, <2>2, <2>3, <2>4, PaidIsTotal DEF S
  <2>6. row.amount \in Nat /\ PaidIn(pays, d) \in Nat
    BY PaidIsTotal DEF PaymentRow
  <2> QED
    BY <1>3, <2>5, <2>6 DEF new
<1> QED
  BY <1>2, <1>3

\* A payment that is removed is counted no longer, for its own debt only.
LEMMA PaidRemoved ==
    ASSUME NEW pays, NEW n, TableOf(pays, n, PaymentRow), NEW p \in DOMAIN pays, NEW d
    PROVE  PaidIn(pays, d)
             = PaidIn(Without(pays, {p}), d) + (IF pays[p].debt = d THEN pays[p].amount ELSE 0)
<1> DEFINE new == Without(pays, {p})
           S == PaymentsIn(pays, d)
<1>1. /\ TableOf(new, n, PaymentRow) /\ DOMAIN new = DOMAIN pays \ {p}
      /\ \A q \in DOMAIN new : new[q] = pays[q]
  BY RowsRemoved
<1>0. \A q \in S : q \in DOMAIN pays
  BY DEF PaymentsIn
<1> HIDE DEF new, S
<1>2. PaidIn(new, d) \in Nat /\ PaidIn(pays, d) \in Nat
  BY <1>1, PaidIsTotal
<1>3. CASE pays[p].debt # d
  <2>1. PaymentsIn(new, d) = S
    BY <1>1, <1>3 DEF PaymentsIn, S
  <2>2. \A q \in S : new[q].amount = pays[q].amount
    BY <1>1, <2>1 DEF PaymentsIn
  <2>3. PaidIn(new, d) = PaidIn(pays, d)
    BY <1>1, <2>1, <2>2, PaidSame DEF S
  <2> QED
    BY <1>2, <1>3, <2>3 DEF new
<1>4. CASE pays[p].debt = d
  <2>1. PaymentsIn(new, d) = S \ {p} /\ p \in S
    BY <1>1, <1>4 DEF PaymentsIn, S
  <2>2. /\ \A q \in S : AmountColumn(pays)[q] \in Int
        /\ AmountColumn(pays)[p] = pays[p].amount
    BY <1>0, ColumnOfPayments
  <2>3. Total(AmountColumn(pays), S) = AmountColumn(pays)[p] + Total(AmountColumn(pays), S \ {p})
    BY <2>1, <2>2, PaidIsTotal, TotalTake DEF S
  <2>4. Total(AmountColumn(new), S \ {p}) = Total(AmountColumn(pays), S \ {p})
    <3>1. \A q \in S \ {p} : AmountColumn(new)[q] = AmountColumn(pays)[q]
      BY <1>1, <1>0, ColumnOfPayments
    <3>2. IsFiniteSet(S \ {p})
      BY <1>1, <2>1, PaidIsTotal
    <3> QED
      BY <3>1, <3>2, TotalSame
  <2>5. PaidIn(pays, d) = pays[p].amount + PaidIn(new, d)
    BY <1>1, <2>1, <2>2, <2>3, <2>4, PaidIsTotal DEF S
  <2>6. pays[p].amount \in Nat
    BY ColumnOfPayments
  <2> QED
    BY <1>2, <1>4, <2>5, <2>6 DEF new
<1> QED
  BY <1>3, <1>4

\* A renumbering moves what was paid with the debt.
LEMMA PaidRenumbered ==
    ASSUME DebtsOK, RecordsOK, PaymentsOK, LinksAgree, Renumbering, NEW d \in DOMAIN debts
    PROVE  PaidIn(payments', Rank(DOMAIN debts, d)) = PaidIn(payments, d)
<1> DEFINE D == DOMAIN debts
           P == DOMAIN payments
           S == PaymentsIn(payments, d)
           rank == [p \in S |-> Rank(P, p)]
           f == AmountColumn(payments)
           g == AmountColumn(payments')
<1>1. Ids(D) /\ Ids(P)
  BY TableIds DEF DebtsOK, PaymentsOK
<1>2. /\ TableOf(payments, seq.payments, PaymentRow)
      /\ TableOf(payments', seq'.payments, PaymentRow)
  BY RenumberedRows DEF PaymentsOK
<1>3. PaymentsIn(payments', Rank(D, d)) = {rank[p] : p \in S}
  <2>1. ASSUME NEW p \in S
        PROVE  rank[p] \in PaymentsIn(payments', Rank(D, d))
    <3>1. p \in P /\ payments[p].debt = d
      BY DEF PaymentsIn
    <3>2. Rank(P, p) \in DOMAIN payments' /\ payments'[Rank(P, p)].debt = Rank(D, d)
      BY <3>1, RenumberedRows
    <3> QED
      BY <3>2 DEF PaymentsIn
  <2>2. ASSUME NEW k \in PaymentsIn(payments', Rank(D, d))
        PROVE  \E p \in S : k = rank[p]
    <3>1. k \in DOMAIN payments' /\ payments'[k].debt = Rank(D, d)
      BY DEF PaymentsIn
    <3>2. PICK p \in P : Rank(P, p) = k
      BY <3>1, RenumberedRows
    <3>3. payments'[k].debt = Rank(D, payments[p].debt)
      BY <3>2, RenumberedRows
    <3>4. payments[p].debt \in D
      BY DEF PaymentsOK
    <3>5. payments[p].debt = d
      BY <1>1, <3>1, <3>3, <3>4, RankInjective
    <3> QED
      BY <3>2, <3>5 DEF PaymentsIn
  <2> HIDE DEF rank
  <2> QED
    BY <2>1, <2>2
<1>4. ASSUME NEW p \in S
      PROVE  f[p] \in Int /\ g[rank[p]] = f[p]
  <2>1. p \in P
    BY DEF PaymentsIn
  <2>2. rank[p] \in DOMAIN payments' /\ payments'[rank[p]].amount = payments[p].amount
    BY <2>1, RenumberedRows
  <2>3. f[p] = payments[p].amount /\ f[p] \in Int
    BY <1>2, <2>1, ColumnOfPayments
  <2>4. g[rank[p]] = payments'[rank[p]].amount
    BY <1>2, <2>2, ColumnOfPayments
  <2> QED
    BY <2>2, <2>3, <2>4
<1>5. \A p, q \in S : rank[p] = rank[q] => p = q
  BY <1>1, RankInjective DEF PaymentsIn
<1>6. IsFiniteSet(S) /\ PaidIn(payments, d) = Total(f, S)
  BY <1>2, PaidIsTotal
<1>7. PaidIn(payments', Rank(D, d)) = Total(g, {rank[p] : p \in S})
  BY <1>2, <1>3, PaidIsTotal
<1> HIDE DEF f, g, rank, S
<1>8. Total(g, {rank[p] : p \in S}) = Total(f, S)
  BY <1>4, <1>5, <1>6, TotalRenamed
<1> QED
  BY <1>6, <1>7, <1>8

(***************************************************************************)
(* What each change of the tables leaves: types, references and links.     *)
(***************************************************************************)
Counters == seq \in [debts : Nat, records : Nat, payments : Nat]

TablesAgree == Counters /\ DebtsOK /\ RecordsOK /\ PaymentsOK /\ LinksAgree

\* A debt with a remainder within its total, and the status of that remainder, is sound.
LEMMA RemainderSet ==
    ASSUME NEW row \in DebtRow, NEW left \in Nat, left <= row.total
    PROVE  /\ WithRemaining(row, left) \in SoundDebt
           /\ WithRemaining(row, left).kind = row.kind
           /\ WithRemaining(row, left).total = row.total
           /\ WithRemaining(row, left).remaining = left
<1> DEFINE new == WithRemaining(row, left)
<1>1. /\ new = [row EXCEPT !.remaining = left, !.status = IF left = 0 THEN "closed" ELSE "open"]
      /\ DOMAIN row = {"kind", "total", "remaining", "status"}
      /\ row.kind \in {"debt", "loan"} /\ row.total \in Nat \ {0}
  BY DEF WithRemaining, DebtRow
<1>2. /\ new \in DebtRow /\ new.kind = row.kind /\ new.total = row.total
      /\ new.remaining = left /\ new.status = IF left = 0 THEN "closed" ELSE "open"
  BY <1>1 DEF DebtRow
<1> HIDE DEF new
<1>3. new \in SoundDebt
  BY <1>2 DEF SoundDebt
<1> QED
  BY <1>2, <1>3 DEF new

\* A debt after a payment, and after one is taken back, is sound again.
LEMMA PaymentApplied ==
    ASSUME NEW row \in SoundDebt, NEW amount \in Nat
    PROVE  LET new == ApplyPayment(row, amount)
           IN  /\ new \in SoundDebt /\ new.kind = row.kind /\ new.total = row.total
               /\ amount <= row.remaining => new.remaining = row.remaining - amount
<1> DEFINE left == IF row.remaining >= amount THEN row.remaining - amount ELSE 0
<1>1. row \in DebtRow /\ row.remaining <= row.total /\ row.remaining \in Nat
  BY DEF SoundDebt, DebtRow
<1>2. left \in Nat /\ left <= row.total /\ row.total \in Nat
  BY <1>1 DEF DebtRow
<1>3. amount <= row.remaining => left = row.remaining - amount
  BY <1>1
<1>4. ApplyPayment(row, amount) = WithRemaining(row, left)
  BY DEF ApplyPayment
<1> HIDE DEF left
<1> QED
  BY <1>1, <1>2, <1>3, <1>4, RemainderSet

\* A debt after a payment is taken back is sound and open again; it owes the payment once more
\* where that keeps it within its total.
LEMMA PaymentTakenBack ==
    ASSUME NEW row \in SoundDebt, NEW amount \in Nat \ {0}
    PROVE  LET new == Reopened(row, amount)
           IN  /\ new \in SoundDebt /\ new.kind = row.kind /\ new.total = row.total
               /\ row.remaining + amount <= row.total =>
                     new.remaining = row.remaining + amount
<1> DEFINE left == IF row.remaining + amount <= row.total THEN row.remaining + amount
                   ELSE row.total
           new == [row EXCEPT !.remaining = left,
                              !.status = IF left > 0 THEN "open" ELSE row.status]
<1>1. /\ row \in DebtRow /\ row.remaining \in Nat /\ row.total \in Nat \ {0}
      /\ row.remaining <= row.total
  BY DEF SoundDebt, DebtRow
<1>2. /\ left \in Nat \ {0} /\ left <= row.total
      /\ row.remaining + amount <= row.total => left = row.remaining + amount
  BY <1>1
<1>3. Reopened(row, amount) = new
  BY DEF Reopened
<1> HIDE DEF left
<1>4. /\ new \in DebtRow /\ new.kind = row.kind /\ new.total = row.total
      /\ new.remaining = left /\ new.status = "open"
  <2>1. left > 0 /\ left \in Nat
    BY <1>2
  <2>2. new = [row EXCEPT !.remaining = left, !.status = "open"]
    BY <2>1
  <2> QED
    BY <1>1, <2>1, <2>2 DEF DebtRow
<1> HIDE DEF new
<1>5. new \in SoundDebt
  BY <1>2, <1>4 DEF SoundDebt
<1> QED
  BY <1>2, <1>3, <1>4, <1>5

\* A new debt keeps the tables and gets the next id, the largest.
LEMMA DebtInserted ==
    ASSUME TablesAgree, NEW row \in SoundDebt, InsertDebt(row), UNCHANGED <<records, payments>>
    PROVE  /\ TablesAgree'
           /\ DOMAIN debts' = DOMAIN debts \cup {seq.debts + 1}
           /\ debts'[seq.debts + 1] = row /\ \A d \in DOMAIN debts : debts'[d] = debts[d]
           /\ MaxId(DOMAIN debts') = seq.debts + 1 /\ seq.debts + 1 \in Nat \ {0}
           /\ seq'.debts = seq.debts + 1
           /\ seq'.records = seq.records /\ seq'.payments = seq.payments
<1>1. /\ debts' = With(debts, seq.debts + 1, row)
      /\ seq' = [seq EXCEPT !.debts = seq.debts + 1] /\ records' = records /\ payments' = payments
  BY DEF InsertDebt
<1>2. /\ TableOf(debts', seq.debts + 1, SoundDebt)
      /\ DOMAIN debts' = DOMAIN debts \cup {seq.debts + 1}
      /\ debts'[seq.debts + 1] = row /\ \A d \in DOMAIN debts : debts'[d] = debts[d]
      /\ MaxId(DOMAIN debts') = seq.debts + 1
  <2> DEFINE new == With(debts, seq.debts + 1, row)
  <2>1. TableOf(debts, seq.debts, SoundDebt)
    BY DEF TablesAgree, DebtsOK
  <2>2. /\ TableOf(new, seq.debts + 1, SoundDebt)
        /\ DOMAIN new = DOMAIN debts \cup {seq.debts + 1}
        /\ new[seq.debts + 1] = row /\ \A d \in DOMAIN debts : new[d] = debts[d]
        /\ MaxId(DOMAIN new) = seq.debts + 1
    BY <2>1, RowAdded DEF Adds
  <2> HIDE DEF new
  <2>3. debts' = new
    BY <1>1 DEF new
  <2> QED
    BY <2>2, <2>3
<1>3. /\ seq'.debts = seq.debts + 1 /\ seq.debts + 1 \in Nat \ {0} /\ Counters'
      /\ seq'.records = seq.records /\ seq'.payments = seq.payments
  BY <1>1 DEF TablesAgree, Counters
<1>4. TablesAgree'
  BY <1>1, <1>2, <1>3 DEF TablesAgree, DebtsOK, RecordsOK, PaymentsOK, LinksAgree
<1> QED
  BY <1>2, <1>3, <1>4

\* A debt saved over itself keeps the tables and every other debt.
LEMMA DebtReplaced ==
    ASSUME TablesAgree, NEW d \in DOMAIN debts, NEW row \in SoundDebt,
           debts' = [debts EXCEPT ![d] = row], UNCHANGED <<records, payments, seq>>
    PROVE  /\ TablesAgree' /\ DOMAIN debts' = DOMAIN debts /\ debts'[d] = row
           /\ \A e \in DOMAIN debts : e # d => debts'[e] = debts[e]
<1>1. DOMAIN debts' = DOMAIN debts /\ debts'[d] = row
      /\ \A e \in DOMAIN debts : e # d => debts'[e] = debts[e]
  OBVIOUS
<1>2. TableOf(debts', seq.debts, SoundDebt)
  BY DEF TablesAgree, DebtsOK, TableOf
<1> QED
  BY <1>1, <1>2 DEF TablesAgree, Counters, DebtsOK, RecordsOK, PaymentsOK, LinksAgree

\* What the references of a new row must be.
RecordFits(row) == row.debt \in DOMAIN debts \cup {None}

PaymentFits(row) ==
    /\ row.debt \in DOMAIN debts
    /\ row.record # None => /\ row.record \in DOMAIN records
                            /\ records[row.record].debt = row.debt
                            /\ records[row.record].kind \in ExpectedKinds(row.type)
                            /\ \A p \in DOMAIN payments : payments[p].record # row.record

\* A new record of a debt keeps the tables; no payment has it yet.
LEMMA RecordInserted ==
    ASSUME TablesAgree, NEW row \in RecordRow, RecordFits(row),
           InsertRecord(row), UNCHANGED <<debts, payments>>
    PROVE  /\ TablesAgree'
           /\ DOMAIN records' = DOMAIN records \cup {seq.records + 1}
           /\ records'[seq.records + 1] = row /\ MaxId(DOMAIN records') = seq.records + 1
           /\ \A p \in DOMAIN payments : payments[p].record # seq.records + 1
           /\ seq'.records = seq.records + 1
           /\ seq'.debts = seq.debts /\ seq'.payments = seq.payments
<1>1. /\ records' = With(records, seq.records + 1, row)
      /\ seq' = [seq EXCEPT !.records = seq.records + 1] /\ debts' = debts /\ payments' = payments
  BY DEF InsertRecord
<1>2. /\ TableOf(records', seq.records + 1, RecordRow)
      /\ DOMAIN records' = DOMAIN records \cup {seq.records + 1}
      /\ records'[seq.records + 1] = row
      /\ \A i \in DOMAIN records : records'[i] = records[i]
      /\ MaxId(DOMAIN records') = seq.records + 1
  <2> DEFINE new == With(records, seq.records + 1, row)
  <2>1. TableOf(records, seq.records, RecordRow)
    BY DEF TablesAgree, RecordsOK
  <2>2. Adds(new, records, seq.records, RecordRow, row)
    BY <2>1, RowAdded
  <2> HIDE DEF new
  <2>3. records' = new
    BY <1>1 DEF new
  <2> QED
    BY <2>2, <2>3 DEF Adds
<1>3. /\ seq'.records = seq.records + 1 /\ Counters'
      /\ seq'.debts = seq.debts /\ seq'.payments = seq.payments
  BY <1>1 DEF TablesAgree, Counters
<1>4. \A p \in DOMAIN payments : payments[p].record # seq.records + 1
  <2>1. seq.records + 1 \notin DOMAIN records \cup {None}
    BY TableIds DEF TablesAgree, RecordsOK, None
  <2> QED
    BY <2>1 DEF TablesAgree, PaymentsOK
<1>5. RecordsOK'
  BY <1>1, <1>2, <1>3 DEF TablesAgree, RecordsOK, RecordFits
<1>6. DebtsOK' /\ PaymentsOK'
  BY <1>1, <1>2, <1>3 DEF TablesAgree, DebtsOK, PaymentsOK
<1>7. LinksAgree'
  <2>1. \A p \in DOMAIN payments : payments[p].record # None =>
           records'[payments[p].record] = records[payments[p].record]
    BY <1>2 DEF TablesAgree, PaymentsOK
  <2> QED
    BY <1>1, <2>1 DEF TablesAgree, LinksAgree
<1> QED
  BY <1>2, <1>3, <1>4, <1>5, <1>6, <1>7 DEF TablesAgree

\* A new payment that fits keeps the tables.
LEMMA PaymentInserted ==
    ASSUME TablesAgree, NEW row \in PaymentRow, PaymentFits(row),
           InsertPayment(row), UNCHANGED <<debts, records>>
    PROVE  /\ TablesAgree' /\ payments' = With(payments, seq.payments + 1, row)
           /\ DOMAIN payments' = DOMAIN payments \cup {seq.payments + 1}
           /\ seq'.payments = seq.payments + 1
           /\ seq'.debts = seq.debts /\ seq'.records = seq.records
<1> DEFINE n == seq.payments + 1
<1>1. /\ payments' = With(payments, n, row)
      /\ seq' = [seq EXCEPT !.payments = n] /\ debts' = debts /\ records' = records
  BY DEF InsertPayment
<1>2. /\ TableOf(payments', n, PaymentRow)
      /\ DOMAIN payments' = DOMAIN payments \cup {n}
      /\ payments'[n] = row
      /\ \A p \in DOMAIN payments : payments'[p] = payments[p]
      /\ n \notin DOMAIN payments
  <2> DEFINE new == With(payments, n, row)
  <2>1. TableOf(payments, seq.payments, PaymentRow)
    BY DEF TablesAgree, PaymentsOK
  <2>2. n \notin DOMAIN payments
    BY <2>1, TableIds
  <2>3. Adds(new, payments, seq.payments, PaymentRow, row)
    BY <2>1, RowAdded
  <2> HIDE DEF new, n
  <2>4. payments' = new
    BY <1>1 DEF new
  <2> QED
    BY <2>2, <2>3, <2>4 DEF Adds, n
<1>3. /\ seq'.payments = n /\ Counters'
      /\ seq'.debts = seq.debts /\ seq'.records = seq.records
  BY <1>1 DEF TablesAgree, Counters
<1> HIDE DEF n
<1>4. DebtsOK' /\ RecordsOK'
  BY <1>1, <1>3 DEF TablesAgree, DebtsOK, RecordsOK
<1>5. PaymentsOK'
  BY <1>1, <1>2, <1>3 DEF TablesAgree, PaymentsOK, PaymentFits
<1>6. LinksAgree'
  BY <1>1, <1>2 DEF TablesAgree, LinksAgree, PaymentFits
<1> QED
  BY <1>1, <1>2, <1>3, <1>4, <1>5, <1>6 DEF TablesAgree, n

\* Records are deleted: payments lose those they had and keep everything else.
LEMMA RecordsDropped ==
    ASSUME TablesAgree, NEW S, DropRecords(S), Counters',
           seq'.debts = seq.debts, seq'.payments = seq.payments,
           seq'.records = seq.records \/ DOMAIN records \subseteq S
    PROVE  /\ TablesAgree' /\ debts' = debts /\ DOMAIN records' = DOMAIN records \ S
           /\ DOMAIN payments' = DOMAIN payments
           /\ \A p \in DOMAIN payments : /\ payments'[p].amount = payments[p].amount
                                         /\ payments'[p].debt = payments[p].debt
<1>1. records' = Without(records, S) /\ payments' = Unlink(S) /\ debts' = debts
  BY DEF DropRecords
<1>2. /\ TableOf(records', seq.records, RecordRow) /\ DOMAIN records' = DOMAIN records \ S
      /\ \A i \in DOMAIN records' : records'[i] = records[i]
  <2> DEFINE new == Without(records, S)
  <2>1. TableOf(records, seq.records, RecordRow)
    BY DEF TablesAgree, RecordsOK
  <2>2. /\ TableOf(new, seq.records, RecordRow) /\ DOMAIN new = DOMAIN records \ S
        /\ \A i \in DOMAIN new : new[i] = records[i]
    BY <2>1, RowsRemoved
  <2> HIDE DEF new
  <2>3. records' = new
    BY <1>1 DEF new
  <2> QED
    BY <2>2, <2>3
<1>3. TableOf(records', seq'.records, RecordRow)
  BY <1>2 DEF TableOf, Counters
<1>4. ASSUME NEW p \in DOMAIN payments
      PROVE  /\ payments'[p] \in PaymentRow
             /\ payments'[p].amount = payments[p].amount
             /\ payments'[p].debt = payments[p].debt
             /\ payments'[p].type = payments[p].type
             /\ payments'[p].record = IF payments[p].record \in S THEN None
                                      ELSE payments[p].record
  <2>1. payments[p] \in PaymentRow
    BY TableIds DEF TablesAgree, PaymentsOK
  <2>2. payments'[p] = IF payments[p].record \in S THEN [payments[p] EXCEPT !.record = None]
                       ELSE payments[p]
    BY <1>1 DEF Unlink
  <2> QED
    BY <2>1, <2>2 DEF PaymentRow, None
<1>5. DOMAIN payments' = DOMAIN payments /\ payments' \in [DOMAIN payments' -> PaymentRow]
  <2>1. DOMAIN payments' = DOMAIN payments /\ payments' = [p \in DOMAIN payments |-> payments'[p]]
    BY <1>1 DEF Unlink
  <2> QED
    BY <1>4, <2>1
<1>6. DebtsOK' /\ RecordsOK'
  BY <1>1, <1>2, <1>3 DEF TablesAgree, DebtsOK, RecordsOK
<1>7. PaymentsOK'
  <2>1. TableOf(payments', seq'.payments, PaymentRow)
    BY <1>5 DEF TablesAgree, PaymentsOK, TableOf
  <2> QED
    BY <1>1, <1>2, <1>4, <1>5, <2>1 DEF TablesAgree, PaymentsOK
<1>8. LinksAgree'
  <2>1. \A p \in DOMAIN payments : payments'[p].record # None =>
           /\ payments'[p].record = payments[p].record
           /\ records'[payments[p].record] = records[payments[p].record]
    BY <1>2, <1>4 DEF TablesAgree, PaymentsOK
  <2> QED
    BY <1>4, <1>5, <2>1 DEF TablesAgree, LinksAgree
<1> QED
  BY <1>1, <1>2, <1>4, <1>5, <1>6, <1>7, <1>8 DEF TablesAgree

\* A debt is deleted with its payments; its records stay and are the records of no debt.
LEMMA DebtDropped ==
    ASSUME TablesAgree, NEW d \in DOMAIN debts, DropDebt(d), UNCHANGED seq
    PROVE  /\ TablesAgree' /\ DOMAIN debts' = DOMAIN debts \ {d}
           /\ \A e \in DOMAIN debts' : debts'[e] = debts[e]
           /\ DOMAIN payments' = DOMAIN payments \ PaymentsOf(d)
           /\ \A p \in DOMAIN payments' : payments'[p] = payments[p]
<1>1. /\ debts' = Without(debts, {d}) /\ payments' = Without(payments, PaymentsOf(d))
      /\ records' = [i \in DOMAIN records |->
                        IF records[i].debt = d THEN [records[i] EXCEPT !.debt = None]
                        ELSE records[i]]
      /\ seq' = seq
  BY DEF DropDebt
<1>2. /\ TableOf(debts', seq.debts, SoundDebt) /\ DOMAIN debts' = DOMAIN debts \ {d}
      /\ \A e \in DOMAIN debts' : debts'[e] = debts[e]
  <2> DEFINE new == Without(debts, {d})
  <2>1. TableOf(debts, seq.debts, SoundDebt)
    BY DEF TablesAgree, DebtsOK
  <2>2. /\ TableOf(new, seq.debts, SoundDebt) /\ DOMAIN new = DOMAIN debts \ {d}
        /\ \A e \in DOMAIN new : new[e] = debts[e]
    BY <2>1, RowsRemoved
  <2> HIDE DEF new
  <2>3. debts' = new
    BY <1>1 DEF new
  <2> QED
    BY <2>2, <2>3
<1>3. /\ TableOf(payments', seq.payments, PaymentRow)
      /\ DOMAIN payments' = DOMAIN payments \ PaymentsOf(d)
      /\ \A p \in DOMAIN payments' : payments'[p] = payments[p]
  <2> DEFINE new == Without(payments, PaymentsOf(d))
  <2>1. TableOf(payments, seq.payments, PaymentRow)
    BY DEF TablesAgree, PaymentsOK
  <2>2. /\ TableOf(new, seq.payments, PaymentRow) /\ DOMAIN new = DOMAIN payments \ PaymentsOf(d)
        /\ \A p \in DOMAIN new : new[p] = payments[p]
    BY <2>1, RowsRemoved
  <2> HIDE DEF new
  <2>3. payments' = new
    BY <1>1 DEF new
  <2> QED
    BY <2>2, <2>3
<1>4. ASSUME NEW i \in DOMAIN records
      PROVE  /\ records'[i] \in RecordRow /\ records'[i].kind = records[i].kind
             /\ records'[i].debt = IF records[i].debt = d THEN None ELSE records[i].debt
  <2>1. records[i] \in RecordRow
    BY TableIds DEF TablesAgree, RecordsOK
  <2>2. records'[i] = IF records[i].debt = d THEN [records[i] EXCEPT !.debt = None] ELSE records[i]
    BY <1>1
  <2> QED
    BY <2>1, <2>2 DEF RecordRow, None
<1>5. DOMAIN records' = DOMAIN records /\ records' \in [DOMAIN records' -> RecordRow]
  <2>1. DOMAIN records' = DOMAIN records /\ records' = [i \in DOMAIN records |-> records'[i]]
    BY <1>1
  <2> QED
    BY <1>4, <2>1
<1>6. \A p \in DOMAIN payments' : payments[p].debt # d
  BY <1>3 DEF PaymentsOf
<1>7. DebtsOK' /\ Counters'
  BY <1>1, <1>2 DEF TablesAgree, DebtsOK, Counters
<1>8. RecordsOK'
  <2>1. TableOf(records', seq'.records, RecordRow)
    BY <1>1, <1>5 DEF TablesAgree, RecordsOK, TableOf
  <2>2. \A i \in DOMAIN records : records'[i].debt \in DOMAIN debts' \cup {None}
    BY <1>2, <1>4 DEF TablesAgree, RecordsOK
  <2> QED
    BY <1>5, <2>1, <2>2 DEF RecordsOK
<1>9. PaymentsOK'
  BY <1>1, <1>2, <1>3, <1>5, <1>6 DEF TablesAgree, PaymentsOK
<1>10. LinksAgree'
  <2>1. \A p \in DOMAIN payments' : payments'[p].record # None =>
           /\ records'[payments'[p].record].debt = payments'[p].debt
           /\ records'[payments'[p].record].kind \in ExpectedKinds(payments'[p].type)
    BY <1>3, <1>4, <1>6 DEF TablesAgree, PaymentsOK, LinksAgree
  <2>2. \A p, q \in DOMAIN payments' :
           p # q /\ payments'[p].record # None => payments'[p].record # payments'[q].record
    BY <1>3 DEF TablesAgree, LinksAgree
  <2> QED
    BY <2>1, <2>2 DEF LinksAgree
<1> QED
  BY <1>2, <1>3, <1>7, <1>8, <1>9, <1>10 DEF TablesAgree

\* A payment is deleted: nothing refers to it.
LEMMA PaymentDropped ==
    ASSUME TablesAgree, NEW p, payments' = Without(payments, {p}),
           UNCHANGED <<debts, records, seq>>
    PROVE  TablesAgree' /\ DOMAIN payments' = DOMAIN payments \ {p}
<1>1. /\ TableOf(payments', seq.payments, PaymentRow) /\ DOMAIN payments' = DOMAIN payments \ {p}
      /\ \A q \in DOMAIN payments' : payments'[q] = payments[q]
  <2> DEFINE new == Without(payments, {p})
  <2>1. TableOf(payments, seq.payments, PaymentRow)
    BY DEF TablesAgree, PaymentsOK
  <2>2. /\ TableOf(new, seq.payments, PaymentRow) /\ DOMAIN new = DOMAIN payments \ {p}
        /\ \A q \in DOMAIN new : new[q] = payments[q]
    BY <2>1, RowsRemoved
  <2> HIDE DEF new
  <2>3. payments' = new
    BY DEF new
  <2> QED
    BY <2>2, <2>3
<1>2. Counters' /\ DebtsOK' /\ RecordsOK'
  BY DEF TablesAgree, Counters, DebtsOK, RecordsOK
<1>3. \A q \in DOMAIN payments' : q \in DOMAIN payments /\ payments'[q] = payments[q]
  BY <1>1
<1>4. PaymentsOK'
  BY <1>1, <1>3 DEF TablesAgree, PaymentsOK
<1>5. LinksAgree'
  <2>1. LinksAgree /\ records' = records
    BY DEF TablesAgree
  <2>2. \A q \in DOMAIN payments' : payments'[q].record # None =>
           /\ records'[payments'[q].record].debt = payments'[q].debt
           /\ records'[payments'[q].record].kind \in ExpectedKinds(payments'[q].type)
    BY <1>3, <2>1 DEF LinksAgree
  <2>3. ASSUME NEW q \in DOMAIN payments', NEW r \in DOMAIN payments', q # r,
               payments'[q].record # None
        PROVE  payments'[q].record # payments'[r].record
    <3>1. /\ q \in DOMAIN payments /\ payments'[q] = payments[q]
          /\ r \in DOMAIN payments /\ payments'[r] = payments[r]
      BY <1>3
    <3> QED
      BY <2>1, <2>3, <3>1 DEF LinksAgree
  <2> QED
    BY <2>2, <2>3 DEF LinksAgree
<1> QED
  BY <1>1, <1>2, <1>4, <1>5 DEF TablesAgree

\* The amount of a record is edited: nothing refers to it.
LEMMA RecordEdited ==
    ASSUME TablesAgree, NEW i \in DOMAIN records, NEW amount \in Nat \ {0},
           records' = [records EXCEPT ![i].amount = amount], UNCHANGED <<debts, payments, seq>>
    PROVE  TablesAgree' /\ DOMAIN records' = DOMAIN records
<1>1. \A j \in DOMAIN records : records[j] \in RecordRow
  BY TableIds DEF TablesAgree, RecordsOK
<1>2. DOMAIN records' = DOMAIN records
  OBVIOUS
<1>3. \A j \in DOMAIN records : /\ records'[j] \in RecordRow
                                /\ records'[j].kind = records[j].kind
                                /\ records'[j].debt = records[j].debt
  BY <1>1 DEF RecordRow
<1>4. records' \in [DOMAIN records' -> RecordRow]
  <2>1. records' = [j \in DOMAIN records |-> records'[j]]
    OBVIOUS
  <2> QED
    BY <1>2, <1>3, <2>1
<1>5. RecordsOK'
  BY <1>2, <1>3, <1>4 DEF TablesAgree, RecordsOK, TableOf
<1>6. LinksAgree'
  BY <1>3 DEF TablesAgree, PaymentsOK, LinksAgree
<1> QED
  BY <1>2, <1>5, <1>6 DEF TablesAgree, Counters, DebtsOK, PaymentsOK

\* A renumbering keeps the tables and their counters.
LEMMA TablesRenumbered ==
    ASSUME TablesAgree, Renumbering
    PROVE  TablesAgree'
<1>1. Counters'
  BY TableIds, FS_CardinalityType DEF Renumbering, Counters, TablesAgree, DebtsOK, RecordsOK,
                                      PaymentsOK, Ids
<1> QED
  BY <1>1, RenumberingKeepsTables DEF TablesAgree

(***************************************************************************)
(* The inductive invariant: the tables agree; the operation under way      *)
(* holds what the commits it has yet to make need; and while no operation  *)
(* has been cut off, ids are dense outside of a deletion, a deletion still *)
(* speaks of the payment and the debt it started from, and every debt is   *)
(* what remains of it plus what was paid, the operation under way counted. *)
(***************************************************************************)
Paying   == {"payment", "settle"}
Deleting == {"renumber_then_delete", "delete_payment", "renumber_then_reopen", "reopen"}

OpenOp == [at : {"open_record"}, debt : Nat \ {0}, kind : {"debt", "loan"}, amount : Nat \ {0}]

PayingOp == [at : Paying, debt : Nat \ {0},
             type : {"debt_repay", "loan_collect", "debt_forgive"}, amount : Nat \ {0},
             row : SoundDebt]

DeletingOp == [at : Deleting, payment : Nat \ {0}, amount : Nat \ {0}, debt : Nat \ {0},
               row : SoundDebt]

\* The payment that is about to be inserted may have the last record.
RecordWaits ==
    LET r == MaxId(DOMAIN records)
    IN  /\ r \in DOMAIN records
        /\ records[r].debt = op.debt /\ records[r].kind \in ExpectedKinds(op.type)
        /\ \A p \in DOMAIN payments : payments[p].record # r

OperationOK ==
    /\ op.at \in Stage
    /\ op.at = "open_record" => op \in OpenOp /\ op.debt \in DOMAIN debts
    /\ op.at \in Paying => /\ op \in PayingOp /\ op.debt \in DOMAIN debts
                           /\ op.amount <= debts[op.debt].remaining
                           /\ op.row = ApplyPayment(debts[op.debt], op.amount)
    /\ op.at = "payment" => op.type # "debt_forgive" /\ RecordWaits
    /\ op.at \in Deleting => op \in DeletingOp

DenseTables ==
    /\ op.at # "renumber" => DOMAIN debts = 1 .. seq.debts
    /\ op.at \notin {"renumber", "renumber_then_delete"} => DOMAIN records = 1 .. seq.records
    /\ op.at \notin {"renumber", "renumber_then_reopen"} => DOMAIN payments = 1 .. seq.payments

AskedPayment ==
    /\ op.at \in {"renumber_then_delete", "delete_payment"} =>
          /\ op.payment \in DOMAIN payments
          /\ payments[op.payment].amount = op.amount /\ payments[op.payment].debt = op.debt
    /\ op.at \in Deleting => /\ op.debt \in DOMAIN debts
                             /\ op.row = Reopened(debts[op.debt], op.amount)

\* What remains of a debt once the operation under way is done with the payment it has
\* inserted or deleted.
Unpaid(d) ==
    IF op.at = "settle" /\ op.debt = d THEN debts[d].remaining - op.amount
    ELSE IF op.at \in {"renumber_then_reopen", "reopen"} /\ op.debt = d
         THEN debts[d].remaining + op.amount
         ELSE debts[d].remaining

Balanced == \A d \in DOMAIN debts : debts[d].total = Unpaid(d) + PaidIn(payments, d)

Calm == DenseTables /\ AskedPayment /\ Balanced

IInv ==
    /\ interrupts \in 0 .. MaxInterrupts
    /\ TablesAgree
    /\ OperationOK
    /\ interrupts = 0 => Calm

\* The stages an operation without local variables is in.
Bare == {"idle", "renumber"}

\* The initial state satisfies the invariant: all tables are empty.
LEMMA InitInv == Init => IInv
<1> SUFFICES ASSUME Init
             PROVE  IInv
  OBVIOUS
<1>1. /\ DOMAIN debts = {} /\ DOMAIN records = {} /\ DOMAIN payments = {}
      /\ seq = [debts |-> 0, records |-> 0, payments |-> 0] /\ op.at = "idle"
      /\ interrupts = 0
  BY DEF Init, Idle
<1>2. /\ TableOf(debts, 0, SoundDebt) /\ TableOf(records, 0, RecordRow)
      /\ TableOf(payments, 0, PaymentRow)
  <2>1. /\ debts \in [{} -> SoundDebt] /\ records \in [{} -> RecordRow]
        /\ payments \in [{} -> PaymentRow]
    BY DEF Init
  <2> QED
    BY <1>1, <2>1 DEF TableOf
<1>3. TablesAgree
  BY <1>1, <1>2 DEF TablesAgree, Counters, DebtsOK, RecordsOK, PaymentsOK, LinksAgree
<1>4. OperationOK
  BY <1>1 DEF OperationOK, Stage, Paying, Deleting
<1>5. Calm
  <2>1. 1 .. 0 = {}
    OBVIOUS
  <2> QED
    BY <1>1, <2>1 DEF Calm, DenseTables, AskedPayment, Balanced, Deleting
<1> QED
  BY <1>1, <1>3, <1>4, <1>5, DebtsAssumption DEF IInv

(***************************************************************************)
(* The facts about rows that the actions need.                             *)
(***************************************************************************)
LEMMA RowsOfTables ==
    ASSUME TablesAgree
    PROVE  /\ \A d \in DOMAIN debts : /\ debts[d] \in SoundDebt /\ d \in Nat \ {0}
                                      /\ debts[d].remaining \in Nat
                                      /\ debts[d].total \in Nat \ {0}
                                      /\ debts[d].remaining <= debts[d].total
                                      /\ debts[d].kind \in {"debt", "loan"}
           /\ \A p \in DOMAIN payments : /\ p \in Nat \ {0} /\ payments[p].amount \in Nat \ {0}
                                         /\ payments[p].debt \in DOMAIN debts
           /\ \A i \in DOMAIN records : i \in Nat \ {0}
           /\ \A d : PaidIn(payments, d) \in Nat
           /\ TableOf(payments, seq.payments, PaymentRow)
<1>1. /\ TableOf(debts, seq.debts, SoundDebt) /\ TableOf(records, seq.records, RecordRow)
      /\ TableOf(payments, seq.payments, PaymentRow)
  BY DEF TablesAgree, DebtsOK, RecordsOK, PaymentsOK
<1>2. \A d \in DOMAIN debts : d \in Nat \ {0} /\ debts[d] \in SoundDebt
  BY <1>1, TableIds
<1>3. \A p \in DOMAIN payments : p \in Nat \ {0} /\ payments[p] \in PaymentRow
  BY <1>1, TableIds
<1>4. \A i \in DOMAIN records : i \in Nat \ {0}
  BY <1>1, TableIds
<1>5. \A d \in DOMAIN debts : /\ debts[d].remaining \in Nat /\ debts[d].total \in Nat \ {0}
                              /\ debts[d].remaining <= debts[d].total
                              /\ debts[d].kind \in {"debt", "loan"}
  BY <1>2 DEF SoundDebt, DebtRow
<1>6. \A p \in DOMAIN payments : payments[p].amount \in Nat \ {0}
  BY <1>3 DEF PaymentRow
<1>7. \A p \in DOMAIN payments : payments[p].debt \in DOMAIN debts
  BY DEF TablesAgree, PaymentsOK
<1>8. \A d : PaidIn(payments, d) \in Nat
  BY <1>1, PaidIsTotal
<1> QED
  BY <1>1, <1>2, <1>3, <1>4, <1>5, <1>6, <1>7, <1>8

\* Nothing was paid on a debt without payments.
LEMMA PaidNothing ==
    ASSUME TablesAgree, NEW d, \A p \in DOMAIN payments : payments[p].debt # d
    PROVE  PaidIn(payments, d) = 0
<1>1. PaymentsIn(payments, d) = {}
  BY DEF PaymentsIn
<1>2. PaidIn(payments, d) = Total(AmountColumn(payments), {})
  BY <1>1, RowsOfTables, PaidIsTotal
<1> QED
  BY <1>2, TotalEmpty

\* An operation moves to its next stage with its local variables.
LEMMA NextStage ==
    /\ \A o \in PayingOp : \A at \in Paying :
          LET new == [o EXCEPT !.at = at]
          IN  /\ new \in PayingOp /\ new.at = at /\ new.debt = o.debt /\ new.type = o.type
              /\ new.amount = o.amount /\ new.row = o.row
    /\ \A o \in DeletingOp : \A at \in Deleting :
          LET new == [o EXCEPT !.at = at]
          IN  /\ new \in DeletingOp /\ new.at = at /\ new.debt = o.debt
              /\ new.payment = o.payment /\ new.amount = o.amount /\ new.row = o.row
<1>1. \A o \in PayingOp : \A at \in Paying :
          LET new == [o EXCEPT !.at = at]
          IN  /\ new \in PayingOp /\ new.at = at /\ new.debt = o.debt /\ new.type = o.type
              /\ new.amount = o.amount /\ new.row = o.row
  BY DEF PayingOp
<1>2. \A o \in DeletingOp : \A at \in Deleting :
          LET new == [o EXCEPT !.at = at]
          IN  /\ new \in DeletingOp /\ new.at = at /\ new.debt = o.debt
              /\ new.payment = o.payment /\ new.amount = o.amount /\ new.row = o.row
  BY DEF DeletingOp
<1> QED
  BY <1>1, <1>2

\* What was paid stays when payments keep their debts and amounts.
LEMMA PaidUntouched ==
    ASSUME TablesAgree, TablesAgree', DOMAIN payments' = DOMAIN payments,
           \A p \in DOMAIN payments : /\ payments'[p].amount = payments[p].amount
                                     /\ payments'[p].debt = payments[p].debt
    PROVE  \A d : PaidIn(payments', d) = PaidIn(payments, d)
<1> SUFFICES ASSUME NEW d
             PROVE  PaidIn(payments', d) = PaidIn(payments, d)
  OBVIOUS
<1>1. /\ TableOf(payments, seq.payments, PaymentRow)
      /\ TableOf(payments', seq'.payments, PaymentRow)
  BY DEF TablesAgree, PaymentsOK
<1>2. PaymentsIn(payments', d) = PaymentsIn(payments, d)
  BY DEF PaymentsIn
<1>3. \A p \in PaymentsIn(payments', d) : payments'[p].amount = payments[p].amount
  BY DEF PaymentsIn
<1> QED
  BY <1>1, <1>2, <1>3, PaidSame

\* What a renumbering keeps when the ids of debts have no gap, and what it leaves.
LEMMA RenumberedDense ==
    ASSUME TablesAgree, Renumbering
    PROVE  /\ DOMAIN debts' = 1 .. seq'.debts /\ DOMAIN records' = 1 .. seq'.records
           /\ DOMAIN payments' = 1 .. seq'.payments
  BY RenumberedRows DEF TablesAgree

\* Where the ids of debts have no gap, a renumbering leaves the debts and what was paid on them.
LEMMA DebtsStay ==
    ASSUME TablesAgree, Renumbering, DOMAIN debts = 1 .. seq.debts
    PROVE  /\ debts' = debts
           /\ \A d \in DOMAIN debts : PaidIn(payments', d) = PaidIn(payments, d)
<1>1. TableOf(debts, seq.debts, SoundDebt)
  BY DEF TablesAgree, DebtsOK
<1>2. seq.debts \in Nat /\ debts = [i \in 1 .. seq.debts |-> debts[i]]
  BY <1>1 DEF TableOf
<1>3. Reinserted(debts) = debts
  BY <1>2, DenseReinserted
<1>4. debts' = debts
  BY <1>3 DEF Renumbering
<1>5. \A d \in DOMAIN debts : Rank(DOMAIN debts, d) = d
  BY <1>2, DenseRanks
<1>6. \A d \in DOMAIN debts : PaidIn(payments', Rank(DOMAIN debts, d)) = PaidIn(payments, d)
  BY PaidRenumbered DEF TablesAgree
<1> QED
  BY <1>4, <1>5, <1>6

\* When the ids of payments have no gap either, they keep their ids, amounts and debts.
LEMMA PaymentsStay ==
    ASSUME TablesAgree, Renumbering,
           DOMAIN debts = 1 .. seq.debts, DOMAIN payments = 1 .. seq.payments
    PROVE  \A p \in DOMAIN payments : /\ p \in DOMAIN payments'
                                      /\ payments'[p].amount = payments[p].amount
                                      /\ payments'[p].debt = payments[p].debt
<1>1. seq.debts \in Nat /\ seq.payments \in Nat
  BY DEF TablesAgree, DebtsOK, PaymentsOK, TableOf
<1>2. /\ \A d \in DOMAIN debts : Rank(DOMAIN debts, d) = d
      /\ \A p \in DOMAIN payments : Rank(DOMAIN payments, p) = p
  BY <1>1, DenseRanks
<1>3. \A p \in DOMAIN payments :
         /\ Rank(DOMAIN payments, p) \in DOMAIN payments'
         /\ payments'[Rank(DOMAIN payments, p)].amount = payments[p].amount
         /\ payments'[Rank(DOMAIN payments, p)].debt = Rank(DOMAIN debts, payments[p].debt)
  BY RenumberedRows DEF TablesAgree
<1>4. \A p \in DOMAIN payments : payments[p].debt \in DOMAIN debts
  BY RowsOfTables
<1> QED
  BY <1>2, <1>3, <1>4

\* A renumbering keeps every debt balanced that no operation under way is about.
LEMMA BalanceRenumbered ==
    ASSUME TablesAgree, Renumbering,
           \A d \in DOMAIN debts : debts[d].total = debts[d].remaining + PaidIn(payments, d)
    PROVE  \A e \in DOMAIN debts' :
              debts'[e].total = debts'[e].remaining + PaidIn(payments', e)
<1> SUFFICES ASSUME NEW e \in DOMAIN debts'
             PROVE  debts'[e].total = debts'[e].remaining + PaidIn(payments', e)
  OBVIOUS
<1>1. PICK d \in DOMAIN debts : Rank(DOMAIN debts, d) = e /\ debts'[e] = debts[d]
  BY RenumberedRows DEF TablesAgree
<1>2. PaidIn(payments', e) = PaidIn(payments, d)
  BY <1>1, PaidRenumbered DEF TablesAgree
<1> QED
  BY <1>1, <1>2

(***************************************************************************)
(* Every action keeps the invariant.                                       *)
(***************************************************************************)

\* An operation that has no commit left: nothing to require of its local variables.
LEMMA BareOperation ==
    ASSUME op'.at \in Bare
    PROVE  OperationOK'
  BY DEF OperationOK, Bare, Stage, Paying, Deleting

\* A new debt or loan owes all of it, and nothing was paid.
LEMMA KeptByCreateObligation ==
    ASSUME IInv, NEW kind \in {"debt", "loan"}, NEW amount \in Amounts,
           CreateObligation(kind, amount)
    PROVE  IInv'
<1> DEFINE row == [kind |-> kind, total |-> amount, remaining |-> amount, status |-> "open"]
           n == seq.debts + 1
<1>1. /\ TablesAgree /\ op.at = "idle" /\ interrupts \in 0 .. MaxInterrupts
      /\ interrupts = 0 => Calm
  BY DEF IInv, CreateObligation, Idle
<1>2. amount \in Nat \ {0} /\ row \in SoundDebt
  BY DebtsAssumption DEF SoundDebt, DebtRow
<1>3. /\ InsertDebt(row) /\ records' = records /\ payments' = payments
      /\ interrupts' = interrupts
      /\ op' = [at |-> "open_record", debt |-> MaxId(DOMAIN debts'), kind |-> kind,
                amount |-> amount]
  BY DEF CreateObligation
<1>4. row.total = amount /\ row.remaining = amount
  OBVIOUS
<1> HIDE DEF row
<1>5. /\ TablesAgree' /\ DOMAIN debts' = DOMAIN debts \cup {n}
      /\ debts'[n] = row /\ \A d \in DOMAIN debts : debts'[d] = debts[d]
      /\ MaxId(DOMAIN debts') = n /\ n \in Nat \ {0}
      /\ seq'.debts = n /\ seq'.records = seq.records /\ seq'.payments = seq.payments
  BY <1>1, <1>2, <1>3, DebtInserted
<1>6. op'.at = "open_record" /\ op' \in OpenOp /\ op'.debt = n
  BY <1>2, <1>3, <1>5 DEF OpenOp
<1>7. OperationOK'
  BY <1>5, <1>6 DEF OperationOK, Stage, Paying, Deleting
<1>8. ASSUME interrupts = 0
      PROVE  Calm'
  <2>1. Calm
    BY <1>1, <1>8
  <2>2. DenseTables'
    <3>1. seq.debts \in Nat /\ 1 .. seq.debts \cup {n} = 1 .. n
      BY <1>1 DEF TablesAgree, DebtsOK, TableOf
    <3> QED
      BY <1>1, <1>3, <1>5, <1>6, <2>1, <3>1 DEF Calm, DenseTables
  <2>3. AskedPayment'
    BY <1>6 DEF AskedPayment, Deleting
  <2>4. Balanced'
    <3>1. ASSUME NEW d \in DOMAIN debts
          PROVE  debts[d].total = debts[d].remaining + PaidIn(payments, d)
      BY <1>1, <2>1 DEF Calm, Balanced, Unpaid
    <3>2. PaidIn(payments, n) = 0
      <4>1. n \notin DOMAIN debts
        BY <1>1, TableIds DEF TablesAgree, DebtsOK
      <4> QED
        BY <1>1, <4>1, RowsOfTables, PaidNothing
    <3>3. \A d \in DOMAIN debts' :
             debts'[d].total = debts'[d].remaining + PaidIn(payments, d)
      BY <1>2, <1>4, <1>5, <3>1, <3>2
    <3> QED
      BY <1>3, <1>6, <3>3 DEF Balanced, Unpaid
  <2> QED
    BY <2>2, <2>3, <2>4 DEF Calm
<1> QED
  BY <1>1, <1>3, <1>5, <1>7, <1>8 DEF IInv

\* The opening record is of the debt that was just inserted.
LEMMA KeptBySaveOpenRecord ==
    ASSUME IInv, SaveOpenRecord
    PROVE  IInv'
<1> DEFINE row == [kind |-> OpenKind(op.kind), debt |-> op.debt, amount |-> op.amount]
<1>1. /\ TablesAgree /\ op.at = "open_record" /\ interrupts \in 0 .. MaxInterrupts
      /\ interrupts = 0 => Calm /\ op \in OpenOp /\ op.debt \in DOMAIN debts
  BY DEF IInv, SaveOpenRecord, OperationOK
<1>0. op \in OpenOp /\ op.debt \in DOMAIN debts
  BY <1>1 DEF IInv, OperationOK
<1>2. row \in RecordRow /\ RecordFits(row)
  BY <1>0 DEF OpenOp, RecordRow, RecordFits, OpenKind
<1>3. /\ InsertRecord(row) /\ debts' = debts /\ payments' = payments
      /\ interrupts' = interrupts /\ op'.at = "idle"
  BY DEF SaveOpenRecord, Idle
<1> HIDE DEF row
<1>4. /\ TablesAgree' /\ DOMAIN records' = DOMAIN records \cup {seq.records + 1}
      /\ seq'.records = seq.records + 1
      /\ seq'.debts = seq.debts /\ seq'.payments = seq.payments
  BY <1>1, <1>2, <1>3, RecordInserted
<1>5. ASSUME interrupts = 0
      PROVE  Calm'
  <2>1. Calm
    BY <1>1, <1>5
  <2>2. DenseTables'
    <3>1. seq.records \in Nat /\ 1 .. seq.records \cup {seq.records + 1} = 1 .. (seq.records + 1)
      BY <1>1 DEF TablesAgree, RecordsOK, TableOf
    <3> QED
      BY <1>1, <1>3, <1>4, <2>1, <3>1 DEF Calm, DenseTables
  <2>3. AskedPayment'
    BY <1>3 DEF AskedPayment, Deleting
  <2>4. Balanced'
    BY <1>1, <1>3, <2>1 DEF Calm, Balanced, Unpaid
  <2> QED
    BY <2>2, <2>3, <2>4 DEF Calm
<1>6. OperationOK'
  BY <1>3, BareOperation DEF Bare
<1> QED
  BY <1>1, <1>3, <1>4, <1>5, <1>6 DEF IInv

\* The record of a payment is the last one when the payment is to be inserted.
LEMMA KeptByRegisterPayment ==
    ASSUME IInv, NEW d \in DOMAIN debts, NEW amount \in Amounts, RegisterPayment(d, amount)
    PROVE  IInv'
<1> DEFINE kind == debts[d].kind
           row == [kind |-> PayKind(kind), debt |-> d, amount |-> amount]
           applied == ApplyPayment(debts[d], amount)
           n == seq.records + 1
<1>1. /\ TablesAgree /\ op.at = "idle" /\ interrupts \in 0 .. MaxInterrupts
      /\ interrupts = 0 => Calm
  BY DEF IInv, RegisterPayment, Idle
<1>2. /\ amount \in Nat \ {0} /\ d \in Nat \ {0} /\ kind \in {"debt", "loan"}
      /\ debts[d] \in SoundDebt
  BY <1>1, DebtsAssumption, RowsOfTables
<1>3. applied \in SoundDebt
  BY <1>2, PaymentApplied
<1>4. row \in RecordRow /\ RecordFits(row)
  BY <1>2 DEF RecordRow, RecordFits, PayKind
<1>5. /\ InsertRecord(row) /\ debts' = debts /\ payments' = payments
      /\ interrupts' = interrupts /\ amount <= debts[d].remaining
      /\ op' = [at |-> "payment", debt |-> d, type |-> PayType(kind), amount |-> amount,
                row |-> applied]
  BY DEF RegisterPayment, PaymentOp
<1>6. row.debt = d /\ row.kind \in ExpectedKinds(PayType(kind))
  BY <1>2 DEF PayKind, PayType, ExpectedKinds
<1> HIDE DEF row
<1>7. /\ TablesAgree' /\ DOMAIN records' = DOMAIN records \cup {n}
      /\ records'[n] = row /\ MaxId(DOMAIN records') = n
      /\ \A p \in DOMAIN payments : payments[p].record # n
      /\ seq'.records = n /\ seq'.debts = seq.debts /\ seq'.payments = seq.payments
  BY <1>1, <1>4, <1>5, RecordInserted
<1> HIDE DEF applied
<1>8. /\ op' \in PayingOp /\ op'.at = "payment" /\ op'.debt = d /\ op'.amount = amount
      /\ op'.row = applied /\ op'.type = PayType(kind) /\ op'.type # "debt_forgive"
  <2>1. PayType(kind) \in {"debt_repay", "loan_collect"}
    BY <1>2 DEF PayType
  <2> QED
    BY <1>2, <1>3, <1>5, <2>1 DEF PayingOp, Paying
<1>9. RecordWaits'
  BY <1>5, <1>6, <1>7, <1>8 DEF RecordWaits
<1>10. OperationOK'
  BY <1>5, <1>8, <1>9 DEF OperationOK, Stage, Paying, Deleting, applied
<1>11. ASSUME interrupts = 0
       PROVE  Calm'
  <2>1. Calm
    BY <1>1, <1>11
  <2>2. DenseTables'
    <3>1. seq.records \in Nat /\ 1 .. seq.records \cup {n} = 1 .. n
      BY <1>1 DEF TablesAgree, RecordsOK, TableOf
    <3> QED
      BY <1>1, <1>5, <1>7, <1>8, <2>1, <3>1 DEF Calm, DenseTables
  <2>3. AskedPayment'
    BY <1>8 DEF AskedPayment, Deleting
  <2>4. Balanced'
    BY <1>1, <1>5, <1>8, <2>1 DEF Calm, Balanced, Unpaid
  <2> QED
    BY <2>2, <2>3, <2>4 DEF Calm
<1> QED
  BY <1>1, <1>5, <1>7, <1>10, <1>11 DEF IInv

\* A payment of the operation's debt and amount is inserted; the debt has yet to be settled.
LEMMA PaymentAdded ==
    ASSUME IInv, NEW row \in PaymentRow, PaymentFits(row), InsertPayment(row),
           op.at \in {"idle", "payment"}, op'.at = "settle", op' \in PayingOp,
           op'.debt = row.debt, op'.amount = row.amount,
           op'.amount <= debts[op'.debt].remaining,
           op'.row = ApplyPayment(debts[op'.debt], op'.amount),
           UNCHANGED <<debts, records, interrupts>>
    PROVE  IInv'
<1> DEFINE n == seq.payments + 1
<1>1. /\ TablesAgree /\ interrupts \in 0 .. MaxInterrupts /\ (interrupts = 0 => Calm)
      /\ debts' = debts /\ records' = records /\ interrupts' = interrupts
  BY DEF IInv
<1>2. /\ TablesAgree' /\ payments' = With(payments, n, row)
      /\ DOMAIN payments' = DOMAIN payments \cup {n}
      /\ seq'.payments = n /\ seq'.debts = seq.debts /\ seq'.records = seq.records
  BY <1>1, PaymentInserted
<1>3. OperationOK'
  <2>1. row.debt \in DOMAIN debts
    BY DEF PaymentFits
  <2> QED
    BY <1>1, <2>1 DEF OperationOK, Stage, Paying, Deleting
<1>4. ASSUME interrupts = 0
      PROVE  Calm'
  <2>1. Calm
    BY <1>1, <1>4
  <2>2. DenseTables'
    <3>1. seq.payments \in Nat /\ 1 .. seq.payments \cup {n} = 1 .. n
      BY <1>1 DEF TablesAgree, PaymentsOK, TableOf
    <3> QED
      BY <1>1, <1>2, <2>1, <3>1 DEF Calm, DenseTables
  <2>3. AskedPayment'
    BY DEF AskedPayment, Deleting
  <2>4. Balanced'
    <3>1. \A d \in DOMAIN debts : debts[d].total = debts[d].remaining + PaidIn(payments, d)
      BY <2>1 DEF Calm, Balanced, Unpaid
    <3>2. TableOf(payments, seq.payments, PaymentRow)
      BY <1>1, RowsOfTables
    <3>3. \A d : PaidIn(With(payments, n, row), d)
                   = PaidIn(payments, d) + (IF row.debt = d THEN row.amount ELSE 0)
      BY <3>2, PaidAdded
    <3>4. \A d \in DOMAIN debts :
             /\ debts[d].total \in Nat /\ debts[d].remaining \in Nat
             /\ PaidIn(payments, d) \in Nat
      BY <1>1, RowsOfTables
    <3>5. row.amount \in Nat
      BY DEF PaymentRow
    <3>6. ASSUME NEW d \in DOMAIN debts
          PROVE  debts[d].total = Unpaid(d)' + PaidIn(payments', d)
      <4>1. PaidIn(payments', d)
              = PaidIn(payments, d) + (IF row.debt = d THEN row.amount ELSE 0)
        BY <1>2, <3>3
      <4>2. Unpaid(d)' = debts[d].remaining - (IF row.debt = d THEN row.amount ELSE 0)
        BY <1>1, <3>4 DEF Unpaid
      <4> QED
        BY <3>1, <3>4, <3>5, <4>1, <4>2
    <3> QED
      BY <1>1, <3>6 DEF Balanced
  <2> QED
    BY <2>2, <2>3, <2>4 DEF Calm
<1> QED
  BY <1>1, <1>2, <1>3, <1>4 DEF IInv

\* The payment is inserted with that record.
LEMMA KeptBySavePayment ==
    ASSUME IInv, SavePayment
    PROVE  IInv'
<1> DEFINE r == IF op.type = "debt_forgive" THEN None ELSE MaxId(DOMAIN records)
           row == [debt |-> op.debt, type |-> op.type, amount |-> op.amount, record |-> r]
<1>1. /\ TablesAgree /\ op.at = "payment" /\ op \in PayingOp /\ op.debt \in DOMAIN debts
      /\ op.amount <= debts[op.debt].remaining
      /\ op.row = ApplyPayment(debts[op.debt], op.amount)
      /\ op.type # "debt_forgive" /\ RecordWaits
  BY DEF IInv, OperationOK, SavePayment, Paying
<1>2. /\ op.debt \in Nat \ {0} /\ op.amount \in Nat \ {0}
      /\ op.type \in {"debt_repay", "loan_collect", "debt_forgive"}
  BY <1>1 DEF PayingOp
<1>3. /\ r \in DOMAIN records /\ records[r].debt = op.debt
      /\ records[r].kind \in ExpectedKinds(op.type)
      /\ \A p \in DOMAIN payments : payments[p].record # r
  BY <1>1 DEF RecordWaits
<1>4. r \in Nat
  BY <1>1, <1>3, RowsOfTables
<1> HIDE DEF r
<1>5. row \in PaymentRow /\ row.debt = op.debt /\ row.amount = op.amount
  BY <1>2, <1>4 DEF PaymentRow
<1>6. PaymentFits(row)
  BY <1>1, <1>3 DEF PaymentFits
<1>7. InsertPayment(row) /\ op' = [op EXCEPT !.at = "settle"]
      /\ UNCHANGED <<debts, records, interrupts>>
  BY DEF SavePayment, SavePaymentRow, r
<1> HIDE DEF row
<1>8. /\ op' \in PayingOp /\ op'.at = "settle" /\ op'.debt = op.debt /\ op'.amount = op.amount
      /\ op'.row = op.row
  BY <1>1, <1>7, NextStage DEF Paying
<1> QED
  BY <1>1, <1>5, <1>6, <1>7, <1>8, PaymentAdded

\* A write-off needs no record.
LEMMA KeptByRegisterWriteOff ==
    ASSUME IInv, NEW d \in DOMAIN debts, NEW amount \in Amounts, RegisterWriteOff(d, amount)
    PROVE  IInv'
<1> DEFINE row == [debt |-> d, type |-> "debt_forgive", amount |-> amount, record |-> None]
           applied == ApplyPayment(debts[d], amount)
<1>1. TablesAgree /\ op.at = "idle"
  BY DEF IInv, RegisterWriteOff, Idle
<1>2. amount \in Nat \ {0} /\ d \in Nat \ {0} /\ debts[d] \in SoundDebt
  BY <1>1, DebtsAssumption, RowsOfTables
<1>3. applied \in SoundDebt
  BY <1>2, PaymentApplied
<1>4. row \in PaymentRow /\ row.debt = d /\ row.amount = amount /\ PaymentFits(row)
  BY <1>2 DEF PaymentRow, PaymentFits, None
<1>5. /\ InsertPayment(row) /\ UNCHANGED <<debts, records, interrupts>>
      /\ amount <= debts[d].remaining
      /\ op' = [PaymentOp(d, "debt_forgive", amount) EXCEPT !.at = "settle"]
  BY DEF RegisterWriteOff
<1> HIDE DEF applied, row
<1>6. op' = [at |-> "settle", debt |-> d, type |-> "debt_forgive", amount |-> amount,
             row |-> applied]
  BY <1>5 DEF PaymentOp, applied
<1>7. /\ op' \in PayingOp /\ op'.at = "settle" /\ op'.debt = d /\ op'.amount = amount
      /\ op'.row = applied
  BY <1>2, <1>3, <1>6 DEF PayingOp, Paying
<1>8. debts'[op'.debt] = debts[d]
  BY <1>5, <1>7
<1> QED
  BY <1>1, <1>4, <1>5, <1>7, <1>8, PaymentAdded DEF applied

\* The debt of the operation is saved with what the operation computed for it.
LEMMA DebtSaved ==
    ASSUME IInv, op.at \in {"settle", "reopen"}, op.debt \in DOMAIN debts, op.row \in SoundDebt,
           debts' = [debts EXCEPT ![op.debt] = op.row], op'.at = "idle",
           interrupts = 0 => /\ op.row.total = debts[op.debt].total
                             /\ op.row.remaining = Unpaid(op.debt),
           UNCHANGED <<records, payments, seq, interrupts>>
    PROVE  IInv'
<1> DEFINE d == op.debt
           row == op.row
<1>1. /\ TablesAgree /\ interrupts \in 0 .. MaxInterrupts /\ (interrupts = 0 => Calm)
      /\ records' = records /\ payments' = payments /\ seq' = seq /\ interrupts' = interrupts
  BY DEF IInv
<1>2. /\ TablesAgree' /\ DOMAIN debts' = DOMAIN debts /\ debts'[d] = row
      /\ \A e \in DOMAIN debts : e # d => debts'[e] = debts[e]
  <2> HIDE DEF d, row
  <2>1. d \in DOMAIN debts /\ row \in SoundDebt /\ debts' = [debts EXCEPT ![d] = row]
    BY DEF d, row
  <2> QED
    BY <1>1, <2>1, DebtReplaced
<1>3. OperationOK'
  BY BareOperation DEF Bare
<1>4. ASSUME interrupts = 0
      PROVE  Calm'
  <2>1. Calm
    BY <1>1, <1>4
  <2>2. DenseTables'
    BY <1>1, <1>2, <2>1 DEF Calm, DenseTables
  <2>3. AskedPayment'
    BY DEF AskedPayment, Deleting
  <2>4. Balanced'
    <3>1. \A e \in DOMAIN debts : debts[e].total = Unpaid(e) + PaidIn(payments, e)
      BY <2>1 DEF Calm, Balanced
    <3>2. \A e \in DOMAIN debts : e # d => Unpaid(e) = debts[e].remaining
      BY DEF Unpaid
    <3>3. row.total = debts[d].total /\ row.remaining = Unpaid(d)
      BY <1>4
    <3> HIDE DEF d, row
    <3>4. \A e \in DOMAIN debts' :
             debts'[e].total = debts'[e].remaining + PaidIn(payments, e)
      BY <1>2, <3>1, <3>2, <3>3
    <3> QED
      BY <1>1, <3>4 DEF Balanced, Unpaid
  <2> QED
    BY <2>2, <2>3, <2>4 DEF Calm
<1> QED
  BY <1>1, <1>2, <1>3, <1>4 DEF IInv

\* The debt is saved with the payment taken off.
LEMMA KeptBySettle ==
    ASSUME IInv, Settle
    PROVE  IInv'
<1>1. /\ TablesAgree /\ op.at = "settle" /\ op \in PayingOp /\ op.debt \in DOMAIN debts
      /\ op.amount <= debts[op.debt].remaining
      /\ op.row = ApplyPayment(debts[op.debt], op.amount)
  BY DEF IInv, OperationOK, Settle, Paying
<1>2. op.amount \in Nat /\ op.row \in SoundDebt /\ debts[op.debt] \in SoundDebt
  BY <1>1, RowsOfTables DEF PayingOp
<1>3. /\ op.row.total = debts[op.debt].total
      /\ op.row.remaining = debts[op.debt].remaining - op.amount
  BY <1>1, <1>2, PaymentApplied
<1>4. op.row.remaining = Unpaid(op.debt)
  BY <1>1, <1>3 DEF Unpaid
<1>5. /\ debts' = [debts EXCEPT ![op.debt] = op.row] /\ op'.at = "idle"
      /\ UNCHANGED <<records, payments, seq, interrupts>>
  BY <1>1 DEF Settle, SaveDebt, Idle
<1> QED
  BY <1>1, <1>2, <1>3, <1>4, <1>5, DebtSaved

\* What a deletion knows of the payment and the debt it is about.
LEMMA DeletionStarted ==
    ASSUME TablesAgree, NEW p \in DOMAIN payments, NEW stage \in Deleting
    PROVE  LET o == DeletionOp(p, stage)
           IN  /\ o \in DeletingOp /\ o.at = stage /\ o.payment = p
               /\ o.amount = payments[p].amount /\ o.debt = payments[p].debt
               /\ o.debt \in DOMAIN debts /\ o.row = Reopened(debts[o.debt], o.amount)
<1> DEFINE d == payments[p].debt
           amount == payments[p].amount
           reopened == Reopened(debts[d], amount)
<1>1. /\ p \in Nat \ {0} /\ amount \in Nat \ {0} /\ d \in DOMAIN debts /\ d \in Nat \ {0}
      /\ debts[d] \in SoundDebt
  BY RowsOfTables
<1>2. reopened \in SoundDebt
  BY <1>1, PaymentTakenBack
<1>3. DeletionOp(p, stage) = [at |-> stage, payment |-> p, amount |-> amount, debt |-> d,
                              row |-> reopened]
  BY DEF DeletionOp
<1>4. reopened = Reopened(debts[d], amount)
  OBVIOUS
<1> HIDE DEF d, amount, reopened
<1> QED
  BY <1>1, <1>2, <1>3, <1>4 DEF DeletingOp, d, amount

\* The payment a deletion is about is deleted; its debt has yet to be reopened.
LEMMA PaymentDeleted ==
    ASSUME IInv, NEW o \in DeletingOp, o.at = "delete_payment", DropPayment(o.payment, o),
           op.at \in {"idle", "delete_payment"},
           interrupts = 0 =>
              /\ payments[o.payment].amount = o.amount /\ payments[o.payment].debt = o.debt
              /\ o.debt \in DOMAIN debts /\ o.row = Reopened(debts[o.debt], o.amount)
    PROVE  IInv'
<1> DEFINE p == o.payment
           d == o.debt
<1>1. /\ TablesAgree /\ interrupts \in 0 .. MaxInterrupts /\ (interrupts = 0 => Calm)
      /\ p \in DOMAIN payments /\ payments' = Without(payments, {p})
      /\ op' = [o EXCEPT !.at = "renumber_then_reopen"]
      /\ debts' = debts /\ records' = records /\ seq' = seq /\ interrupts' = interrupts
  BY DEF IInv, DropPayment
<1>2. TablesAgree' /\ DOMAIN payments' = DOMAIN payments \ {p}
  BY <1>1, PaymentDropped
<1>3. /\ op' \in DeletingOp /\ op'.at = "renumber_then_reopen" /\ op'.debt = d
      /\ op'.amount = o.amount /\ op'.row = o.row
  BY <1>1, NextStage DEF Deleting
<1>4. OperationOK'
  BY <1>3 DEF OperationOK, Stage, Paying, Deleting
<1>5. ASSUME interrupts = 0
      PROVE  Calm'
  <2>1. /\ Calm /\ payments[p].amount = o.amount /\ payments[p].debt = d
        /\ d \in DOMAIN debts /\ o.row = Reopened(debts[d], o.amount)
    BY <1>1, <1>5
  <2>2. DenseTables'
    BY <1>1, <1>2, <1>3, <2>1 DEF Calm, DenseTables
  <2>3. AskedPayment'
    BY <1>1, <1>3, <2>1 DEF AskedPayment, Deleting
  <2>4. Balanced'
    <3>1. \A e \in DOMAIN debts : debts[e].total = debts[e].remaining + PaidIn(payments, e)
      BY <2>1 DEF Calm, Balanced, Unpaid
    <3>2. \A e : PaidIn(payments, e)
                   = PaidIn(payments', e) + (IF payments[p].debt = e THEN payments[p].amount ELSE 0)
      <4>1. TableOf(payments, seq.payments, PaymentRow)
        BY <1>1, RowsOfTables
      <4>2. \A e : PaidIn(payments, e) = PaidIn(Without(payments, {p}), e)
                     + (IF payments[p].debt = e THEN payments[p].amount ELSE 0)
        BY <1>1, <4>1, PaidRemoved
      <4> QED
        BY <1>1, <4>2
    <3>3. /\ \A e : PaidIn(payments, e) \in Nat
          /\ \A e \in DOMAIN debts : debts[e].total \in Nat /\ debts[e].remaining \in Nat
          /\ payments[p].amount \in Nat
      BY <1>1, RowsOfTables
    <3>4. \A e : PaidIn(payments', e) \in Nat
      <4>1. TableOf(payments', seq'.payments, PaymentRow)
        BY <1>2 DEF TablesAgree, PaymentsOK
      <4> QED
        BY <4>1, PaidIsTotal
    <3>5. ASSUME NEW e \in DOMAIN debts
          PROVE  debts[e].total = Unpaid(e)' + PaidIn(payments', e)
      <4>1. Unpaid(e)' = debts[e].remaining + (IF payments[p].debt = e THEN payments[p].amount
                                               ELSE 0)
        BY <1>1, <1>3, <2>1, <3>3 DEF Unpaid
      <4> QED
        BY <3>1, <3>2, <3>3, <3>4, <4>1
    <3> QED
      BY <1>1, <3>5 DEF Balanced
  <2> QED
    BY <2>2, <2>3, <2>4 DEF Calm
<1> QED
  BY <1>1, <1>2, <1>4, <1>5 DEF IInv

\* A deletion starts with the record of the payment or with the payment itself.
LEMMA KeptByDeletePayment ==
    ASSUME IInv, NEW p \in DOMAIN payments, NEW withRecord \in BOOLEAN,
           DeletePayment(p, withRecord)
    PROVE  IInv'
<1>1. /\ TablesAgree /\ op.at = "idle" /\ interrupts \in 0 .. MaxInterrupts
      /\ interrupts = 0 => Calm
  BY DEF IInv, DeletePayment, Idle
<1>2. CASE withRecord /\ payments[p].record # None
  <2> DEFINE S == {payments[p].record}
             o == DeletionOp(p, "renumber_then_delete")
  <2>1. /\ DropRecords(S) /\ op' = o /\ seq' = seq /\ interrupts' = interrupts
    BY <1>2 DEF DeletePayment
  <2>2. /\ TablesAgree' /\ debts' = debts /\ DOMAIN records' = DOMAIN records \ S
        /\ DOMAIN payments' = DOMAIN payments
        /\ \A q \in DOMAIN payments : /\ payments'[q].amount = payments[q].amount
                                      /\ payments'[q].debt = payments[q].debt
    <3>1. Counters'
      BY <1>1, <2>1 DEF TablesAgree, Counters
    <3> HIDE DEF S
    <3> QED
      BY <1>1, <2>1, <3>1, RecordsDropped
  <2>3. /\ o \in DeletingOp /\ o.at = "renumber_then_delete" /\ o.payment = p
        /\ o.amount = payments[p].amount /\ o.debt = payments[p].debt
        /\ o.debt \in DOMAIN debts /\ o.row = Reopened(debts[o.debt], o.amount)
    BY <1>1, DeletionStarted DEF Deleting
  <2> HIDE DEF o, S
  <2>4. OperationOK'
    BY <2>1, <2>3 DEF OperationOK, Stage, Paying, Deleting
  <2>5. ASSUME interrupts = 0
        PROVE  Calm'
    <3>1. Calm
      BY <1>1, <2>5
    <3>2. DenseTables'
      BY <1>1, <2>1, <2>2, <2>3, <3>1 DEF Calm, DenseTables
    <3>3. AskedPayment'
      BY <2>1, <2>2, <2>3 DEF AskedPayment, Deleting
    <3>4. Balanced'
      <4>1. \A e \in DOMAIN debts : debts[e].total = debts[e].remaining + PaidIn(payments, e)
        BY <1>1, <3>1 DEF Calm, Balanced, Unpaid
      <4>2. \A e : PaidIn(payments', e) = PaidIn(payments, e)
        BY <1>1, <2>2, PaidUntouched
      <4> QED
        BY <2>1, <2>2, <2>3, <4>1, <4>2 DEF Balanced, Unpaid
    <3> QED
      BY <3>2, <3>3, <3>4 DEF Calm
  <2> QED
    BY <1>1, <2>1, <2>2, <2>4, <2>5 DEF IInv
<1>3. CASE ~ (withRecord /\ payments[p].record # None)
  <2> DEFINE o == DeletionOp(p, "delete_payment")
  <2>1. DropPayment(p, o)
    BY <1>3 DEF DeletePayment
  <2>2. /\ o \in DeletingOp /\ o.at = "delete_payment" /\ o.payment = p
        /\ o.amount = payments[p].amount /\ o.debt = payments[p].debt
        /\ o.debt \in DOMAIN debts /\ o.row = Reopened(debts[o.debt], o.amount)
    BY <1>1, DeletionStarted DEF Deleting
  <2> HIDE DEF o
  <2> QED
    BY <1>1, <2>1, <2>2, PaymentDeleted
<1> QED
  BY <1>2, <1>3

\* The renumbering after the deletion of the record leaves the payment and the debt where the
\* deletion looks for them.
LEMMA KeptByRenumberThenDelete ==
    ASSUME IInv, RenumberThenDelete
    PROVE  IInv'
<1>1. /\ TablesAgree /\ op.at = "renumber_then_delete" /\ op \in DeletingOp
      /\ interrupts \in 0 .. MaxInterrupts /\ (interrupts = 0 => Calm)
      /\ Renumbering /\ op' = [op EXCEPT !.at = "delete_payment"] /\ interrupts' = interrupts
  BY DEF IInv, OperationOK, RenumberThenDelete, Deleting
<1>2. TablesAgree'
  BY <1>1, TablesRenumbered
<1>3. /\ op' \in DeletingOp /\ op'.at = "delete_payment" /\ op'.debt = op.debt
      /\ op'.payment = op.payment /\ op'.amount = op.amount /\ op'.row = op.row
  BY <1>1, NextStage DEF Deleting
<1>4. OperationOK'
  BY <1>3 DEF OperationOK, Stage, Paying, Deleting
<1>5. ASSUME interrupts = 0
      PROVE  Calm'
  <2>1. /\ Calm /\ DOMAIN debts = 1 .. seq.debts /\ DOMAIN payments = 1 .. seq.payments
    BY <1>1, <1>5 DEF Calm, DenseTables
  <2>2. DenseTables'
    BY <1>1, RenumberedDense DEF DenseTables
  <2>3. /\ debts' = debts
        /\ \A d \in DOMAIN debts : PaidIn(payments', d) = PaidIn(payments, d)
    BY <1>1, <2>1, DebtsStay
  <2>4. AskedPayment'
    <3>1. /\ op.payment \in DOMAIN payments /\ payments[op.payment].amount = op.amount
          /\ payments[op.payment].debt = op.debt /\ op.debt \in DOMAIN debts
          /\ op.row = Reopened(debts[op.debt], op.amount)
      BY <1>1, <2>1 DEF Calm, AskedPayment, Deleting
    <3>2. /\ op.payment \in DOMAIN payments'
          /\ payments'[op.payment].amount = op.amount /\ payments'[op.payment].debt = op.debt
      BY <1>1, <2>1, <3>1, PaymentsStay
    <3> QED
      BY <1>3, <2>3, <3>1, <3>2 DEF AskedPayment
  <2>5. Balanced'
    BY <1>1, <1>3, <2>1, <2>3 DEF Calm, Balanced, Unpaid
  <2> QED
    BY <2>2, <2>4, <2>5 DEF Calm
<1> QED
  BY <1>1, <1>2, <1>4, <1>5 DEF IInv

\* The payment is deleted by the id it had at the start.
LEMMA KeptByDeletePaymentRow ==
    ASSUME IInv, DeletePaymentRow
    PROVE  IInv'
<1>1. /\ op.at = "delete_payment" /\ op \in DeletingOp /\ DropPayment(op.payment, op)
      /\ interrupts = 0 => Calm
  BY DEF IInv, OperationOK, DeletePaymentRow, Deleting
<1>2. interrupts = 0 =>
         /\ payments[op.payment].amount = op.amount /\ payments[op.payment].debt = op.debt
         /\ op.debt \in DOMAIN debts /\ op.row = Reopened(debts[op.debt], op.amount)
  BY <1>1 DEF Calm, AskedPayment, Deleting
<1> QED
  BY <1>1, <1>2, PaymentDeleted

\* Only an operation that was cut off before can make a deletion miss its payment.
LEMMA KeptByDeletePaymentRaises ==
    ASSUME IInv, DeletePaymentRaises
    PROVE  IInv'
<1>1. /\ interrupts \in 0 .. MaxInterrupts /\ op.at = "delete_payment"
      /\ op.payment \notin DOMAIN payments /\ op'.at = "idle"
      /\ debts' = debts /\ records' = records /\ payments' = payments /\ seq' = seq
      /\ interrupts' = interrupts /\ TablesAgree /\ (interrupts = 0 => Calm)
  BY DEF IInv, DeletePaymentRaises, Idle, tables
<1>2. interrupts # 0
  BY <1>1 DEF Calm, AskedPayment
<1>3. OperationOK'
  BY <1>1, BareOperation DEF Bare
<1>4. TablesAgree'
  BY <1>1 DEF TablesAgree, Counters, DebtsOK, RecordsOK, PaymentsOK, LinksAgree
<1> QED
  BY <1>1, <1>2, <1>3, <1>4 DEF IInv

\* The renumbering after the deletion of the payment leaves the debt where it is saved.
LEMMA KeptByRenumberThenReopen ==
    ASSUME IInv, RenumberThenReopen
    PROVE  IInv'
<1>1. /\ TablesAgree /\ op.at = "renumber_then_reopen" /\ op \in DeletingOp
      /\ interrupts \in 0 .. MaxInterrupts /\ (interrupts = 0 => Calm)
      /\ Renumbering /\ op' = [op EXCEPT !.at = "reopen"] /\ interrupts' = interrupts
  BY DEF IInv, OperationOK, RenumberThenReopen, Deleting
<1>2. TablesAgree'
  BY <1>1, TablesRenumbered
<1>3. /\ op' \in DeletingOp /\ op'.at = "reopen" /\ op'.debt = op.debt
      /\ op'.amount = op.amount /\ op'.row = op.row
  BY <1>1, NextStage DEF Deleting
<1>4. OperationOK'
  BY <1>3 DEF OperationOK, Stage, Paying, Deleting
<1>5. ASSUME interrupts = 0
      PROVE  Calm'
  <2>1. Calm /\ DOMAIN debts = 1 .. seq.debts
    BY <1>1, <1>5 DEF Calm, DenseTables
  <2>2. DenseTables'
    BY <1>1, RenumberedDense DEF DenseTables
  <2>3. /\ debts' = debts
        /\ \A d \in DOMAIN debts : PaidIn(payments', d) = PaidIn(payments, d)
    BY <1>1, <2>1, DebtsStay
  <2>4. AskedPayment'
    BY <1>1, <1>3, <2>1, <2>3 DEF Calm, AskedPayment, Deleting
  <2>5. Balanced'
    BY <1>1, <1>3, <2>1, <2>3 DEF Calm, Balanced, Unpaid
  <2> QED
    BY <2>2, <2>4, <2>5 DEF Calm
<1> QED
  BY <1>1, <1>2, <1>4, <1>5 DEF IInv

\* The debt is saved with the payment added again; after a cut-off it may be gone and come back
\* as a new row.
LEMMA KeptByReopen ==
    ASSUME IInv, Reopen
    PROVE  IInv'
<1>1. /\ TablesAgree /\ op.at = "reopen" /\ op \in DeletingOp
      /\ interrupts \in 0 .. MaxInterrupts /\ (interrupts = 0 => Calm)
      /\ SaveDebt(op.debt, op.row) /\ op'.at = "idle"
      /\ records' = records /\ payments' = payments /\ interrupts' = interrupts
  BY DEF IInv, OperationOK, Reopen, Deleting, Idle
<1>2. op.row \in SoundDebt /\ op.amount \in Nat \ {0}
  BY <1>1 DEF DeletingOp
<1>3. CASE op.debt \in DOMAIN debts
  <2>1. debts' = [debts EXCEPT ![op.debt] = op.row] /\ seq' = seq
    BY <1>1, <1>3 DEF SaveDebt
  <2>2. ASSUME interrupts = 0
        PROVE  op.row.total = debts[op.debt].total /\ op.row.remaining = Unpaid(op.debt)
    <3> DEFINE d == op.debt
    <3>1. /\ op.row = Reopened(debts[d], op.amount)
          /\ debts[d].total = Unpaid(d) + PaidIn(payments, d)
          /\ Unpaid(d) = debts[d].remaining + op.amount
      BY <1>1, <1>3, <2>2 DEF Calm, AskedPayment, Balanced, Unpaid, Deleting
    <3>2. /\ debts[d] \in SoundDebt /\ debts[d].total \in Nat /\ debts[d].remaining \in Nat
          /\ PaidIn(payments, d) \in Nat
      BY <1>1, <1>3, RowsOfTables
    <3>3. debts[d].remaining + op.amount <= debts[d].total
      BY <1>2, <3>1, <3>2
    <3> HIDE DEF d
    <3>4. LET new == Reopened(debts[d], op.amount)
          IN  /\ new.total = debts[d].total
              /\ new.remaining = debts[d].remaining + op.amount
      BY <1>2, <3>2, <3>3, PaymentTakenBack
    <3> QED
      BY <3>1, <3>4 DEF d
  <2> QED
    BY <1>1, <1>2, <1>3, <2>1, <2>2, DebtSaved
<1>4. CASE op.debt \notin DOMAIN debts
  <2>1. interrupts # 0
    BY <1>1, <1>4 DEF Calm, AskedPayment, Deleting
  <2>2. InsertDebt(op.row)
    BY <1>1, <1>4 DEF SaveDebt
  <2>3. TablesAgree'
    <3> DEFINE row == op.row
    <3>1. row \in SoundDebt /\ InsertDebt(row)
      BY <1>2, <2>2
    <3> HIDE DEF row
    <3> QED
      BY <1>1, <3>1, DebtInserted
  <2>4. OperationOK'
    BY <1>1, BareOperation DEF Bare
  <2> QED
    BY <1>1, <2>1, <2>3, <2>4 DEF IInv
<1> QED
  BY <1>3, <1>4

\* A debt goes with its payments; the others keep theirs.
LEMMA KeptByDeleteDebt ==
    ASSUME IInv, NEW d \in DOMAIN debts, DeleteDebt(d)
    PROVE  IInv'
<1>1. /\ TablesAgree /\ op.at = "idle" /\ interrupts \in 0 .. MaxInterrupts
      /\ (interrupts = 0 => Calm) /\ DropDebt(d) /\ op'.at = "renumber"
      /\ seq' = seq /\ interrupts' = interrupts
  BY DEF IInv, DeleteDebt, Idle, RenumberOp
<1>2. /\ TablesAgree' /\ DOMAIN debts' = DOMAIN debts \ {d}
      /\ \A e \in DOMAIN debts' : debts'[e] = debts[e]
      /\ DOMAIN payments' = DOMAIN payments \ PaymentsOf(d)
      /\ \A p \in DOMAIN payments' : payments'[p] = payments[p]
  BY <1>1, DebtDropped
<1>3. OperationOK'
  BY <1>1, BareOperation DEF Bare
<1>4. ASSUME interrupts = 0
      PROVE  Calm'
  <2>1. Calm
    BY <1>1, <1>4
  <2>2. DenseTables' /\ AskedPayment'
    BY <1>1, <1>2 DEF DenseTables, AskedPayment, Deleting, DropDebt
  <2>3. Balanced'
    <3>1. \A e \in DOMAIN debts : debts[e].total = debts[e].remaining + PaidIn(payments, e)
      BY <1>1, <2>1 DEF Calm, Balanced, Unpaid
    <3>2. ASSUME NEW e \in DOMAIN debts'
          PROVE  PaidIn(payments', e) = PaidIn(payments, e)
      <4>1. e # d
        BY <1>2, <3>2
      <4>2. PaymentsIn(payments', e) = PaymentsIn(payments, e)
        BY <1>2, <4>1 DEF PaymentsIn, PaymentsOf
      <4>3. \A p \in PaymentsIn(payments', e) : payments'[p].amount = payments[p].amount
        BY <1>2 DEF PaymentsIn
      <4>4. /\ TableOf(payments, seq.payments, PaymentRow)
            /\ TableOf(payments', seq'.payments, PaymentRow)
        BY <1>1, <1>2 DEF TablesAgree, PaymentsOK
      <4> QED
        BY <4>2, <4>3, <4>4, PaidSame
    <3> QED
      BY <1>1, <1>2, <3>1, <3>2 DEF Balanced, Unpaid
  <2> QED
    BY <2>2, <2>3 DEF Calm
<1> QED
  BY <1>1, <1>2, <1>3, <1>4 DEF IInv

\* A recalculated debt owes what was not paid.
LEMMA KeptByRecalculateDebt ==
    ASSUME IInv, NEW d \in DOMAIN debts, RecalculateDebt(d)
    PROVE  IInv'
<1> DEFINE paid == PaidIn(payments, d)
           left == IF paid <= debts[d].total THEN debts[d].total - paid ELSE 0
           row == WithRemaining(debts[d], left)
<1>1. /\ TablesAgree /\ OperationOK /\ op.at = "idle" /\ interrupts \in 0 .. MaxInterrupts
      /\ (interrupts = 0 => Calm)
      /\ records' = records /\ payments' = payments /\ seq' = seq /\ op' = op
      /\ interrupts' = interrupts
  BY DEF IInv, RecalculateDebt, Idle
<1>2. debts' = [debts EXCEPT ![d] = row]
  BY PaidIsPaidIn DEF RecalculateDebt
<1>3. /\ debts[d] \in SoundDebt /\ debts[d].total \in Nat \ {0} /\ debts[d].remaining \in Nat
      /\ paid \in Nat
  BY <1>1, RowsOfTables
<1>4. left \in Nat /\ left <= debts[d].total
  BY <1>3
<1> HIDE DEF left
<1>5. row \in SoundDebt /\ row.total = debts[d].total /\ row.remaining = left
  <2>1. debts[d] \in DebtRow
    BY <1>3 DEF SoundDebt
  <2> QED
    BY <1>4, <2>1, RemainderSet
<1> HIDE DEF row
<1>6. /\ TablesAgree' /\ DOMAIN debts' = DOMAIN debts /\ debts'[d] = row
      /\ \A e \in DOMAIN debts : e # d => debts'[e] = debts[e]
  BY <1>1, <1>2, <1>5, DebtReplaced
<1>7. OperationOK'
  BY <1>1, BareOperation DEF Bare
<1>8. ASSUME interrupts = 0
      PROVE  Calm'
  <2>1. Calm
    BY <1>1, <1>8
  <2>2. DenseTables' /\ AskedPayment'
    BY <1>1, <1>6, <2>1 DEF Calm, DenseTables, AskedPayment, Deleting
  <2>3. Balanced'
    <3>1. \A e \in DOMAIN debts : debts[e].total = debts[e].remaining + PaidIn(payments, e)
      BY <1>1, <2>1 DEF Calm, Balanced, Unpaid
    <3>2. left = debts[d].total - paid
      BY <1>3, <3>1 DEF left
    <3>3. row.total = row.remaining + paid
      BY <1>3, <1>5, <3>2
    <3>4. \A e \in DOMAIN debts' : debts'[e].total = debts'[e].remaining + PaidIn(payments, e)
      BY <1>6, <3>1, <3>3
    <3> QED
      BY <1>1, <3>4 DEF Balanced, Unpaid
  <2> QED
    BY <2>2, <2>3 DEF Calm
<1> QED
  BY <1>1, <1>6, <1>7, <1>8 DEF IInv

\* The records of S are deleted outside of an operation on a payment.
LEMMA RecordsDeleted ==
    ASSUME IInv, NEW S, DropRecords(S), op.at = "idle", op'.at \in Bare, Counters',
           seq'.debts = seq.debts, seq'.payments = seq.payments,
           \/ op'.at = "renumber" /\ seq'.records = seq.records
           \/ DOMAIN records \subseteq S /\ seq'.records = 0,
           interrupts' = interrupts
    PROVE  IInv'
<1>1. TablesAgree /\ interrupts \in 0 .. MaxInterrupts /\ (interrupts = 0 => Calm)
  BY DEF IInv
<1>2. /\ TablesAgree' /\ debts' = debts /\ DOMAIN records' = DOMAIN records \ S
      /\ DOMAIN payments' = DOMAIN payments
      /\ \A p \in DOMAIN payments : /\ payments'[p].amount = payments[p].amount
                                    /\ payments'[p].debt = payments[p].debt
  BY <1>1, RecordsDropped
<1>3. OperationOK'
  BY BareOperation
<1>4. ASSUME interrupts = 0
      PROVE  Calm'
  <2>1. Calm
    BY <1>1, <1>4
  <2>2. DenseTables'
    <3>1. CASE op'.at = "renumber"
      BY <3>1 DEF DenseTables
    <3>2. CASE op'.at = "idle" /\ DOMAIN records \subseteq S /\ seq'.records = 0
      <4>1. 1 .. 0 = {} /\ DOMAIN records' = {}
        BY <1>2, <3>2
      <4> QED
        BY <1>2, <2>1, <3>2, <4>1 DEF Calm, DenseTables
    <3> QED
      BY <3>1, <3>2 DEF Bare
  <2>3. AskedPayment'
    BY DEF AskedPayment, Deleting, Bare
  <2>4. Balanced'
    <3>1. \A e \in DOMAIN debts : debts[e].total = debts[e].remaining + PaidIn(payments, e)
      BY <2>1 DEF Calm, Balanced, Unpaid
    <3>2. \A e : PaidIn(payments', e) = PaidIn(payments, e)
      BY <1>1, <1>2, PaidUntouched
    <3> QED
      BY <1>2, <3>1, <3>2 DEF Balanced, Unpaid, Bare
  <2> QED
    BY <2>2, <2>3, <2>4 DEF Calm
<1> QED
  BY <1>1, <1>2, <1>3, <1>4 DEF IInv

\* One record of a debt is deleted.
LEMMA KeptByDeleteRecord ==
    ASSUME IInv, NEW i \in DOMAIN records, DeleteRecord(i)
    PROVE  IInv'
<1> DEFINE S == {i}
<1>1. /\ DropRecords(S) /\ op.at = "idle" /\ op'.at = "renumber"
      /\ interrupts' = interrupts
  BY DEF DeleteRecord, Idle, RenumberOp
<1>2. Counters' /\ seq'.debts = seq.debts /\ seq'.payments = seq.payments
  BY DEF DeleteRecord, IInv, TablesAgree, Counters
<1>3. op'.at \in Bare
  BY <1>1 DEF Bare
<1>4. \/ op'.at = "renumber" /\ seq'.records = seq.records
      \/ DOMAIN records \subseteq S /\ seq'.records = 0
  BY <1>1 DEF DeleteRecord
<1> HIDE DEF S
<1>5. /\ IInv /\ DropRecords(S) /\ op.at = "idle" /\ op'.at \in Bare /\ Counters'
      /\ seq'.debts = seq.debts /\ seq'.payments = seq.payments
      /\ interrupts' = interrupts
  BY <1>1, <1>2, <1>3
<1> QED
  BY ONLY <1>4, <1>5, RecordsDeleted

\* All records are deleted and their counter starts again.
LEMMA KeptByDeleteAllRecords ==
    ASSUME IInv, DeleteAllRecords
    PROVE  IInv'
<1> DEFINE S == DOMAIN records
<1>1. /\ DropRecords(S) /\ op.at = "idle" /\ op'.at = "idle" /\ interrupts' = interrupts
      /\ seq' = [seq EXCEPT !.records = 0]
  BY DEF DeleteAllRecords, Idle
<1>2. seq \in [debts : Nat, records : Nat, payments : Nat]
  BY DEF IInv, TablesAgree, Counters
<1>3. Counters' /\ seq'.debts = seq.debts /\ seq'.payments = seq.payments /\ seq'.records = 0
  BY <1>1, <1>2 DEF Counters
<1>4. DOMAIN records \subseteq S
  OBVIOUS
<1> HIDE DEF S
<1> QED
  BY <1>1, <1>3, <1>4, RecordsDeleted DEF Bare

\* The amount of a record changes; no debt does.
LEMMA KeptByUpdateRecordInline ==
    ASSUME IInv, NEW i \in DOMAIN records, NEW amount \in Amounts, UpdateRecordInline(i, amount)
    PROVE  IInv'
<1>1. /\ TablesAgree /\ op.at = "idle" /\ interrupts \in 0 .. MaxInterrupts
      /\ (interrupts = 0 => Calm) /\ amount \in Nat \ {0}
      /\ records' = [records EXCEPT ![i].amount = amount]
      /\ debts' = debts /\ payments' = payments /\ seq' = seq /\ op' = op
      /\ interrupts' = interrupts
  BY DebtsAssumption DEF IInv, UpdateRecordInline, Idle
<1>2. TablesAgree' /\ DOMAIN records' = DOMAIN records
  BY <1>1, RecordEdited
<1>3. OperationOK'
  BY <1>1, BareOperation DEF Bare
<1>4. Calm => Calm'
  BY <1>1, <1>2 DEF Calm, DenseTables, AskedPayment, Deleting, Balanced, Unpaid
<1> QED
  BY <1>1, <1>2, <1>3, <1>4 DEF IInv

\* A renumbering after which no operation is under way.
LEMMA RenumberedToIdle ==
    ASSUME IInv, Renumbering, op.at \in Bare, op'.at = "idle", interrupts' = interrupts
    PROVE  IInv'
<1>1. TablesAgree /\ interrupts \in 0 .. MaxInterrupts /\ (interrupts = 0 => Calm)
  BY DEF IInv
<1>2. TablesAgree'
  BY <1>1, TablesRenumbered
<1>3. OperationOK'
  BY BareOperation DEF Bare
<1>4. ASSUME interrupts = 0
      PROVE  Calm'
  <2>1. \A d \in DOMAIN debts : debts[d].total = debts[d].remaining + PaidIn(payments, d)
    BY <1>1, <1>4 DEF Calm, Balanced, Unpaid, Bare
  <2>2. DenseTables'
    BY <1>1, RenumberedDense DEF DenseTables
  <2>3. AskedPayment'
    BY DEF AskedPayment, Deleting
  <2>4. Balanced'
    BY <1>1, <2>1, BalanceRenumbered DEF Balanced, Unpaid
  <2> QED
    BY <2>2, <2>3, <2>4 DEF Calm
<1> QED
  BY <1>1, <1>2, <1>3, <1>4 DEF IInv

\* The renumbering that ends a deletion.
LEMMA KeptByRenumberLast ==
    ASSUME IInv, RenumberLast
    PROVE  IInv'
  BY RenumberedToIdle DEF RenumberLast, Idle, Bare

\* The renumbering of a start.
LEMMA KeptByRestart ==
    ASSUME IInv, Restart
    PROVE  IInv'
  BY RenumberedToIdle DEF Restart, Idle, Bare

\* A cut-off leaves the tables as they are committed; nothing is promised of balances then.
LEMMA KeptByInterrupt ==
    ASSUME IInv, Interrupt
    PROVE  IInv'
<1>1. /\ TablesAgree /\ interrupts \in 0 .. MaxInterrupts /\ interrupts < MaxInterrupts
      /\ debts' = debts /\ records' = records /\ payments' = payments /\ seq' = seq
      /\ op'.at = "idle" /\ interrupts' = interrupts + 1
  BY DEF IInv, Interrupt, Idle, tables
<1>2. OperationOK'
  BY <1>1, BareOperation DEF Bare
<1>3. TablesAgree'
  BY <1>1 DEF TablesAgree, Counters, DebtsOK, RecordsOK, PaymentsOK, LinksAgree
<1>4. interrupts' \in 0 .. MaxInterrupts /\ interrupts' # 0
  BY <1>1, DebtsAssumption
<1> QED
  BY <1>2, <1>3, <1>4 DEF IInv

\* A step that changes nothing.
LEMMA KeptByStutter ==
    ASSUME IInv, UNCHANGED vars
    PROVE  IInv'
<1>1. /\ debts' = debts /\ records' = records /\ payments' = payments /\ seq' = seq
      /\ op' = op /\ interrupts' = interrupts
  BY DEF vars, tables
<1>2. TablesAgree => TablesAgree'
  BY <1>1 DEF TablesAgree, Counters, DebtsOK, RecordsOK, PaymentsOK, LinksAgree
<1>3. OperationOK => OperationOK'
  BY <1>1 DEF OperationOK, RecordWaits
<1>4. Calm => Calm'
  BY <1>1 DEF Calm, DenseTables, AskedPayment, Balanced, Unpaid
<1> QED
  BY <1>1, <1>2, <1>3, <1>4 DEF IInv

\* The step of the induction.
LEMMA NextInv == IInv /\ [Next]_vars => IInv'
<1> SUFFICES ASSUME IInv, [Next]_vars
             PROVE  IInv'
  OBVIOUS
<1>1. CASE \E kind \in {"debt", "loan"}, amount \in Amounts : CreateObligation(kind, amount)
  BY <1>1, KeptByCreateObligation
<1>2. CASE \E d \in DOMAIN debts, amount \in Amounts :
              RegisterPayment(d, amount) \/ RegisterWriteOff(d, amount)
  BY <1>2, KeptByRegisterPayment, KeptByRegisterWriteOff
<1>3. CASE \E p \in DOMAIN payments, withRecord \in BOOLEAN : DeletePayment(p, withRecord)
  BY <1>3, KeptByDeletePayment
<1>4. CASE \E d \in DOMAIN debts : DeleteDebt(d) \/ RecalculateDebt(d)
  BY <1>4, KeptByDeleteDebt, KeptByRecalculateDebt
<1>5. CASE \E i \in DOMAIN records : DeleteRecord(i)
  BY <1>5, KeptByDeleteRecord
<1>6. CASE \E i \in DOMAIN records, amount \in Amounts : UpdateRecordInline(i, amount)
  BY <1>6, KeptByUpdateRecordInline
<1>7. CASE DeleteAllRecords
  BY <1>7, KeptByDeleteAllRecords
<1>8. CASE Commit
  BY <1>8, KeptBySaveOpenRecord, KeptBySavePayment, KeptBySettle, KeptByRenumberThenDelete,
     KeptByDeletePaymentRow, KeptByDeletePaymentRaises, KeptByRenumberThenReopen,
     KeptByReopen, KeptByRenumberLast DEF Commit
<1>9. CASE Interrupt
  BY <1>9, KeptByInterrupt
<1>10. CASE Restart
  BY <1>10, KeptByRestart
<1>11. CASE UNCHANGED vars
  BY <1>11, KeptByStutter
<1> QED
  BY <1>1, <1>2, <1>3, <1>4, <1>5, <1>6, <1>7, <1>8, <1>9, <1>10, <1>11 DEF Next

\* The invariant holds in every reachable state.
LEMMA Inductive == Spec => []IInv
<1>1. Init => IInv
  BY InitInv
<1>2. IInv /\ [Next]_vars => IInv'
  BY NextInv
<1> QED
  BY <1>1, <1>2, PTL DEF Spec

(***************************************************************************)
(* The properties the runs check.                                          *)
(***************************************************************************)

\* The tables keep their types at every commit: payments and records refer to debts and records
\* that exist, ids stay under the counters, and no debt has more left to pay than its total,
\* whatever operations are cut off (the foreign keys and CHECKs of the schema).
THEOREM TypeCorrect == Spec => []TypeOK
<1>1. ASSUME IInv
      PROVE  TypeOK
  <2>1. /\ Counters /\ DebtsOK /\ RecordsOK /\ PaymentsOK /\ op.at \in Stage
        /\ interrupts \in 0 .. MaxInterrupts
    BY <1>1 DEF IInv, TablesAgree, OperationOK
  <2>2. \A d \in DOMAIN debts : debts[d] \in DebtRow /\ debts[d].remaining <= debts[d].total
    BY <2>1, TableIds DEF DebtsOK, SoundDebt
  <2>3. debts \in [DOMAIN debts -> DebtRow] /\ DOMAIN debts \subseteq 1 .. seq.debts
    BY <2>1, <2>2 DEF DebtsOK, TableOf
  <2> QED
    BY <2>1, <2>2, <2>3 DEF TypeOK, Counters, RecordsOK, PaymentsOK, TableOf
<1> QED
  BY <1>1, Inductive, PTL

\* At every commit a debt is closed exactly when nothing remains of it: the status findings of
\* the audit (check_debt_status_integrity) are empty, however often operations are cut off.
THEOREM StatusFollowsRemainder == Spec => []ClosedIffSettled
<1>1. ASSUME IInv
      PROVE  ClosedIffSettled
  <2>1. \A d \in DOMAIN debts : debts[d] \in SoundDebt
    BY <1>1, RowsOfTables DEF IInv
  <2>2. \A d \in DOMAIN debts : ~ \/ debts[d].status = "closed" /\ debts[d].remaining # 0
                                  \/ debts[d].status = "open" /\ debts[d].remaining = 0
    BY <2>1 DEF SoundDebt, DebtRow
  <2> QED
    BY <2>2 DEF ClosedIffSettled, Audit!StatusFindings, Audit!Objections
<1> QED
  BY <1>1, Inductive, PTL

\* A payment is linked to a record of its own debt and of the kind it leaves, and no record to
\* two payments, through the search for records at each renumbering, deletions, cut-off
\* operations and restarts.
THEOREM LinksStayTrue == Spec => []LinksAgree
<1>1. IInv => LinksAgree
  BY DEF IInv, TablesAgree
<1> QED
  BY <1>1, Inductive, PTL

\* What balances the model balances the audit: its own sum over the payments of a debt is the
\* one of the invariant.
LEMMA NothingToReport ==
    ASSUME IInv, interrupts = 0
    PROVE  DebtsBalance
<1> SUFFICES ASSUME op = Idle
             PROVE  Audit!BalanceFindings(debts, payments) = {}
  BY DEF DebtsBalance
<1>1. \A d \in DOMAIN debts : debts[d].total = debts[d].remaining + PaidIn(payments, d)
  BY DEF IInv, Calm, Balanced, Unpaid, Idle
<1> DEFINE paid(d) == Audit!MapThenSumSet(LAMBDA p : payments[p].amount,
                                          {p \in DOMAIN payments : payments[p].debt = d})
<1>2. \A d : paid(d) = PaidIn(payments, d)
  BY DEF PaidIn, PaymentsIn, AmountSum, MapThenSumSet, MapThenFoldSet,
         Audit!MapThenSumSet, Audit!MapThenFoldSet
<1>3. Audit!BalanceFindings(debts, payments)
        = {Audit!Finding("balance", "error", d) :
              d \in {e \in DOMAIN debts : debts[e].total # debts[e].remaining + paid(e)}}
  BY DEF Audit!BalanceFindings, Audit!Objections
<1> HIDE DEF paid
<1> QED
  BY <1>1, <1>2, <1>3

\* As long as no operation has been cut off, every debt between operations is what remains of it
\* plus what was paid: no sequence of payments, write-offs, deletions, recalculations and
\* renumberings loses or invents money.
THEOREM BalanceUntilCutOff == Spec => [](interrupts = 0 => DebtsBalance)
<1>1. IInv => (interrupts = 0 => DebtsBalance)
  BY NothingToReport
<1> QED
  BY <1>1, Inductive, PTL

\* So where operations run to their end the balance check of the audit finds nothing.
THEOREM BalanceHolds ==
    ASSUME MaxInterrupts = 0
    PROVE  Spec => []DebtsBalance
<1>1. IInv => DebtsBalance
  <2>1. IInv => interrupts = 0
    BY DEF IInv
  <2> QED
    BY <2>1, NothingToReport
<1> QED
  BY <1>1, Inductive, PTL

\* Where operations run to their end, the payment that is deleted is the one the user asked for,
\* although its record is deleted and everything renumbered before it.
THEOREM DeletesTheRightPayment ==
    ASSUME MaxInterrupts = 0
    PROVE  Spec => DeletesThePaymentAsked
<1>1. IInv => (op.at = "delete_payment" /\ op'.at = "renumber_then_reopen" =>
                 /\ payments[op.payment].amount = op.amount
                 /\ payments[op.payment].debt = op.debt)
  BY DEF IInv, Calm, AskedPayment
<1>2. IInv /\ [Next]_vars =>
        [op.at = "delete_payment" /\ op'.at = "renumber_then_reopen" =>
                 /\ payments[op.payment].amount = op.amount
                 /\ payments[op.payment].debt = op.debt]_vars
  BY <1>1
<1> QED
  BY <1>2, Inductive, PTL DEF Spec, DeletesThePaymentAsked

\* Where operations run to their end, the debt that is saved at the end is the one it was
\* computed from, although everything was renumbered in between.
THEOREM SavesTheRightDebt ==
    ASSUME MaxInterrupts = 0
    PROVE  Spec => SavesTheSameDebt
<1> DEFINE Same == op.at \in {"settle", "reopen"} /\ op' = Idle /\ interrupts' = interrupts =>
                      /\ op.debt \in DOMAIN debts
                      /\ debts[op.debt].kind = op.row.kind
                      /\ debts[op.debt].total = op.row.total
<1>1. ASSUME IInv
      PROVE  Same
  <2>1. CASE op.at = "settle"
    <3>1. /\ op \in PayingOp /\ op.debt \in DOMAIN debts
          /\ op.row = ApplyPayment(debts[op.debt], op.amount)
      BY <1>1, <2>1 DEF IInv, OperationOK, Paying
    <3>2. op.amount \in Nat /\ debts[op.debt] \in SoundDebt
      BY <1>1, <3>1, RowsOfTables DEF IInv, PayingOp
    <3> QED
      BY <3>1, <3>2, PaymentApplied
  <2>2. CASE op.at = "reopen"
    <3>1. /\ op \in DeletingOp /\ op.debt \in DOMAIN debts
          /\ op.row = Reopened(debts[op.debt], op.amount)
      BY <1>1, <2>2 DEF IInv, OperationOK, Calm, AskedPayment, Deleting
    <3>2. op.amount \in Nat \ {0} /\ debts[op.debt] \in SoundDebt
      BY <1>1, <3>1, RowsOfTables DEF IInv, DeletingOp
    <3> QED
      BY <3>1, <3>2, PaymentTakenBack
  <2> QED
    BY <2>1, <2>2
<1>2. IInv /\ [Next]_vars => [Same]_vars
  BY <1>1
<1> QED
  BY <1>2, Inductive, PTL DEF Spec, SavesTheSameDebt
=============================================================================
