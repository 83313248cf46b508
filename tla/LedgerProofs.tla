---------------------------- MODULE LedgerProofs ----------------------------
(***************************************************************************)
(* For any number of wallets, records and transfers and any amounts, every *)
(* safety property of the ledger: its types and references (TypeOK), the   *)
(* agreement of a transfer with its legs (LegsMatchTransfer), that only a  *)
(* wiped ledger is refused at the start (RefusedOnlyAfterWipe), what the   *)
(* ids of records look like at rest and after a start (AtMostOneGapAtRest, *)
(* StartNormalizes), that a renumbering changes ids only                   *)
(* (RenumberingKeepsBooks), that an inactive wallet gets nothing new       *)
(* (InactiveGetsNothingNew) and that no booking and no edited transfer     *)
(* overdraws a wallet (WalletsStayCovered).                                *)
(*                                                                         *)
(* The first three together are inductive.  The argument is in two parts:  *)
(* what the bulk rewrite does to lists that agree (BooksReinserted), and   *)
(* that the lists each use case hands to it agree.  The others follow from *)
(* that invariant, step by step, over the kinds of steps there are         *)
(* (StepKinds); balances are sums over sets, and the rewrite renames the   *)
(* rows they run over one to one (RewrittenRows, PaidRewritten).           *)
(***************************************************************************)
EXTENDS Ledger, TablesProofs

\* Lists of rows that agree with each other and with the wallets.
Books(recs, trs) ==
    /\ Ids(DOMAIN recs) /\ recs \in [DOMAIN recs -> Record]
    /\ \A i \in DOMAIN recs : recs[i].wallet \in DOMAIN wallets
    /\ Ids(DOMAIN trs) /\ trs \in [DOMAIN trs -> Transfer]
    /\ \A t \in DOMAIN trs : trs[t].from \in DOMAIN wallets /\ trs[t].to \in DOMAIN wallets
    /\ LegsMatch(recs, trs)

IInv == TypeOK /\ LegsMatchTransfer /\ RefusedOnlyAfterWipe

\* A matched pair is what the validation of the repository and of the bootstrap asks for.
LEMMA PairHasTwoLegs ==
    ASSUME NEW recs, NEW tr, NEW t, NEW e, NEW c,
           Legs(recs, t) = {e, c}, LegPair(recs, tr, e, c)
    PROVE  HasTwoLegs(recs, t)
<1>1. e # c
  BY DEF LegPair
<1>2. IsFiniteSet({e}) /\ Cardinality({e}) = 1
  BY FS_Singleton
<1>3. Cardinality({e} \cup {c}) = 2
  BY <1>1, <1>2, FS_AddElement
<1>4. {e} \cup {c} = {e, c}
  OBVIOUS
<1>5. {recs[i].kind : i \in {e, c}} = {"income", "expense"}
  BY DEF LegPair
<1> QED
  BY <1>3, <1>4, <1>5 DEF HasTwoLegs

\* So the validation rejects lists that agree only if a transfer has lost its legs.
LEMMA InvalidIsOrphaned ==
    ASSUME NEW recs, NEW trs, LegsMatch(recs, trs), \A t \in DOMAIN trs : ~ Orphaned(recs, t)
    PROVE  ValidTransfers(recs, trs) /\ \A t \in DOMAIN trs : HasTwoLegs(recs, t)
<1>1. ASSUME NEW t \in DOMAIN trs
      PROVE  HasTwoLegs(recs, t)
  <2>1. PICK e, c \in DOMAIN recs : Legs(recs, t) = {e, c} /\ LegPair(recs, trs[t], e, c)
    BY DEF LegsMatch
  <2> QED
    BY <2>1, PairHasTwoLegs
<1> QED
  BY <1>1 DEF ValidTransfers, LegsMatch

(***************************************************************************)
(* Part 1: the rewrite.  Row i becomes row Rank(i); a leg of transfer t    *)
(* becomes a leg of transfer Rank(t), since Rank is injective and keeps 0. *)
(***************************************************************************)
LEMMA BooksReinserted ==
    ASSUME NEW recs, NEW trs, Books(recs, trs)
    PROVE  LET R == Reinserted(RelinkedRecords(recs, trs))
               T == Reinserted(trs)
           IN  /\ Books(R, T)
               /\ DOMAIN R = 1 .. Cardinality(DOMAIN recs)
               /\ Cardinality(DOMAIN recs) \in Nat
               /\ DOMAIN T = 1 .. Cardinality(DOMAIN T)
<1> DEFINE L == RelinkedRecords(recs, trs)
           S == DOMAIN recs
           D == DOMAIN trs
           R == Reinserted(L)
           T == Reinserted(trs)
<1>1. Ids(S) /\ Ids(D)
  BY DEF Books
<1>2. DOMAIN L = S
  BY DEF RelinkedRecords
<1>3. ASSUME NEW i \in S
      PROVE  /\ L[i] \in Record
             /\ L[i].kind = recs[i].kind /\ L[i].wallet = recs[i].wallet
             /\ L[i].amount = recs[i].amount
             /\ L[i].transfer = Rank(D, recs[i].transfer)
  <2>1. recs[i] \in Record
    BY DEF Books
  <2>2. L[i] = [recs[i] EXCEPT !.transfer = Rank(D, recs[i].transfer)]
    BY DEF RelinkedRecords
  <2>3. Rank(D, recs[i].transfer) \in Nat
    BY <1>1, RankType, FS_CardinalityType DEF Ids
  <2> QED
    BY <2>1, <2>2, <2>3 DEF Record
<1>4. /\ DOMAIN R = 1 .. Cardinality(S) /\ Cardinality(S) \in Nat
      /\ \A i \in S : Rank(S, i) \in DOMAIN R /\ R[Rank(S, i)] = L[i]
      /\ \A k \in DOMAIN R : \E i \in S : Rank(S, i) = k /\ R[k] = L[i]
  BY <1>1, <1>2, ReinsertedRows
<1>5. /\ DOMAIN T = 1 .. Cardinality(D) /\ Cardinality(D) \in Nat
      /\ Cardinality(DOMAIN T) = Cardinality(D)
      /\ \A t \in D : Rank(D, t) \in DOMAIN T /\ T[Rank(D, t)] = trs[t]
      /\ \A u \in DOMAIN T : \E t \in D : Rank(D, t) = u /\ T[u] = trs[t]
  BY <1>1, ReinsertedRows
<1>6. R \in [DOMAIN R -> Record] /\ T \in [DOMAIN T -> Transfer]
  <2>1. R = [k \in DOMAIN R |-> R[k]] /\ T = [u \in DOMAIN T |-> T[u]]
    BY DEF Reinserted
  <2>2. \A k \in DOMAIN R : R[k] \in Record
    BY <1>3, <1>4
  <2>3. \A u \in DOMAIN T : T[u] \in Transfer
    BY <1>5 DEF Books
  <2> QED
    BY <2>1, <2>2, <2>3
<1>7. Ids(DOMAIN R) /\ Ids(DOMAIN T)
  BY <1>4, <1>5, IdsOfInterval
<1> HIDE DEF L, R, T
\* The references of the new legs: old references, ranked.
<1>8. ASSUME NEW i \in S
      PROVE  \/ recs[i].transfer = NoTransfer /\ L[i].transfer = NoTransfer
             \/ recs[i].transfer \in D /\ L[i].transfer \in DOMAIN T
  <2>1. recs[i].transfer = NoTransfer \/ recs[i].transfer \in D
    BY DEF Books, LegsMatch
  <2>2. Rank(D, NoTransfer) = NoTransfer
    BY <1>1, RankOfNone DEF NoTransfer
  <2> QED
    BY <1>3, <1>5, <2>1, <2>2
\* The legs of Rank(t) are the ranks of the legs of t.
<1>9. ASSUME NEW t \in D, NEW i \in S
      PROVE  L[i].transfer = Rank(D, t) <=> recs[i].transfer = t
  <2>1. Rank(D, t) # NoTransfer
    BY <1>1, RankType DEF NoTransfer
  <2>2. CASE recs[i].transfer = NoTransfer
    <3>1. t # NoTransfer
      BY <1>1 DEF Ids, NoTransfer
    <3>2. L[i].transfer = NoTransfer
      BY <1>3, <1>1, <2>2, RankOfNone DEF NoTransfer
    <3> QED
      BY <2>1, <2>2, <3>1, <3>2
  <2>3. CASE recs[i].transfer \in D
    BY <1>1, <1>3, <2>3, RankInjective
  <2> QED
    BY <1>8, <2>2, <2>3
<1>10. ASSUME NEW t \in D
       PROVE  Legs(R, Rank(D, t)) = {Rank(S, i) : i \in Legs(recs, t)}
  <2>1. ASSUME NEW k \in DOMAIN R, R[k].transfer = Rank(D, t)
        PROVE  \E i \in S : Rank(S, i) = k /\ recs[i].transfer = t
    BY <1>4, <1>9, <2>1
  <2>2. ASSUME NEW i \in S, recs[i].transfer = t
        PROVE  Rank(S, i) \in DOMAIN R /\ R[Rank(S, i)].transfer = Rank(D, t)
    BY <1>4, <1>9, <2>2
  <2> QED
    BY <2>1, <2>2 DEF Legs
<1>11. \A k \in DOMAIN R : R[k].transfer # NoTransfer => R[k].transfer \in DOMAIN T
  BY <1>4, <1>8
<1>12. ASSUME NEW u \in DOMAIN T
       PROVE  \/ Orphaned(R, u)
              \/ \E e, c \in DOMAIN R : Legs(R, u) = {e, c} /\ LegPair(R, T[u], e, c)
  <2>1. PICK t \in D : Rank(D, t) = u /\ T[u] = trs[t]
    BY <1>5
  <2>2. CASE Orphaned(recs, t)
    BY <1>10, <2>1, <2>2 DEF Orphaned
  <2>3. CASE ~ Orphaned(recs, t)
    <3>1. PICK e, c \in S : Legs(recs, t) = {e, c} /\ LegPair(recs, trs[t], e, c)
      BY <2>3 DEF Books, LegsMatch
    <3>2. Legs(R, u) = {Rank(S, e), Rank(S, c)}
      BY <1>10, <2>1, <3>1
    <3>3. R[Rank(S, e)] = L[e] /\ R[Rank(S, c)] = L[c]
      BY <1>4
    <3>4. LegPair(R, T[u], Rank(S, e), Rank(S, c))
      BY <1>3, <2>1, <3>1, <3>3 DEF LegPair
    <3> QED
      BY <1>4, <3>2, <3>4
  <2> QED
    BY <2>2, <2>3
<1>13. /\ \A k \in DOMAIN R : R[k].wallet \in DOMAIN wallets
       /\ \A u \in DOMAIN T : T[u].from \in DOMAIN wallets /\ T[u].to \in DOMAIN wallets
  BY <1>3, <1>4, <1>5 DEF Books
<1>14. Books(R, T)
  BY <1>6, <1>7, <1>11, <1>12, <1>13 DEF Books, LegsMatch
<1> QED
  BY <1>4, <1>5, <1>14 DEF L, R, T

(***************************************************************************)
(* Part 2: the lists of the use cases.                                     *)
(***************************************************************************)

\* Adding, editing or removing rows that are no legs leaves the agreement as it is.
LEMMA PlainRowsDoNotMatter ==
    ASSUME NEW recs, NEW trs, NEW new, LegsMatch(recs, trs),
           \A i \in DOMAIN new :
              new[i].transfer # NoTransfer => i \in DOMAIN recs /\ new[i] = recs[i],
           \A i \in DOMAIN recs :
              recs[i].transfer # NoTransfer => i \in DOMAIN new /\ new[i] = recs[i],
           NoTransfer \notin DOMAIN trs
    PROVE  LegsMatch(new, trs)
<1>1. \A t \in DOMAIN trs : Legs(new, t) = Legs(recs, t)
  BY DEF Legs
<1>2. ASSUME NEW t \in DOMAIN trs
      PROVE  \/ Orphaned(new, t)
             \/ \E e, c \in DOMAIN new : Legs(new, t) = {e, c} /\ LegPair(new, trs[t], e, c)
  <2>1. CASE Orphaned(recs, t)
    BY <1>1, <2>1 DEF Orphaned
  <2>2. CASE ~ Orphaned(recs, t)
    <3>1. PICK e, c \in DOMAIN recs : Legs(recs, t) = {e, c} /\ LegPair(recs, trs[t], e, c)
      BY <2>2 DEF LegsMatch
    <3>2. recs[e].transfer # NoTransfer /\ recs[c].transfer # NoTransfer
      BY <3>1 DEF Legs
    <3>3. e \in DOMAIN new /\ c \in DOMAIN new /\ new[e] = recs[e] /\ new[c] = recs[c]
      BY <3>2
    <3> QED
      BY <1>1, <3>1, <3>3 DEF LegPair
  <2> QED
    BY <2>1, <2>2
<1> QED
  BY <1>2 DEF LegsMatch

\* The rows of a new transfer agree with it, and they disturb no other transfer.
LEMMA CreatedTransferAgrees ==
    ASSUME NEW recs, NEW trs, Books(recs, trs),
           NEW from \in DOMAIN wallets, NEW to \in DOMAIN wallets,
           DOMAIN wallets \subseteq Nat \ {0},
           NEW amount \in Nat, NEW commission \in Nat
    PROVE  LET t == MaxId(DOMAIN trs) + 1
           IN  Books(WithTransferRows(recs, t, from, to, amount, commission),
                     With(trs, t, [from |-> from, to |-> to, amount |-> amount]))
<1> DEFINE t    == MaxId(DOMAIN trs) + 1
           n    == MaxId(DOMAIN recs) + 1
           tr   == [from |-> from, to |-> to, amount |-> amount]
           e    == Leg("expense", from, amount, t)
           c    == Leg("income", to, amount, t)
           fee  == CommissionRow(from, commission, t)
           new  == WithTransferRows(recs, t, from, to, amount, commission)
           trs2 == With(trs, t, tr)
           ids  == DOMAIN recs \cup {n, n + 1}
                     \cup (IF commission = 0 THEN {} ELSE {n + 2})
<1>1. /\ t \in Nat \ {0} /\ n \in Nat \ {0}
      /\ t \notin DOMAIN trs
      /\ n \notin DOMAIN recs /\ n + 1 \notin DOMAIN recs /\ n + 2 \notin DOMAIN recs
  <2>1. /\ MaxId(DOMAIN recs) \in Nat /\ \A i \in DOMAIN recs : i <= MaxId(DOMAIN recs)
        /\ MaxId(DOMAIN trs) \in Nat /\ \A i \in DOMAIN trs : i <= MaxId(DOMAIN trs)
    BY MaxIdBounds DEF Books
  <2> QED
    BY <2>1
<1> HIDE DEF t, n
<1>2. /\ DOMAIN new = ids
      /\ \A i \in DOMAIN recs : new[i] = recs[i]
      /\ new[n] = e /\ new[n + 1] = c
      /\ commission # 0 => new[n + 2] = fee
  BY <1>1 DEF WithTransferRows, With, n
<1>3. new \in [DOMAIN new -> Record]
  <2>1. new = [i \in DOMAIN new |-> new[i]]
    BY DEF WithTransferRows, With
  <2>2. e \in Record /\ c \in Record /\ fee \in Record
    BY <1>1 DEF Leg, CommissionRow, Record, NoMark, NoTransfer
  <2>3. \A i \in ids : new[i] \in Record
    BY <1>2, <2>2 DEF Books
  <2> QED
    BY <1>2, <2>1, <2>3
<1>4. \A i \in DOMAIN new : new[i].wallet \in DOMAIN wallets
  <2>1. e.wallet = from /\ c.wallet = to /\ fee.wallet = from
    BY DEF Leg, CommissionRow
  <2> QED
    BY <1>2, <2>1 DEF Books
<1>5. Ids(DOMAIN new)
  <2>1. IsFiniteSet(DOMAIN recs \cup {n, n + 1})
    <3>1. DOMAIN recs \cup {n, n + 1} = (DOMAIN recs \cup {n}) \cup {n + 1}
      OBVIOUS
    <3> QED
      BY <3>1, FS_AddElement DEF Books, Ids
  <2>2. IsFiniteSet(ids)
    BY <2>1, FS_AddElement
  <2>3. ids \subseteq Nat \ {0}
    BY <1>1 DEF Books, Ids
  <2> QED
    BY <1>2, <2>2, <2>3 DEF Ids
<1>6. /\ DOMAIN trs2 = DOMAIN trs \cup {t} /\ trs2[t] = tr
      /\ \A u \in DOMAIN trs : trs2[u] = trs[u]
  BY <1>1 DEF With
<1>7. /\ trs2 \in [DOMAIN trs2 -> Transfer]
      /\ \A u \in DOMAIN trs2 : trs2[u].from \in DOMAIN wallets /\ trs2[u].to \in DOMAIN wallets
  <2>1. tr \in Transfer
    BY DEF Transfer
  <2> QED
    BY <1>6, <2>1 DEF With, Books
<1>8. Ids(DOMAIN trs2)
  BY <1>1, <1>6, FS_AddElement DEF Books, Ids
<1>9. LegsMatch(new, trs2)
  <2>1. /\ e.transfer = t /\ c.transfer = t /\ fee.transfer = NoTransfer
        /\ e.kind = "expense" /\ c.kind = "income"
        /\ e.wallet = from /\ c.wallet = to /\ e.amount = amount /\ c.amount = amount
    BY DEF Leg, CommissionRow
  <2>2. \A i \in DOMAIN recs : recs[i].transfer # NoTransfer => recs[i].transfer \in DOMAIN trs
    BY DEF Books, LegsMatch
  <2>3. \A i \in DOMAIN new : new[i].transfer # NoTransfer => new[i].transfer \in DOMAIN trs2
    BY <1>2, <1>6, <2>1, <2>2
  <2>4. \A i \in DOMAIN recs : recs[i].transfer # t
    BY <1>1, <2>2 DEF NoTransfer
  <2>5. Legs(new, t) = {n, n + 1} /\ LegPair(new, trs2[t], n, n + 1)
    BY <1>1, <1>2, <1>6, <2>1, <2>4 DEF Legs, LegPair, NoTransfer
  <2>6. ASSUME NEW u \in DOMAIN trs
        PROVE  \/ Orphaned(new, u)
               \/ \E x, y \in DOMAIN new : Legs(new, u) = {x, y} /\ LegPair(new, trs2[u], x, y)
    <3>1. u # t /\ u # NoTransfer
      BY <1>1 DEF Books, Ids, NoTransfer
    <3>2. Legs(new, u) = Legs(recs, u)
      BY <1>2, <2>1, <3>1 DEF Legs
    <3>3. CASE Orphaned(recs, u)
      BY <3>2, <3>3 DEF Orphaned
    <3>4. CASE ~ Orphaned(recs, u)
      <4>1. PICK x, y \in DOMAIN recs : Legs(recs, u) = {x, y} /\ LegPair(recs, trs[u], x, y)
        BY <3>4 DEF Books, LegsMatch
      <4>2. LegPair(new, trs2[u], x, y)
        BY <1>2, <1>6, <4>1 DEF LegPair
      <4> QED
        BY <1>2, <3>2, <4>1, <4>2
    <3> QED
      BY <3>3, <3>4
  <2>7. n \in DOMAIN new /\ n + 1 \in DOMAIN new
    BY <1>2
  <2> HIDE DEF new, trs2
  <2> QED
    BY <1>6, <2>3, <2>5, <2>6, <2>7 DEF LegsMatch
<1>10. Books(new, trs2)
  BY <1>3, <1>4, <1>5, <1>7, <1>8, <1>9 DEF Books
<1> QED
  BY <1>10 DEF t

\* An update or deletion only starts from a transfer with its two legs: a matched pair.
LEMMA TwoLegsArePaired ==
    ASSUME NEW recs, NEW trs, LegsMatch(recs, trs), NEW t \in DOMAIN trs, HasTwoLegs(recs, t)
    PROVE  \E e, c \in DOMAIN recs : Legs(recs, t) = {e, c} /\ LegPair(recs, trs[t], e, c)
<1>1. Legs(recs, t) # {}
  BY FS_EmptySet DEF HasTwoLegs
<1> QED
  BY <1>1 DEF LegsMatch, Orphaned

\* Moving a transfer moves both rows of its pair and nothing else but its commissions.
LEMMA MovedTransferAgrees ==
    ASSUME NEW recs, NEW trs, Books(recs, trs),
           NEW t \in DOMAIN trs, HasTwoLegs(recs, t),
           NEW from \in DOMAIN wallets, NEW to \in DOMAIN wallets,
           DOMAIN wallets \subseteq Nat \ {0}, NEW amount \in Nat
    PROVE  Books(WithMovedTransfer(recs, t, from, to, amount),
                 [trs EXCEPT ![t] = [from |-> from, to |-> to, amount |-> amount]])
<1> DEFINE new  == WithMovedTransfer(recs, t, from, to, amount)
           tr   == [from |-> from, to |-> to, amount |-> amount]
           trs2 == [trs EXCEPT ![t] = tr]
<1>1. /\ DOMAIN new = DOMAIN recs
      /\ \A i \in DOMAIN recs :
            /\ new[i] \in Record /\ new[i].wallet \in DOMAIN wallets
            /\ new[i].transfer = recs[i].transfer /\ new[i].kind = recs[i].kind
  <2>1. \A i \in DOMAIN recs : recs[i] \in Record /\ recs[i].wallet \in DOMAIN wallets
    BY DEF Books
  <2> QED
    BY <2>1 DEF WithMovedTransfer, Record
<1>2. \A i \in DOMAIN recs :
         i \in Legs(recs, t) =>
            /\ new[i].amount = amount
            /\ new[i].wallet = IF recs[i].kind = "expense" THEN from ELSE to
  <2>1. \A i \in DOMAIN recs : recs[i] \in Record
    BY DEF Books
  <2> QED
    BY <2>1 DEF WithMovedTransfer, Record
<1>3. \A i \in DOMAIN recs :
         recs[i].transfer # NoTransfer /\ recs[i].transfer # t => new[i] = recs[i]
  BY DEF WithMovedTransfer, Legs, Commissions, IsCommissionFor
<1>4. /\ DOMAIN trs2 = DOMAIN trs /\ trs2[t] = tr
      /\ \A u \in DOMAIN trs : u # t => trs2[u] = trs[u]
  OBVIOUS
<1>5. new \in [DOMAIN new -> Record]
  <2>1. new = [i \in DOMAIN new |-> new[i]]
    BY DEF WithMovedTransfer
  <2> QED
    BY <1>1, <2>1
<1>6. /\ trs2 \in [DOMAIN trs2 -> Transfer]
      /\ \A u \in DOMAIN trs2 : trs2[u].from \in DOMAIN wallets /\ trs2[u].to \in DOMAIN wallets
  <2>1. tr \in Transfer /\ tr.from = from /\ tr.to = to
    BY DEF Transfer
  <2>2. /\ trs \in [DOMAIN trs -> Transfer]
        /\ \A u \in DOMAIN trs : trs[u].from \in DOMAIN wallets /\ trs[u].to \in DOMAIN wallets
    BY DEF Books
  <2> QED
    BY <1>4, <2>1, <2>2
<1> HIDE DEF new, trs2
<1>7. \A u : Legs(new, u) = Legs(recs, u)
  BY <1>1 DEF Legs
<1>8. ASSUME NEW u \in DOMAIN trs
      PROVE  \/ Orphaned(new, u)
             \/ \E e, c \in DOMAIN new : Legs(new, u) = {e, c} /\ LegPair(new, trs2[u], e, c)
  <2>1. CASE u = t
    <3>1. PICK e, c \in DOMAIN recs : Legs(recs, t) = {e, c} /\ LegPair(recs, trs[t], e, c)
      BY TwoLegsArePaired DEF Books
    <3>2. e \in Legs(recs, t) /\ c \in Legs(recs, t)
      BY <3>1
    <3>3. LegPair(new, trs2[t], e, c)
      BY <1>1, <1>2, <1>4, <3>1, <3>2 DEF LegPair
    <3> QED
      BY <1>1, <1>7, <2>1, <3>1, <3>3
  <2>2. CASE u # t /\ Orphaned(recs, u)
    BY <1>7, <2>2 DEF Orphaned
  <2>3. CASE u # t /\ ~ Orphaned(recs, u)
    <3>1. PICK e, c \in DOMAIN recs : Legs(recs, u) = {e, c} /\ LegPair(recs, trs[u], e, c)
      BY <2>3 DEF Books, LegsMatch
    <3>2. recs[e].transfer = u /\ recs[c].transfer = u /\ u # NoTransfer
      BY <3>1 DEF Legs, Books, Ids, NoTransfer
    <3>3. new[e] = recs[e] /\ new[c] = recs[c]
      BY <1>3, <2>3, <3>2
    <3>4. LegPair(new, trs2[u], e, c)
      BY <1>4, <2>3, <3>1, <3>3 DEF LegPair
    <3> QED
      BY <1>1, <1>7, <3>1, <3>4
  <2> QED
    BY <2>1, <2>2, <2>3
<1>9. \A i \in DOMAIN new : new[i].transfer # NoTransfer => new[i].transfer \in DOMAIN trs2
  BY <1>1, <1>4 DEF Books, LegsMatch
<1>10. LegsMatch(new, trs2)
  BY <1>4, <1>8, <1>9 DEF LegsMatch
<1>11. Books(new, trs2)
  BY <1>1, <1>4, <1>5, <1>6, <1>10 DEF Books
<1> QED
  BY <1>11 DEF new, trs2

\* Deleting a transfer takes its legs and commissions and no leg of another transfer.
LEMMA DeletedTransferAgrees ==
    ASSUME NEW recs, NEW trs, Books(recs, trs), NEW t \in DOMAIN trs
    PROVE  Books(Without(recs, Legs(recs, t) \cup Commissions(recs, t)), Without(trs, {t}))
<1> DEFINE gone == Legs(recs, t) \cup Commissions(recs, t)
           new  == Without(recs, gone)
           trs2 == Without(trs, {t})
<1>1. /\ DOMAIN new = DOMAIN recs \ gone
      /\ \A i \in DOMAIN new : new[i] = recs[i]
      /\ DOMAIN trs2 = DOMAIN trs \ {t}
      /\ \A u \in DOMAIN trs2 : trs2[u] = trs[u]
  BY DEF Without
<1>2. /\ new \in [DOMAIN new -> Record] /\ Ids(DOMAIN new)
      /\ \A i \in DOMAIN new : new[i].wallet \in DOMAIN wallets
      /\ trs2 \in [DOMAIN trs2 -> Transfer] /\ Ids(DOMAIN trs2)
      /\ \A u \in DOMAIN trs2 : trs2[u].from \in DOMAIN wallets /\ trs2[u].to \in DOMAIN wallets
  <2>1. Ids(DOMAIN new) /\ Ids(DOMAIN trs2)
    BY <1>1, IdsOfPart DEF Books
  <2> QED
    BY <1>1, <2>1 DEF Without, Books
<1>3. \A i \in DOMAIN new : new[i].transfer # t
  BY <1>1 DEF Legs
<1>4. ASSUME NEW u \in DOMAIN trs2
      PROVE  Legs(new, u) = Legs(recs, u)
  <2>1. u # t /\ u # NoTransfer
    BY <1>1 DEF Books, Ids, NoTransfer
  <2>2. \A i \in DOMAIN recs : recs[i].transfer = u => i \notin gone
    BY <2>1 DEF Legs, Commissions, IsCommissionFor
  <2> QED
    BY <1>1, <2>2 DEF Legs
<1>5. \A i \in DOMAIN new : new[i].transfer # NoTransfer => new[i].transfer \in DOMAIN trs2
  BY <1>1, <1>3 DEF Books, LegsMatch
<1>6. ASSUME NEW u \in DOMAIN trs2
      PROVE  \/ Orphaned(new, u)
             \/ \E e, c \in DOMAIN new : Legs(new, u) = {e, c} /\ LegPair(new, trs2[u], e, c)
  <2>1. CASE Orphaned(recs, u)
    BY <1>4, <2>1 DEF Orphaned
  <2>2. CASE ~ Orphaned(recs, u)
    <3>1. PICK e, c \in DOMAIN recs : Legs(recs, u) = {e, c} /\ LegPair(recs, trs[u], e, c)
      BY <1>1, <2>2 DEF Books, LegsMatch
    <3>2. e \in Legs(new, u) /\ c \in Legs(new, u)
      BY <1>4, <3>1
    <3>3. e \in DOMAIN new /\ c \in DOMAIN new
      BY <3>2 DEF Legs
    <3> QED
      BY <1>1, <1>4, <3>1, <3>3 DEF LegPair
  <2> QED
    BY <2>1, <2>2
<1> QED
  BY <1>2, <1>5, <1>6 DEF Books, LegsMatch

(***************************************************************************)
(* The inductive step.                                                     *)
(***************************************************************************)

\* The invariant says that the tables agree and that ids are ids.
LEMMA InvariantGivesBooks ==
    ASSUME TypeOK, LegsMatchTransfer
    PROVE  /\ Books(records, transfers)
           /\ DOMAIN wallets \subseteq Nat \ {0}
           /\ Cardinality(DOMAIN wallets) \in Nat
           /\ NoTransfer \notin DOMAIN transfers
<1>1. Ids(DOMAIN records)
  BY IdsOfInterval DEF TypeOK
<1>2. Cardinality(DOMAIN wallets) \in Nat /\ Cardinality(DOMAIN transfers) \in Nat
  BY FS_CardinalityType DEF TypeOK, Dense
<1>3. DOMAIN wallets \subseteq Nat \ {0} /\ DOMAIN transfers \subseteq Nat \ {0}
  BY <1>2 DEF TypeOK, Dense
<1>4. Ids(DOMAIN transfers)
  BY <1>3 DEF TypeOK, Dense, Ids
<1> QED
  BY <1>1, <1>2, <1>3, <1>4 DEF Books, TypeOK, LegsMatchTransfer, NoTransfer

\* The rewrite of lists that agree leaves tables that do, under dense ids.
LEMMA RewriteKeepsInvariant ==
    ASSUME NEW recs, NEW trs, Books(recs, trs), TypeOK,
           Rewrite(recs, trs), UNCHANGED wallets, phase' \in Phase
    PROVE  TypeOK' /\ LegsMatchTransfer'
<1>1. /\ Books(records', transfers')
      /\ DOMAIN records' = 1 .. recSeq' /\ recSeq' \in Nat
      /\ DOMAIN transfers' = 1 .. Cardinality(DOMAIN transfers')
  BY BooksReinserted DEF Rewrite
<1>2. Dense(DOMAIN transfers')
  BY <1>1 DEF Dense, Books, Ids
<1> QED
  BY <1>1, <1>2 DEF TypeOK, LegsMatchTransfer, Books

\* A change of single rows that are no legs keeps the invariant.
LEMMA PlainChangeKeepsInvariant ==
    ASSUME TypeOK, LegsMatchTransfer, UNCHANGED <<wallets, transfers>>, phase' \in Phase,
           recSeq' \in Nat, DOMAIN records' \subseteq 1 .. recSeq',
           records' \in [DOMAIN records' -> Record],
           \A i \in DOMAIN records' : records'[i].wallet \in DOMAIN wallets,
           \A i \in DOMAIN records' :
              records'[i].transfer # NoTransfer =>
                 i \in DOMAIN records /\ records'[i] = records[i],
           \A i \in DOMAIN records :
              records[i].transfer # NoTransfer =>
                 i \in DOMAIN records' /\ records'[i] = records[i]
    PROVE  TypeOK' /\ LegsMatchTransfer'
<1>1. LegsMatch(records', transfers)
  BY PlainRowsDoNotMatter, InvariantGivesBooks DEF LegsMatchTransfer
<1> QED
  BY <1>1 DEF TypeOK, LegsMatchTransfer

\* What a step may do to the phase so that a refused start still means a wiped ledger.
LEMMA NotRefused ==
    ASSUME phase' # "refused"
    PROVE  RefusedOnlyAfterWipe'
BY DEF RefusedOnlyAfterWipe

\* The empty ledger has the invariant.
LEMMA InitInvariant == Init => IInv
<1> SUFFICES ASSUME Init
             PROVE  IInv
  OBVIOUS
<1>1. /\ IsFiniteSet({}) /\ Cardinality({}) = 0
      /\ IsFiniteSet({SystemWallet}) /\ Cardinality({SystemWallet}) = 1
  BY FS_EmptySet, FS_Singleton
<1>2. DOMAIN wallets = {SystemWallet} /\ DOMAIN records = {} /\ DOMAIN transfers = {}
  BY DEF Init
<1>3. Dense(DOMAIN wallets) /\ Dense(DOMAIN transfers)
  BY <1>1, <1>2 DEF Dense, SystemWallet
<1>4. /\ wallets \in [DOMAIN wallets -> Wallet]
      /\ records \in [DOMAIN records -> Record]
      /\ transfers \in [DOMAIN transfers -> Transfer]
  BY DEF Init, Wallet
<1>5. TypeOK
  BY <1>2, <1>3, <1>4 DEF Init, TypeOK, Phase
<1> QED
  BY <1>2, <1>5 DEF IInv, LegsMatchTransfer, LegsMatch, RefusedOnlyAfterWipe, Init

\* What an operation on wallets leaves of their table: no row goes, and none loses its type.
WalletsKept ==
    /\ DOMAIN wallets \subseteq DOMAIN wallets' /\ Dense(DOMAIN wallets')
    /\ wallets' \in [DOMAIN wallets' -> Wallet]

\* Creating and soft-deleting wallets: rows of wallets are never removed.
LEMMA WalletOpsInvariant == IInv /\ WalletOps => IInv'
<1> SUFFICES ASSUME IInv, WalletOps
             PROVE  IInv'
  OBVIOUS
<1> USE DEF IInv
<1>1. /\ records' = records /\ transfers' = transfers /\ recSeq' = recSeq
      /\ phase' = phase /\ phase = "idle"
  BY DEF WalletOps, CreateWallet, SoftDeleteWallet
<1>2. WalletsKept
  <2>1. ASSUME NEW neg \in BOOLEAN, NEW initial \in Initials, CreateWallet(neg, initial)
        PROVE  WalletsKept
    <3> DEFINE n   == Cardinality(DOMAIN wallets)
               row == [active |-> TRUE, neg |-> neg, initial |-> initial]
    <3>1. n \in Nat /\ DOMAIN wallets = 1 .. n /\ IsFiniteSet(DOMAIN wallets)
      BY InvariantGivesBooks DEF TypeOK, Dense
    <3>2. wallets' = With(wallets, n + 1, row)
      BY <2>1 DEF CreateWallet
    <3>3. DOMAIN wallets' = DOMAIN wallets \cup {n + 1} /\ DOMAIN wallets' = 1 .. n + 1
      BY <3>1, <3>2 DEF With
    <3>4. IsFiniteSet(DOMAIN wallets') /\ Cardinality(DOMAIN wallets') = n + 1
      BY <3>1, <3>3, FS_Interval
    <3>5. row \in Wallet
      BY LedgerAssumption DEF Wallet
    <3>6. wallets' \in [DOMAIN wallets' -> Wallet]
      BY <3>2, <3>3, <3>5 DEF With, TypeOK
    <3> QED
      BY <3>3, <3>4, <3>6 DEF Dense, WalletsKept
  <2>2. ASSUME NEW w \in DOMAIN wallets, SoftDeleteWallet(w)
        PROVE  WalletsKept
    <3>1. wallets' = [wallets EXCEPT ![w].active = FALSE]
      BY <2>2 DEF SoftDeleteWallet
    <3> QED
      BY <3>1 DEF TypeOK, Wallet, WalletsKept
  <2> QED
    BY <2>1, <2>2 DEF WalletOps
<1> QED
  BY <1>1, <1>2 DEF WalletsKept, TypeOK, LegsMatchTransfer, RefusedOnlyAfterWipe

\* A new row that is no leg, under an id no row has yet.
LEMMA SaveRecordInvariant ==
    ASSUME TypeOK, LegsMatchTransfer, NEW r \in Record, r.wallet \in DOMAIN wallets,
           r.transfer = NoTransfer, SaveRecord(r)
    PROVE  TypeOK' /\ LegsMatchTransfer'
<1>1. /\ recSeq \in Nat /\ recSeq' = recSeq + 1 /\ DOMAIN records \subseteq 1 .. recSeq
      /\ phase' \in Phase /\ UNCHANGED <<wallets, transfers>>
  BY DEF SaveRecord, TypeOK
<1>2. /\ DOMAIN records' = DOMAIN records \cup {recSeq + 1}
      /\ records'[recSeq + 1] = r
      /\ \A i \in DOMAIN records : i # recSeq + 1 /\ records'[i] = records[i]
  BY <1>1 DEF SaveRecord, With
<1>3. records' \in [DOMAIN records' -> Record]
  <2>1. records' = [i \in DOMAIN records' |-> records'[i]]
    BY DEF SaveRecord, With
  <2>2. \A i \in DOMAIN records' : records'[i] \in Record
    BY <1>2 DEF TypeOK
  <2> QED
    BY <2>1, <2>2
<1>4. recSeq' \in Nat /\ DOMAIN records' \subseteq 1 .. recSeq'
  BY <1>1, <1>2
<1>5. \A i \in DOMAIN records' : records'[i].wallet \in DOMAIN wallets
  BY <1>2 DEF TypeOK
<1>6. \A i \in DOMAIN records' :
         records'[i].transfer # NoTransfer => i \in DOMAIN records /\ records'[i] = records[i]
  BY <1>2
<1>7. \A i \in DOMAIN records :
         records[i].transfer # NoTransfer => i \in DOMAIN records' /\ records'[i] = records[i]
  BY <1>2
<1> QED
  BY <1>1, <1>3, <1>4, <1>5, <1>6, <1>7, PlainChangeKeepsInvariant

\* An inline edit never touches a leg and never names a missing wallet.
LEMMA UpdateRecordInlineInvariant ==
    ASSUME TypeOK, LegsMatchTransfer, NEW i \in DOMAIN records, NEW amount \in Amounts,
           NEW w \in DOMAIN wallets, NEW keep \in BOOLEAN, UpdateRecordInline(i, amount, w, keep)
    PROVE  TypeOK' /\ LegsMatchTransfer'
<1> DEFINE row == [records[i] EXCEPT !.amount = amount, !.wallet = w,
                                     !.mark = IF keep THEN records[i].mark ELSE NoMark]
<1>1. /\ records' = [records EXCEPT ![i] = row]
      /\ recSeq' = recSeq /\ phase' = phase /\ UNCHANGED <<wallets, transfers>>
      /\ records[i].transfer = NoTransfer
  BY DEF UpdateRecordInline
<1>2. /\ records[i] \in Record /\ records \in [DOMAIN records -> Record]
      /\ w \in Nat \ {0} /\ amount \in Nat
  BY InvariantGivesBooks, LedgerAssumption DEF TypeOK
<1>3. row \in Record /\ row.wallet = w /\ row.transfer = NoTransfer
  BY <1>1, <1>2 DEF Record, NoMark
<1>4. /\ DOMAIN records' = DOMAIN records /\ records'[i] = row
      /\ \A j \in DOMAIN records : j # i => records'[j] = records[j]
  BY <1>1
<1>5. records' \in [DOMAIN records' -> Record]
  BY <1>1, <1>2, <1>3
<1> HIDE DEF row
<1>6. \A j \in DOMAIN records' : records'[j].wallet \in DOMAIN wallets
  BY <1>3, <1>4 DEF TypeOK
<1>7. /\ \A j \in DOMAIN records' :
            records'[j].transfer # NoTransfer => j \in DOMAIN records /\ records'[j] = records[j]
      /\ \A j \in DOMAIN records :
            records[j].transfer # NoTransfer => j \in DOMAIN records' /\ records'[j] = records[j]
  BY <1>1, <1>3, <1>4
<1>8. recSeq' \in Nat /\ DOMAIN records' \subseteq 1 .. recSeq' /\ phase' \in Phase
  BY <1>1, <1>4 DEF TypeOK
<1> QED
  BY <1>1, <1>5, <1>6, <1>7, <1>8, PlainChangeKeepsInvariant

\* The first commit of a deletion, of a row that is no leg.
LEMMA DeletePlainRecordInvariant ==
    ASSUME TypeOK, LegsMatchTransfer, NEW i \in DOMAIN records, DeletePlainRecord(i)
    PROVE  TypeOK' /\ LegsMatchTransfer'
<1>1. /\ DOMAIN records' = DOMAIN records \ {i}
      /\ \A j \in DOMAIN records' : records'[j] = records[j]
      /\ records[i].transfer = NoTransfer
      /\ recSeq' = recSeq /\ phase' \in Phase /\ UNCHANGED <<wallets, transfers>>
  BY DEF DeletePlainRecord, Without, Phase
<1>2. records' \in [DOMAIN records' -> Record]
  <2>1. records' = [j \in DOMAIN records' |-> records'[j]]
    BY DEF DeletePlainRecord, Without
  <2>2. \A j \in DOMAIN records' : records'[j] \in Record
    BY <1>1 DEF TypeOK
  <2> QED
    BY <2>1, <2>2
<1>3. recSeq' \in Nat /\ DOMAIN records' \subseteq 1 .. recSeq'
  BY <1>1 DEF TypeOK
<1>4. \A j \in DOMAIN records' : records'[j].wallet \in DOMAIN wallets
  BY <1>1 DEF TypeOK
<1>5. /\ \A j \in DOMAIN records' :
            records'[j].transfer # NoTransfer => j \in DOMAIN records /\ records'[j] = records[j]
      /\ \A j \in DOMAIN records :
            records[j].transfer # NoTransfer => j \in DOMAIN records' /\ records'[j] = records[j]
  BY <1>1
<1> QED
  BY <1>1, <1>2, <1>3, <1>4, <1>5, PlainChangeKeepsInvariant

\* All rows gone: every transfer is orphaned, which the invariant allows.
LEMMA DeleteAllRecordsInvariant ==
    ASSUME TypeOK, DeleteAllRecords
    PROVE  TypeOK' /\ LegsMatchTransfer'
<1>1. /\ DOMAIN records' = {} /\ recSeq' = 0 /\ phase' = phase
      /\ UNCHANGED <<wallets, transfers>>
      /\ records' \in [DOMAIN records' -> Record]
  BY DEF DeleteAllRecords
<1>2. \A t : Legs(records', t) = {}
  BY <1>1 DEF Legs
<1> QED
  BY <1>1, <1>2 DEF TypeOK, LegsMatchTransfer, LegsMatch, Orphaned

\* A transfer is deleted with both its legs.
LEMMA DeleteTransferInvariant ==
    ASSUME TypeOK, LegsMatchTransfer, NEW t \in DOMAIN transfers, DeleteTransfer(t)
    PROVE  TypeOK' /\ LegsMatchTransfer'
<1>1. Books(records, transfers)
  BY InvariantGivesBooks
<1>2. phase' \in Phase /\ UNCHANGED wallets
  BY DEF DeleteTransfer, TypeOK
<1>3. Books(Without(records, Legs(records, t) \cup Commissions(records, t)),
            Without(transfers, {t}))
  BY <1>1, DeletedTransferAgrees
<1> QED
  BY <1>2, <1>3, RewriteKeepsInvariant DEF DeleteTransfer

\* Every operation on single records keeps the invariant.
LEMMA RecordOpsInvariant == IInv /\ RecordOps => IInv'
<1> SUFFICES ASSUME IInv, RecordOps
             PROVE  IInv'
  OBVIOUS
<1> USE DEF IInv
<1>1. ASSUME NEW w \in DOMAIN wallets, NEW amount \in Amounts,
             NEW kind \in {"income", "expense"}, SaveRecord(Plain(kind, w, amount))
      PROVE  TypeOK' /\ LegsMatchTransfer'
  <2>1. w \in Nat \ {0} /\ amount \in Nat
    BY InvariantGivesBooks, LedgerAssumption
  <2>2. /\ Plain(kind, w, amount) \in Record
        /\ Plain(kind, w, amount).wallet = w
        /\ Plain(kind, w, amount).transfer = NoTransfer
    BY <2>1 DEF Plain, Record, NoTransfer, NoMark
  <2> QED
    BY <1>1, <2>2, SaveRecordInvariant
<1>2. ASSUME NEW w \in DOMAIN wallets, NEW amount \in Amounts,
             CreateIncome(w, amount) \/ CreateExpense(w, amount)
      PROVE  IInv'
  <2>1. phase' # "refused"
    BY <1>2 DEF CreateIncome, CreateExpense, SaveRecord
  <2>2. TypeOK' /\ LegsMatchTransfer'
    BY <1>1, <1>2 DEF CreateIncome, CreateExpense
  <2> QED
    BY <2>1, <2>2, NotRefused
<1>3. ASSUME NEW i \in DOMAIN records, NEW amount \in Amounts, NEW w \in DOMAIN wallets,
             NEW keep \in BOOLEAN, UpdateRecordInline(i, amount, w, keep)
      PROVE  IInv'
  <2>1. phase' # "refused"
    BY <1>3 DEF UpdateRecordInline
  <2> QED
    BY <1>3, <2>1, UpdateRecordInlineInvariant, NotRefused
<1>4. ASSUME NEW i \in DOMAIN records, DeleteRecord(i)
      PROVE  IInv'
  <2>1. phase' # "refused"
    BY <1>4 DEF DeleteRecord, DeleteLeg, DeleteTransfer, DeletePlainRecord
  <2>2. CASE DeletePlainRecord(i)
    BY <2>1, <2>2, DeletePlainRecordInvariant, NotRefused
  <2>3. CASE DeleteLeg(i)
    <3>1. records[i].transfer \in DOMAIN transfers
      BY <2>3 DEF DeleteLeg, LegsMatchTransfer, LegsMatch
    <3>2. DeleteTransfer(records[i].transfer)
      BY <2>3 DEF DeleteLeg
    <3>3. TypeOK' /\ LegsMatchTransfer'
      BY <3>1, <3>2, DeleteTransferInvariant
    <3> QED
      BY <2>1, <3>3, NotRefused
  <2> QED
    BY <1>4, <2>2, <2>3 DEF DeleteRecord
<1>5. ASSUME DeleteAllRecords
      PROVE  IInv'
  <2>1. phase' # "refused"
    BY <1>5 DEF DeleteAllRecords
  <2> QED
    BY <1>5, <2>1, DeleteAllRecordsInvariant, NotRefused
<1> QED
  BY <1>2, <1>3, <1>4, <1>5 DEF RecordOps

\* Every operation on transfers keeps the invariant.
LEMMA TransferOpsInvariant == IInv /\ TransferOps => IInv'
<1> SUFFICES ASSUME IInv, TransferOps
             PROVE  IInv'
  OBVIOUS
<1> USE DEF IInv
<1>1. Books(records, transfers) /\ DOMAIN wallets \subseteq Nat \ {0}
  BY InvariantGivesBooks
<1>2. ASSUME NEW from \in DOMAIN wallets, NEW to \in DOMAIN wallets, NEW amount \in Amounts,
             NEW commission \in Amounts \cup {0}, CreateTransfer(from, to, amount, commission)
      PROVE  IInv'
  <2> DEFINE t    == MaxId(DOMAIN transfers) + 1
             recs == WithTransferRows(records, t, from, to, amount, commission)
             trs  == With(transfers, t, [from |-> from, to |-> to, amount |-> amount])
  <2>1. amount \in Nat /\ commission \in Nat
    BY LedgerAssumption
  <2>2. Books(recs, trs)
    BY <1>1, <2>1, CreatedTransferAgrees
  <2>3. Rewrite(recs, trs) /\ UNCHANGED wallets /\ phase' = phase /\ phase = "idle"
    BY <1>2 DEF CreateTransfer
  <2>4. phase' \in Phase /\ phase' # "refused"
    BY <2>3 DEF TypeOK
  <2> HIDE DEF recs, trs
  <2>5. TypeOK' /\ LegsMatchTransfer'
    BY <2>2, <2>3, <2>4, RewriteKeepsInvariant
  <2> QED
    BY <2>4, <2>5, NotRefused
<1>3. ASSUME NEW t \in DOMAIN transfers, NEW from \in DOMAIN wallets, NEW to \in DOMAIN wallets,
             NEW amount \in Amounts, UpdateTransfer(t, from, to, amount)
      PROVE  IInv'
  <2> DEFINE recs == WithMovedTransfer(records, t, from, to, amount)
             trs  == [transfers EXCEPT ![t] = [from |-> from, to |-> to, amount |-> amount]]
  <2>1. amount \in Nat
    BY LedgerAssumption
  <2>2. /\ HasTwoLegs(records, t) /\ Rewrite(recs, trs) /\ UNCHANGED wallets
        /\ phase' = phase /\ phase = "idle"
    BY <1>3 DEF UpdateTransfer
  <2>3. Books(recs, trs)
    BY <1>1, <2>1, <2>2, MovedTransferAgrees
  <2>4. phase' \in Phase /\ phase' # "refused"
    BY <2>2 DEF TypeOK
  <2> HIDE DEF recs, trs
  <2>5. TypeOK' /\ LegsMatchTransfer'
    BY <2>2, <2>3, <2>4, RewriteKeepsInvariant
  <2> QED
    BY <2>4, <2>5, NotRefused
<1>4. ASSUME NEW t \in DOMAIN transfers, DeleteTransfer(t)
      PROVE  IInv'
  <2>1. phase' # "refused"
    BY <1>4 DEF DeleteTransfer
  <2> QED
    BY <1>4, <2>1, DeleteTransferInvariant, NotRefused
<1> QED
  BY <1>2, <1>3, <1>4 DEF TransferOps

\* The tables are what they were, so what is true of them still is.
LEMMA SameTables ==
    ASSUME TypeOK, LegsMatchTransfer, UNCHANGED <<wallets, records, transfers, recSeq>>,
           phase' \in Phase
    PROVE  TypeOK' /\ LegsMatchTransfer'
  BY DEF TypeOK, LegsMatchTransfer

\* So do the renumbering, the stop and the start of the process.
LEMMA ProcessStepsInvariant == IInv /\ ProcessSteps => IInv'
<1> SUFFICES ASSUME IInv, ProcessSteps
             PROVE  IInv'
  OBVIOUS
<1> USE DEF IInv
<1>1. Books(records, transfers)
  BY InvariantGivesBooks
<1>2. CASE Renumber
  <2>1. /\ Rewrite(records, transfers) /\ UNCHANGED wallets
        /\ phase' \in Phase /\ phase' # "refused"
    BY <1>2 DEF Renumber, Phase
  <2>2. TypeOK' /\ LegsMatchTransfer'
    BY <1>1, <2>1, RewriteKeepsInvariant
  <2> QED
    BY <2>1, <2>2, NotRefused
<1>3. CASE RenumberRaises \/ Stop
  <2>1. /\ UNCHANGED <<wallets, records, transfers, recSeq>>
        /\ phase' \in Phase /\ phase' # "refused"
    BY <1>3 DEF RenumberRaises, Stop, Phase
  <2> QED
    BY <2>1, SameTables, NotRefused
\* A start that renumbers or not ends with tables that agree; if it refuses, a transfer lost legs.
<1>4. CASE Start
  <2>1. NormalizeAtStart /\ UNCHANGED wallets /\ phase' \in Phase
    BY <1>4 DEF Start, Phase
  <2>2. TypeOK' /\ LegsMatchTransfer'
    <3>1. CASE IdsNormalized
      BY <2>1, <3>1, SameTables DEF NormalizeAtStart
    <3>2. CASE ~ IdsNormalized
      <4>1. Rewrite(records, transfers)
        BY <2>1, <3>2 DEF NormalizeAtStart
      <4> QED
        BY <1>1, <2>1, <4>1, RewriteKeepsInvariant
    <3> QED
      BY <3>1, <3>2
  <2>3. RefusedOnlyAfterWipe'
    <3>1. SUFFICES ASSUME \A t \in DOMAIN transfers' : ~ Orphaned(records', t)
                   PROVE  phase' # "refused"
      BY DEF RefusedOnlyAfterWipe, Wiped
    <3>2. \A t \in DOMAIN transfers' : HasTwoLegs(records', t)
      BY <2>2, <3>1, InvalidIsOrphaned DEF LegsMatchTransfer
    <3>3. \A i \in DOMAIN records' : records'[i].wallet \in DOMAIN wallets
      BY <2>1, <2>2 DEF TypeOK
    <3> QED
      BY <1>4, <3>2, <3>3 DEF Start, IntegrityHolds
  <2> QED
    BY <2>2, <2>3
<1>5. CASE StartRaises
  <2>1. /\ UNCHANGED <<wallets, records, transfers, recSeq>> /\ phase' \in Phase
        /\ ~ ValidTransfers(records, transfers)
    BY <1>5 DEF StartRaises, Phase
  <2>2. Wiped
    BY <2>1, InvalidIsOrphaned DEF Wiped, LegsMatchTransfer
  <2>3. Wiped'
    BY <2>1, <2>2 DEF Wiped, Orphaned, Legs
  <2> QED
    BY <2>1, <2>3, SameTables DEF RefusedOnlyAfterWipe
<1> QED
  BY <1>2, <1>3, <1>4, <1>5 DEF ProcessSteps

\* The invariant is inductive.
LEMMA NextInvariant == IInv /\ [Next]_vars => IInv'
<1>1. IInv /\ UNCHANGED vars => IInv'
  <2> SUFFICES ASSUME IInv, UNCHANGED vars
               PROVE  IInv'
    OBVIOUS
  <2> QED
    BY DEF IInv, vars, TypeOK, LegsMatchTransfer, RefusedOnlyAfterWipe, Wiped
<1> QED
  BY <1>1, WalletOpsInvariant, RecordOpsInvariant, TransferOpsInvariant, ProcessStepsInvariant
     DEF Next

\* The invariant holds throughout, for every value of the constants.
THEOREM InvariantHolds == Spec => []IInv
  BY InitInvariant, NextInvariant, PTL DEF Spec

\* Types and references: no row of records or transfers ever names a wallet that does not exist,
\* and the counter of records is never behind its table: a new row takes no id that is in use.
THEOREM TypeCorrect == Spec => []TypeOK
<1>1. IInv => TypeOK
  BY DEF IInv
<1> QED
  BY <1>1, InvariantHolds, PTL

\* Transfer rows and legs agree through every renumbering, whatever is created, edited, deleted
\* or interrupted by a crash.
THEOREM TransfersAgree == Spec => []LegsMatchTransfer
<1>1. IInv => LegsMatchTransfer
  BY DEF IInv
<1> QED
  BY <1>1, InvariantHolds, PTL

\* The bootstrap refuses no ledger but one whose records were all deleted under its transfers.
THEOREM StartRefusesOnlyWiped == Spec => []RefusedOnlyAfterWipe
<1>1. IInv => RefusedOnlyAfterWipe
  BY DEF IInv
<1> QED
  BY <1>1, InvariantHolds, PTL

(***************************************************************************)
(* Part 3: the steps, by what they do to the tables.                       *)
(***************************************************************************)
WalletStep ==
    /\ UNCHANGED <<records, transfers, recSeq, phase>>
    /\ \A w \in DOMAIN wallets : /\ w \in DOMAIN wallets'
                                 /\ wallets'[w].initial = wallets[w].initial

BookStep ==
    /\ phase = "idle"
    /\ \E kind \in {"income", "expense"}, w \in DOMAIN wallets, amount \in Amounts :
          /\ wallets[w].active
          /\ kind = "expense" => CanSpend(records, w, amount)
          /\ SaveRecord(Plain(kind, w, amount))

EditStep ==
    \E i \in DOMAIN records, amount \in Amounts, w \in DOMAIN wallets, keep \in BOOLEAN :
       UpdateRecordInline(i, amount, w, keep)

DeleteStep == \E i \in DOMAIN records : DeletePlainRecord(i)

\* A transfer is created, updated or deleted.
CreateStep ==
    \E from, to \in DOMAIN wallets, amount \in Amounts, commission \in Amounts \cup {0} :
       CreateTransfer(from, to, amount, commission)

MoveStep ==
    \E t \in DOMAIN transfers, from, to \in DOMAIN wallets, amount \in Amounts :
       UpdateTransfer(t, from, to, amount)

DropStep == \E t \in DOMAIN transfers : DeleteTransfer(t)

\* The renumbering, after a deletion or at a start.
RenumberStep ==
    /\ phase # "idle" /\ Rewrite(records, transfers)
    /\ UNCHANGED wallets

\* Nothing is written.
IdleStep ==
    /\ UNCHANGED <<wallets, records, transfers, recSeq>>
    /\ \/ phase' # "idle"
       \/ phase' = phase
       \/ phase # "idle" /\ (IdsNormalized \/ ~ ValidTransfers(records, transfers))

\* Every step is one of them.
LEMMA StepKinds ==
    ASSUME IInv, [Next]_vars
    PROVE  \/ WalletStep \/ BookStep \/ EditStep \/ DeleteStep \/ DeleteAllRecords
           \/ CreateStep \/ MoveStep \/ DropStep \/ RenumberStep \/ IdleStep
<1>1. CASE WalletOps
  <2>1. ASSUME NEW neg \in BOOLEAN, NEW initial \in Initials, CreateWallet(neg, initial)
        PROVE  WalletStep
    <3>1. Cardinality(DOMAIN wallets) + 1 \notin DOMAIN wallets
      BY FS_CardinalityType DEF IInv, TypeOK, Dense
    <3> QED
      BY <2>1, <3>1 DEF CreateWallet, WalletStep, With
  <2>2. ASSUME NEW w \in DOMAIN wallets, SoftDeleteWallet(w)
        PROVE  WalletStep
    <3>1. \A v \in DOMAIN wallets : wallets[v] \in Wallet
      BY DEF IInv, TypeOK
    <3> QED
      BY <2>2, <3>1 DEF SoftDeleteWallet, WalletStep, Wallet
  <2> QED
    BY <1>1, <2>1, <2>2 DEF WalletOps
<1>2. CASE RecordOps
  <2>1. ASSUME NEW w \in DOMAIN wallets, NEW amount \in Amounts,
               CreateIncome(w, amount) \/ CreateExpense(w, amount)
        PROVE  BookStep
    BY <2>1 DEF CreateIncome, CreateExpense, BookStep
  <2>2. ASSUME NEW i \in DOMAIN records, DeleteRecord(i)
        PROVE  DeleteStep \/ DropStep
    <3>1. DeleteLeg(i) => DropStep
      BY DEF DeleteLeg, DropStep, IInv, LegsMatchTransfer, LegsMatch
    <3> QED
      BY <2>2, <3>1 DEF DeleteRecord, DeleteStep
  <2> QED
    BY <1>2, <2>1, <2>2 DEF RecordOps, EditStep
<1>3. CASE TransferOps
  BY <1>3 DEF TransferOps, CreateStep, MoveStep, DropStep
<1>4. CASE ProcessSteps
  <2>1. Renumber => RenumberStep
    BY DEF Renumber, RenumberStep
  <2>2. RenumberRaises \/ Stop \/ StartRaises => IdleStep
    BY DEF RenumberRaises, Stop, StartRaises, IdleStep
  <2>3. Start => RenumberStep \/ IdleStep
    BY DEF Start, NormalizeAtStart, RenumberStep, IdleStep
  <2> QED
    BY <1>4, <2>1, <2>2, <2>3 DEF ProcessSteps
<1>5. CASE UNCHANGED vars
  BY <1>5 DEF vars, IdleStep
<1> QED
  BY <1>1, <1>2, <1>3, <1>4, <1>5 DEF Next

\* A rewrite leaves every table without gaps.
LEMMA RewriteIsDense ==
    ASSUME NEW recs, NEW trs, Books(recs, trs), Rewrite(recs, trs)
    PROVE  /\ recSeq' \in Nat /\ DOMAIN records' = 1 .. recSeq'
           /\ Dense(DOMAIN records') /\ Dense(DOMAIN transfers')
<1>1. /\ recSeq' \in Nat /\ DOMAIN records' = 1 .. recSeq'
      /\ DOMAIN transfers' = 1 .. Cardinality(DOMAIN transfers')
      /\ Books(records', transfers')
  BY BooksReinserted DEF Rewrite
<1>2. Cardinality(1 .. recSeq') = recSeq' /\ IsFiniteSet(1 .. recSeq')
  BY <1>1, DenseRanks DEF Ids
<1>3. IsFiniteSet(DOMAIN transfers')
  BY <1>1 DEF Books, Ids
<1> QED
  BY <1>1, <1>2, <1>3 DEF Dense

\* The lists the operations on transfers hand to the rewrite.
LEMMA TransferStepsRewrite ==
    ASSUME IInv, CreateStep \/ MoveStep \/ DropStep \/ RenumberStep
    PROVE  \E recs, trs : Books(recs, trs) /\ Rewrite(recs, trs) /\ UNCHANGED wallets
<1>1. Books(records, transfers) /\ DOMAIN wallets \subseteq Nat \ {0}
  BY InvariantGivesBooks DEF IInv
<1>2. ASSUME NEW from \in DOMAIN wallets, NEW to \in DOMAIN wallets, NEW amount \in Amounts,
             NEW commission \in Amounts \cup {0}, CreateTransfer(from, to, amount, commission)
      PROVE  \E recs, trs : Books(recs, trs) /\ Rewrite(recs, trs) /\ UNCHANGED wallets
  <2>1. amount \in Nat /\ commission \in Nat
    BY LedgerAssumption
  <2> QED
    BY <1>1, <1>2, <2>1, CreatedTransferAgrees DEF CreateTransfer
<1>3. ASSUME NEW t \in DOMAIN transfers, NEW from \in DOMAIN wallets, NEW to \in DOMAIN wallets,
             NEW amount \in Amounts, UpdateTransfer(t, from, to, amount)
      PROVE  \E recs, trs : Books(recs, trs) /\ Rewrite(recs, trs) /\ UNCHANGED wallets
  <2>1. amount \in Nat
    BY LedgerAssumption
  <2>2. Books(WithMovedTransfer(records, t, from, to, amount),
              [transfers EXCEPT ![t] = [from |-> from, to |-> to, amount |-> amount]])
    BY <1>1, <1>3, <2>1, MovedTransferAgrees DEF UpdateTransfer
  <2> QED
    BY <1>3, <2>2 DEF UpdateTransfer
<1>4. ASSUME NEW t \in DOMAIN transfers, DeleteTransfer(t)
      PROVE  \E recs, trs : Books(recs, trs) /\ Rewrite(recs, trs) /\ UNCHANGED wallets
  <2>1. Books(Without(records, Legs(records, t) \cup Commissions(records, t)),
              Without(transfers, {t}))
    BY <1>1, DeletedTransferAgrees
  <2> QED
    BY <1>4, <2>1 DEF DeleteTransfer
<1> QED
  BY <1>1, <1>2, <1>3, <1>4 DEF CreateStep, MoveStep, DropStep, RenumberStep

(***************************************************************************)
(* Part 4: the gaps in the ids of records.                                 *)
(***************************************************************************)
OneGap(S, n) == \E k, m \in 0 .. n + 1 : S = 1 .. k \cup m .. n

\* A wiped ledger stays wiped by what touches no leg.
LEMMA StillWiped ==
    ASSUME IInv, Wiped, UNCHANGED transfers,
           \A i \in DOMAIN records' : records'[i].transfer # NoTransfer =>
              i \in DOMAIN records /\ records'[i].transfer = records[i].transfer
    PROVE  Wiped'
<1>1. PICK t \in DOMAIN transfers : Legs(records, t) = {}
  BY DEF Wiped, Orphaned
<1>2. t # NoTransfer
  BY InvariantGivesBooks DEF IInv
<1>3. Legs(records', t) = {}
  BY <1>1, <1>2 DEF Legs
<1> QED
  BY <1>1, <1>3 DEF Wiped, Orphaned

\* A row booked under the next id keeps the shape.
LEMMA GapAfterBooking ==
    ASSUME NEW S, NEW n \in Nat, OneGap(S, n)
    PROVE  OneGap(S \cup {n + 1}, n + 1)
<1>1. PICK k \in 0 .. n + 1, m \in 0 .. n + 1 : S = 1 .. k \cup m .. n
  BY DEF OneGap
<1>2. S \cup {n + 1} = 1 .. k \cup m .. (n + 1)
  BY <1>1
<1>3. k \in 0 .. (n + 1) + 1 /\ m \in 0 .. (n + 1) + 1
  OBVIOUS
<1> QED
  BY <1>2, <1>3 DEF OneGap

\* Ids without a gap have at most one.
LEMMA NoGapIsOneGap ==
    ASSUME NEW n \in Nat, NEW k \in 0 .. n
    PROVE  OneGap(1 .. k, n)
<1>1. 1 .. k = 1 .. k \cup (n + 1) .. n /\ k \in 0 .. n + 1 /\ n + 1 \in 0 .. n + 1
  OBVIOUS
<1> QED
  BY <1>1 DEF OneGap

\* At rest the shape holds, or the ledger is wiped; and a step to rest restores it.
LEMMA GapStep ==
    ASSUME IInv, AtMostOneGapAtRest, [Next]_vars
    PROVE  AtMostOneGapAtRest'
<1> SUFFICES ASSUME phase' = "idle", ~ Wiped'
             PROVE  OneGap(DOMAIN records', recSeq')
  BY DEF AtMostOneGapAtRest, OneGap
<1>0. phase = "idle" /\ ~ Wiped => OneGap(DOMAIN records, recSeq)
  BY DEF AtMostOneGapAtRest, OneGap
<1>1. CASE WalletStep
  <2>1. ~ Wiped
    BY <1>1 DEF WalletStep, Wiped
  <2> QED
    BY <1>0, <1>1, <2>1 DEF WalletStep
<1>2. CASE BookStep
  <2>1. PICK kind \in {"income", "expense"}, w \in DOMAIN wallets, amount \in Amounts :
           SaveRecord(Plain(kind, w, amount))
    BY <1>2 DEF BookStep
  <2>2. /\ DOMAIN records' = DOMAIN records \cup {recSeq + 1} /\ recSeq' = recSeq + 1
        /\ records'[recSeq + 1].transfer = NoTransfer
        /\ \A i \in DOMAIN records : i # recSeq + 1 => records'[i] = records[i]
        /\ transfers' = transfers /\ recSeq \in Nat
    BY <2>1 DEF SaveRecord, With, Plain, IInv, TypeOK
  <2>3. ~ Wiped
    BY <2>2, StillWiped
  <2> QED
    BY <1>0, <1>2, <2>2, <2>3, GapAfterBooking DEF BookStep
<1>3. CASE EditStep
  <2>1. PICK i \in DOMAIN records, amount \in Amounts, w \in DOMAIN wallets, keep \in BOOLEAN :
           UpdateRecordInline(i, amount, w, keep)
    BY <1>3 DEF EditStep
  <2>2. /\ DOMAIN records' = DOMAIN records /\ recSeq' = recSeq /\ transfers' = transfers
        /\ phase = "idle" /\ records[i].transfer = NoTransfer
        /\ \A j \in DOMAIN records : j # i => records'[j] = records[j]
        /\ records'[i].transfer = NoTransfer
    <3>1. records[i] \in Record
      BY DEF IInv, TypeOK
    <3> QED
      BY <2>1, <3>1 DEF UpdateRecordInline, Record
  <2>3. ~ Wiped
    BY <2>2, StillWiped
  <2> QED
    BY <1>0, <2>2, <2>3
<1>4. CASE DeleteStep
  BY <1>4 DEF DeleteStep, DeletePlainRecord
<1>5. CASE DeleteAllRecords
  <2>1. DOMAIN records' = 1 .. 0 /\ recSeq' = 0
    BY <1>5 DEF DeleteAllRecords
  <2> QED
    BY <2>1, NoGapIsOneGap
<1>6. CASE CreateStep \/ MoveStep \/ DropStep \/ RenumberStep
  <2>1. recSeq' \in Nat /\ DOMAIN records' = 1 .. recSeq'
    BY <1>6, TransferStepsRewrite, RewriteIsDense
  <2> QED
    BY <2>1, NoGapIsOneGap
<1>7. CASE IdleStep
  <2>1. records' = records /\ transfers' = transfers /\ recSeq' = recSeq /\ ~ Wiped
    BY <1>7 DEF IdleStep, Wiped
  <2>2. ValidTransfers(records, transfers)
    BY <2>1, InvalidIsOrphaned DEF IInv, LegsMatchTransfer, Wiped
  <2>3. CASE phase = "idle"
    BY <1>0, <2>1, <2>3
  <2>4. CASE phase # "idle"
    <3> DEFINE n == Cardinality(DOMAIN records)
    <3>1. Dense(DOMAIN records) /\ recSeq \in Nat /\ DOMAIN records \subseteq 1 .. recSeq
      BY <1>7, <2>2, <2>4 DEF IdleStep, IdsNormalized, IInv, TypeOK
    <3>2. n \in Nat /\ DOMAIN records = 1 .. n
      BY <3>1, FS_CardinalityType DEF Dense
    <3> HIDE DEF n
    <3>3. n \in 0 .. recSeq
      BY <3>1, <3>2
    <3> QED
      BY <2>1, <3>1, <3>2, <3>3, NoGapIsOneGap
  <2> QED
    BY <2>3, <2>4
<1> QED
  BY <1>1, <1>2, <1>3, <1>4, <1>5, <1>6, <1>7, StepKinds

\* When the program waits for the user the ids of records have at most one gap, unless the
\* ledger was wiped: whatever was booked, edited, deleted or interrupted before.
THEOREM OneGapAtRest == Spec => []AtMostOneGapAtRest
<1>1. Init => AtMostOneGapAtRest
  <2> SUFFICES ASSUME Init
               PROVE  AtMostOneGapAtRest
    OBVIOUS
  <2>1. DOMAIN records = 1 .. 0 /\ recSeq = 0
    BY DEF Init
  <2>2. OneGap(DOMAIN records, recSeq)
    BY <2>1, NoGapIsOneGap
  <2> QED
    BY <2>2 DEF AtMostOneGapAtRest, OneGap
<1>2. IInv /\ AtMostOneGapAtRest /\ [Next]_vars => AtMostOneGapAtRest'
  BY GapStep
<1> QED
  BY <1>1, <1>2, InvariantHolds, PTL DEF Spec

\* A start that succeeds leaves no gap in any table, whatever the process died in the middle of.
THEOREM StartsAreNormal == Spec => StartNormalizes
<1> DEFINE Normal == phase # "idle" /\ phase' = "idle" /\ ~ Wiped => IdsNormalized'
<1>1. ASSUME IInv, [Next]_vars
      PROVE  Normal
  <2> SUFFICES ASSUME phase # "idle", phase' = "idle", ~ Wiped
               PROVE  IdsNormalized'
    OBVIOUS
  <2>1. Dense(DOMAIN wallets)
    BY <1>1 DEF IInv, TypeOK
  <2>2. CASE RenumberStep
    <3>1. Dense(DOMAIN records') /\ Dense(DOMAIN transfers') /\ wallets' = wallets
      BY <1>1, <2>2, TransferStepsRewrite, RewriteIsDense DEF RenumberStep
    <3> QED
      BY <2>1, <3>1 DEF IdsNormalized
  <2>3. CASE IdleStep
    <3>1. ValidTransfers(records, transfers)
      BY <1>1, InvalidIsOrphaned DEF IInv, LegsMatchTransfer, Wiped
    <3>2. IdsNormalized /\ UNCHANGED <<wallets, records, transfers>>
      BY <2>3, <3>1 DEF IdleStep
    <3> QED
      BY <3>2 DEF IdsNormalized
  <2>4. ~ (\/ WalletStep \/ BookStep \/ EditStep \/ DeleteStep \/ DeleteAllRecords
           \/ CreateStep \/ MoveStep \/ DropStep)
    BY DEF WalletStep, BookStep, EditStep, DeleteStep, DeleteAllRecords, CreateStep, MoveStep,
           DropStep, UpdateRecordInline, DeletePlainRecord, CreateTransfer, UpdateTransfer,
           DeleteTransfer
  <2> QED
    BY <1>1, <2>2, <2>3, <2>4, StepKinds
<1>2. IInv /\ [Next]_vars => [Normal]_vars
  BY <1>1
<1> QED
  BY <1>2, InvariantHolds, PTL DEF Spec, StartNormalizes

(***************************************************************************)
(* Part 5: the rows of a wallet through a rewrite.                         *)
(***************************************************************************)
Owned(recs, w) == {i \in DOMAIN recs : recs[i].wallet = w}

\* Two rows tell the same, the reference to the transfer apart.
SameBooking(r, s) ==
    /\ r.kind = s.kind /\ r.wallet = s.wallet /\ r.amount = s.amount /\ r.mark = s.mark

\* The rank of every row of a table, as a function: the renaming a rewrite makes.
Ranks(recs) == [i \in DOMAIN recs |-> Rank(DOMAIN recs, i)]

\* A rewrite keeps every row under its rank, and its reference becomes the rank of the transfer.
LEMMA RewrittenRows ==
    ASSUME NEW recs, NEW trs, Books(recs, trs), Rewrite(recs, trs)
    PROVE  /\ \A i \in DOMAIN recs :
                 /\ Ranks(recs)[i] \in DOMAIN records'
                 /\ SameBooking(records'[Ranks(recs)[i]], recs[i])
                 /\ records'[Ranks(recs)[i]].transfer = Rank(DOMAIN trs, recs[i].transfer)
           /\ \A k \in DOMAIN records' : \E i \in DOMAIN recs : k = Ranks(recs)[i]
           /\ \A i, j \in DOMAIN recs : Ranks(recs)[i] = Ranks(recs)[j] => i = j
           /\ Cardinality(DOMAIN records') = Cardinality(DOMAIN recs)
<1> DEFINE L == RelinkedRecords(recs, trs)
<1>1. DOMAIN L = DOMAIN recs /\ Ids(DOMAIN recs)
  BY DEF RelinkedRecords, Books
<1>2. ASSUME NEW i \in DOMAIN recs
      PROVE  SameBooking(L[i], recs[i]) /\ L[i].transfer = Rank(DOMAIN trs, recs[i].transfer)
  <2>1. recs[i] \in Record
    BY DEF Books
  <2> QED
    BY <2>1 DEF RelinkedRecords, Record, SameBooking
<1>3. records' = Reinserted(L)
  BY DEF Rewrite
<1> HIDE DEF L
<1>4. /\ \A i \in DOMAIN recs : /\ Rank(DOMAIN recs, i) \in DOMAIN records'
                                /\ records'[Rank(DOMAIN recs, i)] = L[i]
      /\ \A k \in DOMAIN records' : \E i \in DOMAIN recs : Rank(DOMAIN recs, i) = k
      /\ Cardinality(DOMAIN records') = Cardinality(DOMAIN recs)
  BY <1>1, <1>3, ReinsertedRows
<1>5. \A i, j \in DOMAIN recs : Rank(DOMAIN recs, i) = Rank(DOMAIN recs, j) => i = j
  BY <1>1, RankInjective
<1> QED
  BY <1>2, <1>4, <1>5 DEF Ranks

\* The rows of a wallet are renamed, and no two become one.
LEMMA OwnedRewritten ==
    ASSUME NEW recs, NEW trs, Books(recs, trs), Rewrite(recs, trs), NEW w
    PROVE  /\ Owned(records', w) = {Ranks(recs)[i] : i \in Owned(recs, w)}
           /\ IsFiniteSet(Owned(recs, w))
           /\ Cardinality(Owned(records', w)) = Cardinality(Owned(recs, w))
<1> DEFINE b == [i \in Owned(recs, w) |-> Ranks(recs)[i]]
<1>1. Owned(records', w) = {Ranks(recs)[i] : i \in Owned(recs, w)}
  BY RewrittenRows DEF Owned, SameBooking
<1>2. IsFiniteSet(Owned(recs, w))
  BY FS_Subset DEF Owned, Books, Ids
<1>3. b \in Bijection(Owned(recs, w), Owned(records', w))
  <2>1. \A i, j \in Owned(recs, w) : b[i] = b[j] => i = j
    BY RewrittenRows DEF Owned
  <2>2. b \in [Owned(recs, w) -> Owned(records', w)]
    BY <1>1
  <2>3. \A k \in Owned(records', w) : \E i \in Owned(recs, w) : b[i] = k
    BY <1>1
  <2> QED
    BY <2>1, <2>2, <2>3 DEF Bijection, Injection, Surjection, IsInjective
<1>4. Cardinality(Owned(records', w)) = Cardinality(Owned(recs, w))
  <2> HIDE DEF b
  <2> QED
    BY <1>2, <1>3, FS_Bijection DEF ExistsBijection
<1> QED
  BY <1>1, <1>2, <1>4

\* What is handed to a rewrite with no new row for the wallet leaves it no more rows.
LEMMA NothingNewByRewrite ==
    ASSUME NEW recs, NEW trs, Books(recs, trs), Rewrite(recs, trs), NEW w,
           TypeOK, Owned(recs, w) \subseteq Owned(records, w)
    PROVE  Cardinality(Owned(records', w)) <= Cardinality(Owned(records, w))
<1>1. IsFiniteSet(Owned(records, w))
  <2>1. IsFiniteSet(DOMAIN records)
    BY IdsOfInterval DEF TypeOK, Ids
  <2> QED
    BY <2>1, FS_Subset DEF Owned
<1> QED
  BY <1>1, OwnedRewritten, FS_Subset

\* And so does a commit that adds no row to those of the wallet.
LEMMA NothingNewInPlace ==
    ASSUME NEW w, TypeOK, Owned(records', w) \subseteq Owned(records, w)
    PROVE  Cardinality(Owned(records', w)) <= Cardinality(Owned(records, w))
<1>1. IsFiniteSet(Owned(records, w))
  <2>1. IsFiniteSet(DOMAIN records)
    BY IdsOfInterval DEF TypeOK, Ids
  <2> QED
    BY <2>1, FS_Subset DEF Owned
<1> QED
  BY <1>1, FS_Subset

\* No step gives an inactive wallet another row: every operation that books or moves a row checks
\* that the wallet it names is active, and a rewrite renames rows one to one.
LEMMA NothingNewStep ==
    ASSUME IInv, [Next]_vars, NEW w \in DOMAIN wallets, ~ wallets[w].active
    PROVE  Cardinality(Owned(records', w)) <= Cardinality(Owned(records, w))
<1>0. TypeOK /\ Books(records, transfers) /\ DOMAIN wallets \subseteq Nat \ {0}
  BY InvariantGivesBooks DEF IInv
<1>1. CASE WalletStep \/ IdleStep \/ DeleteStep \/ DeleteAllRecords
  <2>1. Owned(records', w) \subseteq Owned(records, w)
    BY <1>1 DEF WalletStep, IdleStep, DeleteStep, DeletePlainRecord, DeleteAllRecords, Owned,
                Without
  <2> QED
    BY <1>0, <2>1, NothingNewInPlace
<1>2. CASE BookStep
  <2>1. PICK kind \in {"income", "expense"}, v \in DOMAIN wallets, amount \in Amounts :
           wallets[v].active /\ SaveRecord(Plain(kind, v, amount))
    BY <1>2 DEF BookStep
  <2>2. v # w
    BY <2>1
  <2>3. /\ DOMAIN records' = DOMAIN records \cup {recSeq + 1}
        /\ records'[recSeq + 1].wallet = v
        /\ \A i \in DOMAIN records : i # recSeq + 1 => records'[i] = records[i]
    BY <2>1 DEF SaveRecord, With, Plain
  <2>4. Owned(records', w) \subseteq Owned(records, w)
    BY <2>2, <2>3 DEF Owned
  <2> QED
    BY <1>0, <2>4, NothingNewInPlace
<1>3. CASE EditStep
  <2>1. PICK i \in DOMAIN records, amount \in Amounts, v \in DOMAIN wallets, keep \in BOOLEAN :
           UpdateRecordInline(i, amount, v, keep)
    BY <1>3 DEF EditStep
  <2>2. records[i] \in Record
    BY <1>0 DEF TypeOK
  <2>3. /\ DOMAIN records' = DOMAIN records
        /\ \A j \in DOMAIN records : j # i => records'[j] = records[j]
        /\ records'[i].wallet = v
        /\ v # records[i].wallet => wallets[v].active
    BY <2>1, <2>2 DEF UpdateRecordInline, Record
  <2>4. Owned(records', w) \subseteq Owned(records, w)
    BY <2>3 DEF Owned
  <2> QED
    BY <1>0, <2>4, NothingNewInPlace
<1>4. CASE CreateStep
  <2>1. PICK from \in DOMAIN wallets, to \in DOMAIN wallets, amount \in Amounts,
             commission \in Amounts \cup {0} : CreateTransfer(from, to, amount, commission)
    BY <1>4 DEF CreateStep
  <2> DEFINE t    == MaxId(DOMAIN transfers) + 1
             recs == WithTransferRows(records, t, from, to, amount, commission)
             trs  == With(transfers, t, [from |-> from, to |-> to, amount |-> amount])
  <2>2. Books(recs, trs)
    <3>1. amount \in Nat /\ commission \in Nat
      BY LedgerAssumption
    <3> QED
      BY <1>0, <3>1, CreatedTransferAgrees
  <2>3. Rewrite(recs, trs) /\ from # w /\ to # w
    BY <2>1 DEF CreateTransfer
  <2>4. Owned(recs, w) \subseteq Owned(records, w)
    BY <2>3 DEF Owned, WithTransferRows, With, Leg, CommissionRow
  <2> HIDE DEF recs, trs
  <2> QED
    BY <1>0, <2>2, <2>3, <2>4, NothingNewByRewrite
<1>5. CASE MoveStep
  <2>1. PICK t \in DOMAIN transfers, from \in DOMAIN wallets, to \in DOMAIN wallets,
             amount \in Amounts : UpdateTransfer(t, from, to, amount)
    BY <1>5 DEF MoveStep
  <2> DEFINE recs == WithMovedTransfer(records, t, from, to, amount)
             trs  == [transfers EXCEPT ![t] = [from |-> from, to |-> to, amount |-> amount]]
  <2>2. Books(recs, trs)
    BY <1>0, <2>1, LedgerAssumption, MovedTransferAgrees DEF UpdateTransfer
  <2>3. Rewrite(recs, trs) /\ from # w /\ to # w
    BY <2>1 DEF UpdateTransfer
  <2>4. Owned(recs, w) \subseteq Owned(records, w)
    <3>1. \A i \in DOMAIN records : records[i] \in Record
      BY <1>0 DEF Books
    <3> QED
      BY <2>3, <3>1 DEF Owned, WithMovedTransfer, Record
  <2> HIDE DEF recs, trs
  <2> QED
    BY <1>0, <2>2, <2>3, <2>4, NothingNewByRewrite
<1>6. CASE DropStep
  <2>1. PICK t \in DOMAIN transfers : DeleteTransfer(t)
    BY <1>6 DEF DropStep
  <2> DEFINE recs == Without(records, Legs(records, t) \cup Commissions(records, t))
             trs  == Without(transfers, {t})
  <2>2. Books(recs, trs) /\ Rewrite(recs, trs)
    BY <1>0, <2>1, DeletedTransferAgrees DEF DeleteTransfer
  <2>3. Owned(recs, w) \subseteq Owned(records, w)
    BY DEF Owned, Without
  <2> HIDE DEF recs, trs
  <2> QED
    BY <1>0, <2>2, <2>3, NothingNewByRewrite
<1>7. CASE RenumberStep
  BY <1>0, <1>7, NothingNewByRewrite DEF RenumberStep
<1> QED
  BY <1>1, <1>2, <1>3, <1>4, <1>5, <1>6, <1>7, StepKinds

\* A soft-deleted wallet never gets another record, whatever is booked, edited, moved or
\* renumbered after it was deleted.
THEOREM InactiveStaysSo == Spec => InactiveGetsNothingNew
<1> DEFINE NothingNew ==
             \A w \in DOMAIN wallets :
                ~ wallets[w].active =>
                   Cardinality({i \in DOMAIN records' : records'[i].wallet = w})
                     <= Cardinality({i \in DOMAIN records : records[i].wallet = w})
<1>1. IInv /\ [Next]_vars => NothingNew
  BY NothingNewStep DEF Owned
<1>2. IInv /\ [Next]_vars => [NothingNew]_vars
  BY <1>1
<1> QED
  BY <1>2, InvariantHolds, PTL DEF Spec, InactiveGetsNothingNew

(***************************************************************************)
(* Part 6: balances.  The balance of a wallet is its initial balance and   *)
(* the total of the money of its rows.                                     *)
(***************************************************************************)
Money(recs) == [i \in DOMAIN recs |-> Signed(recs[i])]

Paid(recs, w) == Total(Money(recs), Owned(recs, w))

\* A list of rows: finitely many, of their type.
Rows(recs) == IsFiniteSet(DOMAIN recs) /\ recs \in [DOMAIN recs -> Record]

\* The sum in the definition of a balance.
MoneySum(recs, S) == LET Amount(i) == Signed(recs[i]) IN MapThenSumSet(Amount, S)

\* The sum a balance is defined by is the total of the column.
LEMMA MoneySumIsTotal ==
    ASSUME NEW recs, NEW S, IsFiniteSet(S), S \subseteq DOMAIN recs
    PROVE  MoneySum(recs, S) = Total(Money(recs), S)
<1> DEFINE f == Money(recs)
           Eq(h) == h = [s \in SUBSET S |-> IF s = {} THEN 0
                                            ELSE Signed(recs[Pick(s)]) + h[s \ {Pick(s)}]]
           iter == CHOOSE h : Eq(h)
<1>1. \A s \in SUBSET S : s # {} => f[Pick(s)] = Signed(recs[Pick(s)])
  BY PickLeaves DEF Money
<1>2. ASSUME NEW h
      PROVE  SumsUp(h, f, S) <=> Eq(h)
  <2>1. [s \in SUBSET S |-> IF s = {} THEN 0 ELSE f[Pick(s)] + h[s \ {Pick(s)}]]
          = [s \in SUBSET S |-> IF s = {} THEN 0 ELSE Signed(recs[Pick(s)]) + h[s \ {Pick(s)}]]
    <3> HIDE DEF f
    <3> QED
      BY <1>1
  <2> QED
    BY <2>1 DEF SumsUp
<1>3. MoneySum(recs, S) = iter[S]
  BY Zenon DEF MoneySum, MapThenSumSet, MapThenFoldSet, Pick
<1>4. \E h : Eq(h)
  <2> HIDE DEF Eq, f
  <2> QED
    BY <1>2, SumExists
<1>5. Eq(iter)
  BY <1>4
<1>6. Total(f, S) = iter[S]
  <2>1. S \in SUBSET S
    OBVIOUS
  <2> HIDE DEF Eq, f, iter
  <2> QED
    BY <1>2, <1>5, <2>1, TotalOnSubsets
<1> QED
  BY <1>3, <1>6

\* The balance, given some rows.
LEMMA BalanceIsPaid ==
    ASSUME NEW recs, Rows(recs), NEW w
    PROVE  BalanceIn(recs, w) = wallets[w].initial + Paid(recs, w)
<1>1. IsFiniteSet(Owned(recs, w)) /\ Owned(recs, w) \subseteq DOMAIN recs
  BY FS_Subset DEF Owned, Rows
<1>2. BalanceIn(recs, w) = wallets[w].initial + MoneySum(recs, Owned(recs, w))
  BY SMT DEF BalanceIn, MoneySum, Owned, MapThenSumSet, MapThenFoldSet
<1> QED
  BY <1>1, <1>2, MoneySumIsTotal DEF Paid

\* The balance after a step.
LEMMA BalanceAfter ==
    ASSUME Rows(records'), NEW w, wallets'[w].initial = wallets[w].initial
    PROVE  Balance(w)' = wallets[w].initial + Paid(records', w)
<1>1. IsFiniteSet(Owned(records', w)) /\ Owned(records', w) \subseteq DOMAIN records'
  BY FS_Subset DEF Owned, Rows
<1>2. Balance(w)' = wallets'[w].initial + MoneySum(records', Owned(records', w))
  BY SMT DEF Balance, BalanceIn, MoneySum, Owned, MapThenSumSet, MapThenFoldSet
<1> QED
  BY <1>1, <1>2, MoneySumIsTotal DEF Paid

\* What the rows of a wallet add up to is an integer.
LEMMA PaidType ==
    ASSUME NEW recs, Rows(recs), NEW w
    PROVE  /\ Paid(recs, w) \in Int /\ IsFiniteSet(Owned(recs, w))
           /\ \A i \in DOMAIN recs : Money(recs)[i] \in Int
<1>1. \A i \in DOMAIN recs : recs[i] \in Record
  BY DEF Rows
<1>2. \A i \in DOMAIN recs : Money(recs)[i] \in Int
  BY <1>1 DEF Money, Signed, Record
<1>3. IsFiniteSet(Owned(recs, w))
  BY FS_Subset DEF Owned, Rows
<1> QED
  BY <1>2, <1>3, TotalType DEF Paid, Owned

\* A rewrite keeps what the rows of every wallet add up to.
LEMMA PaidRewritten ==
    ASSUME NEW recs, NEW trs, Books(recs, trs), Rewrite(recs, trs), NEW w
    PROVE  Paid(records', w) = Paid(recs, w)
<1> DEFINE f == Money(recs)
           g == Money(records')
           b == Ranks(recs)
           S == Owned(recs, w)
<1>1. Rows(recs)
  BY DEF Rows, Books, Ids
<1>2. \A i \in S : f[i] \in Int /\ g[b[i]] = f[i]
  <2>1. \A i \in S : f[i] \in Int
    BY <1>1, PaidType DEF Owned
  <2>2. ASSUME NEW i \in S
        PROVE  g[b[i]] = f[i]
    <3>1. i \in DOMAIN recs /\ b[i] \in DOMAIN records' /\ SameBooking(records'[b[i]], recs[i])
      BY RewrittenRows DEF Owned
    <3> HIDE DEF b
    <3> QED
      BY <3>1 DEF Money, Signed, SameBooking
  <2> QED
    BY <2>1, <2>2
<1>3. \A i, j \in S : b[i] = b[j] => i = j
  BY RewrittenRows DEF Owned
<1>4. IsFiniteSet(S) /\ Owned(records', w) = {b[i] : i \in S}
  BY OwnedRewritten
<1> HIDE DEF f, g, b, S
<1>5. Total(g, {b[i] : i \in S}) = Total(f, S)
  BY <1>2, <1>3, <1>4, TotalRenamed
<1> QED
  BY <1>4, <1>5 DEF Paid, f, g, S

\* One row more adds its money to its wallet.
LEMMA PaidAdded ==
    ASSUME NEW recs, Rows(recs), NEW n, n \notin DOMAIN recs, NEW row \in Record,
           NEW new, new = With(recs, n, row)
    PROVE  /\ Rows(new)
           /\ \A w : Paid(new, w) = IF row.wallet = w THEN Paid(recs, w) + Signed(row)
                                    ELSE Paid(recs, w)
<1>1. /\ DOMAIN new = DOMAIN recs \cup {n} /\ new[n] = row
      /\ \A i \in DOMAIN recs : new[i] = recs[i]
      /\ new = [i \in DOMAIN new |-> new[i]]
  BY DEF With
<1>2. Rows(new)
  <2>1. \A i \in DOMAIN new : new[i] \in Record
    BY <1>1 DEF Rows
  <2>2. IsFiniteSet(DOMAIN new)
    BY <1>1, FS_AddElement DEF Rows
  <2> QED
    BY <1>1, <2>1, <2>2 DEF Rows
<1>3. ASSUME NEW w
      PROVE  Paid(new, w) = IF row.wallet = w THEN Paid(recs, w) + Signed(row)
                            ELSE Paid(recs, w)
  <2>1. /\ IsFiniteSet(Owned(recs, w)) /\ Paid(recs, w) \in Int
        /\ \A i \in DOMAIN new : Money(new)[i] \in Int
    BY <1>2, PaidType
  <2>2. \A i \in Owned(recs, w) : Money(new)[i] = Money(recs)[i]
    BY <1>1 DEF Owned, Money
  <2>3. Total(Money(new), Owned(recs, w)) = Paid(recs, w)
    BY <2>1, <2>2, TotalSame DEF Paid
  <2>4. CASE row.wallet = w
    <3>1. Owned(new, w) = Owned(recs, w) \cup {n} /\ n \notin Owned(recs, w)
      BY <1>1, <2>4 DEF Owned
    <3>2. Money(new)[n] = Signed(row) /\ Signed(row) \in Int
      BY <1>1 DEF Money, Signed, Record
    <3>3. \A i \in Owned(recs, w) \cup {n} : Money(new)[i] \in Int
      BY <1>1, <2>1 DEF Owned
    <3>4. Total(Money(new), Owned(recs, w) \cup {n}) = Money(new)[n] + Paid(recs, w)
      BY <2>1, <2>3, <3>1, <3>3, TotalAdd
    <3> QED
      BY <2>1, <2>4, <3>1, <3>2, <3>4 DEF Paid
  <2>5. CASE row.wallet # w
    <3>1. Owned(new, w) = Owned(recs, w)
      BY <1>1, <2>5 DEF Owned
    <3> QED
      BY <2>3, <2>5, <3>1 DEF Paid
  <2> QED
    BY <2>4, <2>5
<1> QED
  BY <1>2, <1>3

\* The same rows add up to the same.
LEMMA PaidSame ==
    ASSUME NEW recs, Rows(recs), NEW new, DOMAIN new = DOMAIN recs,
           \A i \in DOMAIN recs : new[i] = recs[i], NEW w
    PROVE  Paid(new, w) = Paid(recs, w)
<1>1. Owned(new, w) = Owned(recs, w) /\ IsFiniteSet(Owned(recs, w))
  BY PaidType DEF Owned
<1>2. \A i \in Owned(recs, w) : Money(new)[i] = Money(recs)[i]
  BY DEF Owned, Money
<1> QED
  BY <1>1, <1>2, TotalSame DEF Paid

\* The renumbering keeps every row, its contents, its balance and which rows share a transfer.
LEMMA RenumberKeeps ==
    ASSUME IInv, RenumberStep
    PROVE  LET New(i) == records'[Rank(DOMAIN records, i)]
           IN  /\ Cardinality(DOMAIN records') = Cardinality(DOMAIN records)
               /\ \A i \in DOMAIN records :
                     [New(i) EXCEPT !.transfer = 0] = [records[i] EXCEPT !.transfer = 0]
               /\ \A i, j \in DOMAIN records :
                     New(i).transfer = New(j).transfer <=> records[i].transfer = records[j].transfer
               /\ \A w \in DOMAIN wallets : Balance(w)' = Balance(w)
<1> DEFINE New(i) == records'[Rank(DOMAIN records, i)]
<1>1. /\ Books(records, transfers) /\ Rewrite(records, transfers) /\ UNCHANGED wallets
      /\ NoTransfer \notin DOMAIN transfers
  BY InvariantGivesBooks DEF IInv, RenumberStep
<1>2. Books(records', transfers')
  BY <1>1, BooksReinserted DEF Rewrite
<1>3. Cardinality(DOMAIN records') = Cardinality(DOMAIN records)
  BY <1>1, RewrittenRows
<1>4. ASSUME NEW i \in DOMAIN records
      PROVE  /\ New(i) \in Record /\ records[i] \in Record /\ SameBooking(New(i), records[i])
             /\ New(i).transfer = Rank(DOMAIN transfers, records[i].transfer)
  <2>1. Ranks(records)[i] = Rank(DOMAIN records, i)
    BY DEF Ranks
  <2>2. /\ Rank(DOMAIN records, i) \in DOMAIN records' /\ SameBooking(New(i), records[i])
        /\ New(i).transfer = Rank(DOMAIN transfers, records[i].transfer)
    BY <1>1, <2>1, RewrittenRows
  <2> QED
    BY <1>1, <1>2, <2>2 DEF Books
<1>5. ASSUME NEW i \in DOMAIN records
      PROVE  [New(i) EXCEPT !.transfer = 0] = [records[i] EXCEPT !.transfer = 0]
  <2> DEFINE r == New(i)
             s == records[i]
  <2>1. r \in Record /\ s \in Record /\ SameBooking(r, s)
    BY <1>4
  <2> HIDE DEF r, s
  <2>2. [r EXCEPT !.transfer = 0] = [s EXCEPT !.transfer = 0]
    BY <2>1 DEF Record, SameBooking
  <2> QED
    BY <2>2 DEF r, s
<1>6. ASSUME NEW i \in DOMAIN records, NEW j \in DOMAIN records
      PROVE  New(i).transfer = New(j).transfer <=> records[i].transfer = records[j].transfer
  <2> DEFINE D == DOMAIN transfers
             p == records[i].transfer
             q == records[j].transfer
  <2>1. Ids(D) /\ 0 \notin D /\ p \in D \cup {0} /\ q \in D \cup {0}
    BY <1>1 DEF Books, LegsMatch, NoTransfer
  <2>2. New(i).transfer = Rank(D, p) /\ New(j).transfer = Rank(D, q)
    BY <1>4
  <2> HIDE DEF D, p, q, New
  <2>3. Rank(D, 0) = 0 /\ \A t \in D : Rank(D, t) \in 1 .. Cardinality(D)
    BY <2>1, RankOfNone, RankType
  <2>4. Cardinality(D) \in Nat
    BY <2>1, FS_CardinalityType DEF Ids
  <2>5. \A t \in D : Rank(D, t) # 0
    BY <2>3, <2>4
  <2>6. Rank(D, p) = Rank(D, q) <=> p = q
    <3>1. CASE p \in D /\ q \in D
      BY <2>1, <3>1, RankInjective
    <3>2. CASE p = 0 \/ q = 0
      BY <2>1, <2>3, <2>5, <3>2
    <3> QED
      BY <2>1, <3>1, <3>2
  <2> QED
    BY <2>2, <2>6 DEF p, q
<1>7. ASSUME NEW w \in DOMAIN wallets
      PROVE  Balance(w)' = Balance(w)
  <2>1. Rows(records) /\ Rows(records')
    BY <1>1, <1>2 DEF Rows, Books, Ids
  <2>2. Paid(records', w) = Paid(records, w)
    BY <1>1, PaidRewritten
  <2>3. Balance(w)' = wallets[w].initial + Paid(records', w)
    BY <1>1, <2>1, BalanceAfter
  <2> QED
    BY <2>1, <2>2, <2>3, BalanceIsPaid DEF Balance
<1> HIDE DEF New
<1>8. /\ \A i \in DOMAIN records :
           [New(i) EXCEPT !.transfer = 0] = [records[i] EXCEPT !.transfer = 0]
      /\ \A i, j \in DOMAIN records :
           New(i).transfer = New(j).transfer <=> records[i].transfer = records[j].transfer
  BY <1>5, <1>6
<1> QED
  BY <1>3, <1>7, <1>8 DEF New

\* What happens without the user changes ids only: the rows keep their order and contents, rows of
\* one transfer stay rows of one transfer, and every balance stays.
THEOREM RenumberingChangesIdsOnly == Spec => RenumberingKeepsBooks
<1> DEFINE Keeps ==
             phase # "idle" /\ records' # records =>
               LET New(i) == records'[Rank(DOMAIN records, i)]
               IN  /\ Cardinality(DOMAIN records') = Cardinality(DOMAIN records)
                   /\ \A i \in DOMAIN records :
                         [New(i) EXCEPT !.transfer = 0] = [records[i] EXCEPT !.transfer = 0]
                   /\ \A i, j \in DOMAIN records :
                         New(i).transfer = New(j).transfer
                           <=> records[i].transfer = records[j].transfer
                   /\ \A w \in DOMAIN wallets : Balance(w)' = Balance(w)
<1>1. ASSUME IInv, [Next]_vars, phase # "idle", records' # records
      PROVE  RenumberStep
  <2>1. ~ (\/ WalletStep \/ BookStep \/ EditStep \/ DeleteStep \/ DeleteAllRecords
           \/ CreateStep \/ MoveStep \/ DropStep \/ IdleStep)
    BY <1>1 DEF WalletStep, BookStep, EditStep, DeleteStep, DeleteAllRecords, CreateStep, MoveStep,
           DropStep, IdleStep, UpdateRecordInline, DeletePlainRecord, CreateTransfer,
           UpdateTransfer, DeleteTransfer
  <2> QED
    BY <1>1, <2>1, StepKinds
<1>2. IInv /\ [Next]_vars => Keeps
  BY <1>1, RenumberKeeps
<1>3. IInv /\ [Next]_vars => [Keeps]_vars
  BY <1>2
<1> QED
  BY <1>3, InvariantHolds, PTL DEF Spec, RenumberingKeepsBooks

(***************************************************************************)
(* Part 7: no wallet that must stay covered is overdrawn.                  *)
(***************************************************************************)
\* Covered, given what its rows add up to.
Covered(recs, w) == wallets[w].initial + Paid(recs, w) >= 0

\* Booking a transfer takes its amount and its commission from the source, and nothing from others.
LEMMA PaidOfTransfer ==
    ASSUME NEW recs, Rows(recs), Ids(DOMAIN recs), NEW t \in Nat,
           NEW from \in Nat \ {0}, NEW to \in Nat \ {0}, from # to,
           NEW amount \in Nat, NEW commission \in Nat
    PROVE  LET new == WithTransferRows(recs, t, from, to, amount, commission)
           IN  /\ Paid(new, from) = Paid(recs, from) - amount - commission
               /\ \A w : w # from => Paid(new, w) >= Paid(recs, w)
<1> DEFINE n   == MaxId(DOMAIN recs) + 1
           e   == Leg("expense", from, amount, t)
           c   == Leg("income", to, amount, t)
           fee == CommissionRow(from, commission, t)
           r1  == With(recs, n, e)
           r2  == With(r1, n + 1, c)
           r3  == With(r2, n + 2, fee)
           new == WithTransferRows(recs, t, from, to, amount, commission)
<1>1. n \notin DOMAIN recs /\ n + 1 \notin DOMAIN r1 /\ n + 2 \notin DOMAIN r2
  <2>1. /\ MaxId(DOMAIN recs) \in Nat
        /\ \A i \in DOMAIN recs : i \in Nat /\ i <= MaxId(DOMAIN recs)
    BY MaxIdBounds DEF Ids
  <2> QED
    BY <2>1 DEF With
<1>2. /\ e \in Record /\ e.wallet = from /\ Signed(e) = -amount
      /\ c \in Record /\ c.wallet = to /\ Signed(c) = amount
      /\ fee \in Record /\ fee.wallet = from /\ Signed(fee) = -commission
  BY DEF Leg, CommissionRow, Record, Signed, NoTransfer, NoMark
<1>3. new = IF commission = 0 THEN r2 ELSE r3
  BY DEF WithTransferRows
<1> HIDE DEF n, e, c, fee, r1, r2, r3, new
<1>4. /\ Rows(r1)
      /\ \A w : Paid(r1, w) = IF from = w THEN Paid(recs, w) + (-amount) ELSE Paid(recs, w)
  <2>1. r1 = With(recs, n, e)
    BY DEF r1
  <2> QED
    BY <1>1, <1>2, <2>1, PaidAdded
<1>5. /\ Rows(r2)
      /\ \A w : Paid(r2, w) = IF to = w THEN Paid(r1, w) + amount ELSE Paid(r1, w)
  <2>1. r2 = With(r1, n + 1, c)
    BY DEF r2
  <2> QED
    BY <1>1, <1>2, <1>4, <2>1, PaidAdded
<1>6. /\ Rows(r3)
      /\ \A w : Paid(r3, w) = IF from = w THEN Paid(r2, w) + (-commission) ELSE Paid(r2, w)
  <2>1. r3 = With(r2, n + 2, fee)
    BY DEF r3
  <2> QED
    BY <1>1, <1>2, <1>5, <2>1, PaidAdded
<1>7. Paid(new, from) = Paid(recs, from) - amount - commission
  <2>1. Paid(recs, from) \in Int
    BY PaidType
  <2> QED
    BY <1>3, <1>4, <1>5, <1>6, <2>1
<1>8. ASSUME NEW w, w # from
      PROVE  Paid(new, w) >= Paid(recs, w)
  <2>1. Paid(recs, w) \in Int
    BY PaidType
  <2> QED
    BY <1>3, <1>4, <1>5, <1>6, <1>8, <2>1
<1> QED
  BY <1>7, <1>8 DEF new

\* What the check of the funds says of the rows.
LEMMA CanSpendIsCovered ==
    ASSUME NEW recs, Rows(recs), NEW w, ~ wallets[w].neg, NEW amount, CanSpend(recs, w, amount)
    PROVE  (wallets[w].initial + Paid(recs, w)) - amount >= 0
<1>1. BalanceIn(recs, w) - amount >= 0
  BY DEF CanSpend
<1>2. BalanceIn(recs, w) = wallets[w].initial + Paid(recs, w)
  BY BalanceIsPaid
<1> QED
  BY <1>1, <1>2

\* An operation that adds no row and keeps every row changes no sum.
LEMMA NothingBooked ==
    ASSUME Rows(records), Rows(records'), OnlyBooks, NEW w,
           Cardinality(DOMAIN records') <= Cardinality(DOMAIN records)
    PROVE  Paid(records', w) = Paid(records, w)
<1>1. DOMAIN records \subseteq DOMAIN records'
  BY DEF OnlyBooks
<1>2. /\ Cardinality(DOMAIN records) <= Cardinality(DOMAIN records')
      /\ Cardinality(DOMAIN records) \in Nat /\ Cardinality(DOMAIN records') \in Nat
      /\ Cardinality(DOMAIN records) = Cardinality(DOMAIN records')
           => DOMAIN records = DOMAIN records'
  BY <1>1, FS_Subset, FS_CardinalityType DEF Rows
<1>3. DOMAIN records' = DOMAIN records
  BY <1>2
<1> QED
  BY <1>3, PaidSame DEF OnlyBooks

\* A transfer that is created leaves every wallet covered that was, its source covered for sure.
LEMMA CreatedIsCovered ==
    ASSUME IInv, CreateStep
    PROVE  /\ \A w \in DOMAIN wallets : ~ wallets[w].neg /\ Covered(records, w)
                                           => Covered(records', w)
           /\ \E from \in DOMAIN wallets :
                 /\ wallets[from].neg \/ Covered(records', from)
                 /\ \E to, amount : transfers' = Reinserted(
                       With(transfers, MaxId(DOMAIN transfers) + 1,
                            [from |-> from, to |-> to, amount |-> amount]))
<1>1. PICK from \in DOMAIN wallets, to \in DOMAIN wallets, amount \in Amounts,
           commission \in Amounts \cup {0} : CreateTransfer(from, to, amount, commission)
  BY DEF CreateStep
<1> DEFINE t    == MaxId(DOMAIN transfers) + 1
           recs == WithTransferRows(records, t, from, to, amount, commission)
           trs  == With(transfers, t, [from |-> from, to |-> to, amount |-> amount])
<1>2. /\ Books(records, transfers) /\ DOMAIN wallets \subseteq Nat \ {0}
      /\ \A w \in DOMAIN wallets : wallets[w].initial \in Nat
  BY InvariantGivesBooks DEF IInv, TypeOK, Wallet
<1>3. amount \in Nat /\ commission \in Nat
  BY LedgerAssumption
<1>4. Rows(records) /\ Ids(DOMAIN records)
  BY <1>2 DEF Rows, Books, Ids
<1>5. t \in Nat
  BY <1>2, MaxIdBounds DEF Books
<1>6. /\ from # to /\ CanSpend(records, from, amount + commission)
      /\ Rewrite(recs, trs) /\ transfers' = Reinserted(trs)
  BY <1>1 DEF CreateTransfer, Rewrite
<1>7. Books(recs, trs)
  BY <1>2, <1>3, CreatedTransferAgrees
<1>8. /\ Paid(recs, from) = Paid(records, from) - amount - commission
      /\ \A w : w # from => Paid(recs, w) >= Paid(records, w)
  BY <1>2, <1>3, <1>4, <1>5, <1>6, PaidOfTransfer
<1> HIDE DEF recs, trs
<1>9. Rows(recs) /\ \A w : Paid(records', w) = Paid(recs, w)
  BY <1>6, <1>7, PaidRewritten DEF Rows, Books, Ids
<1>10. \A w : Paid(records, w) \in Int /\ Paid(recs, w) \in Int
  BY <1>4, <1>9, PaidType
<1>11. ~ wallets[from].neg => Covered(records', from)
  <2> SUFFICES ASSUME ~ wallets[from].neg
               PROVE  Covered(records', from)
    OBVIOUS
  <2>1. (wallets[from].initial + Paid(records, from)) - (amount + commission) >= 0
    BY <1>4, <1>6, CanSpendIsCovered
  <2>2. wallets[from].initial + (Paid(records, from) - amount - commission) >= 0
    BY <1>2, <1>3, <1>10, <2>1
  <2>3. Paid(records', from) = Paid(records, from) - amount - commission
    BY <1>8, <1>9
  <2> QED
    BY <2>2, <2>3 DEF Covered
<1>12. ASSUME NEW w \in DOMAIN wallets, ~ wallets[w].neg, Covered(records, w)
       PROVE  Covered(records', w)
  <2>1. CASE w = from
    BY <1>11, <1>12, <2>1
  <2>2. CASE w # from
    <3>1. Paid(records', w) >= Paid(records, w) /\ Paid(records', w) \in Int
      BY <1>8, <1>9, <1>10, <2>2
    <3>2. wallets[w].initial + Paid(records, w) >= 0 /\ wallets[w].initial \in Nat
      BY <1>2, <1>12 DEF Covered
    <3> QED
      BY <1>10, <3>1, <3>2 DEF Covered
  <2> QED
    BY <2>1, <2>2
<1> QED
  BY <1>6, <1>11, <1>12 DEF trs

\* The operations that book nothing hand a part of the rows to the rewrite.
LEMMA RewritesOfOldRows ==
    ASSUME IInv, MoveStep \/ DropStep \/ RenumberStep
    PROVE  \E recs, trs : /\ Books(recs, trs) /\ Rewrite(recs, trs)
                         /\ DOMAIN recs \subseteq DOMAIN records
<1>1. Books(records, transfers) /\ DOMAIN wallets \subseteq Nat \ {0}
  BY InvariantGivesBooks DEF IInv
<1>2. ASSUME NEW t \in DOMAIN transfers, NEW from \in DOMAIN wallets, NEW to \in DOMAIN wallets,
             NEW amount \in Amounts, UpdateTransfer(t, from, to, amount)
      PROVE  \E recs, trs : /\ Books(recs, trs) /\ Rewrite(recs, trs)
                           /\ DOMAIN recs \subseteq DOMAIN records
  <2> DEFINE recs == WithMovedTransfer(records, t, from, to, amount)
             trs  == [transfers EXCEPT ![t] = [from |-> from, to |-> to, amount |-> amount]]
  <2>1. Books(recs, trs)
    BY <1>1, <1>2, LedgerAssumption, MovedTransferAgrees DEF UpdateTransfer
  <2>2. Rewrite(recs, trs)
    BY <1>2 DEF UpdateTransfer
  <2>3. DOMAIN recs \subseteq DOMAIN records
    BY DEF WithMovedTransfer
  <2> HIDE DEF recs, trs
  <2> QED
    BY <2>1, <2>2, <2>3
<1>3. ASSUME NEW t \in DOMAIN transfers, DeleteTransfer(t)
      PROVE  \E recs, trs : /\ Books(recs, trs) /\ Rewrite(recs, trs)
                           /\ DOMAIN recs \subseteq DOMAIN records
  <2> DEFINE recs == Without(records, Legs(records, t) \cup Commissions(records, t))
             trs  == Without(transfers, {t})
  <2>1. Books(recs, trs) /\ Rewrite(recs, trs)
    BY <1>1, <1>3, DeletedTransferAgrees DEF DeleteTransfer
  <2>2. DOMAIN recs \subseteq DOMAIN records
    BY DEF Without
  <2> HIDE DEF recs, trs
  <2> QED
    BY <2>1, <2>2
<1>4. RenumberStep => \E recs, trs : /\ Books(recs, trs) /\ Rewrite(recs, trs)
                                     /\ DOMAIN recs \subseteq DOMAIN records
  BY <1>1 DEF RenumberStep
<1> QED
  BY <1>2, <1>3, <1>4 DEF MoveStep, DropStep

\* A step that only books leaves a wallet covered that was and must stay so.
LEMMA BookingIsCovered ==
    ASSUME IInv, [Next]_vars, OnlyBooks, NEW w \in DOMAIN wallets, ~ wallets[w].neg,
           Covered(records, w)
    PROVE  Covered(records', w)
<1>1. /\ Books(records, transfers) /\ DOMAIN wallets \subseteq Nat \ {0} /\ Rows(records)
      /\ wallets[w].initial \in Nat /\ Paid(records, w) \in Int
  <2>1. /\ Books(records, transfers) /\ DOMAIN wallets \subseteq Nat \ {0}
        /\ wallets[w].initial \in Nat
    BY InvariantGivesBooks DEF IInv, TypeOK, Wallet
  <2>2. Rows(records)
    BY <2>1 DEF Rows, Books, Ids
  <2> QED
    BY <2>1, <2>2, PaidType
<1>2. IInv'
  BY NextInvariant
<1>3. Rows(records')
  <2>1. Books(records, transfers)'
    BY <1>2, InvariantGivesBooks, PTL DEF IInv
  <2> QED
    BY <2>1 DEF Books, Rows, Ids
<1>4. CASE Cardinality(DOMAIN records') <= Cardinality(DOMAIN records)
  BY <1>1, <1>3, <1>4, NothingBooked DEF Covered
<1>5. CASE WalletStep \/ IdleStep
  <2>1. records' = records
    BY <1>5 DEF WalletStep, IdleStep
  <2> QED
    BY <2>1
<1>6. CASE BookStep
  <2>1. PICK kind \in {"income", "expense"}, v \in DOMAIN wallets, amount \in Amounts :
           /\ kind = "expense" => CanSpend(records, v, amount)
           /\ SaveRecord(Plain(kind, v, amount))
    BY <1>6 DEF BookStep
  <2> DEFINE row == Plain(kind, v, amount)
  <2>2. /\ row \in Record /\ row.wallet = v /\ amount \in Nat
        /\ kind = "income" => Signed(row) = amount
        /\ kind = "expense" => Signed(row) = -amount
    <3>1. v \in Nat \ {0} /\ amount \in Nat
      BY <1>1, LedgerAssumption
    <3> QED
      BY <3>1 DEF Plain, Record, Signed, NoTransfer, NoMark
  <2>3. records' = With(records, recSeq + 1, row) /\ recSeq + 1 \notin DOMAIN records
    BY <2>1 DEF SaveRecord, IInv, TypeOK
  <2> HIDE DEF row
  <2>4. Paid(records', w) = IF v = w THEN Paid(records, w) + Signed(row) ELSE Paid(records, w)
    BY <1>1, <2>2, <2>3, PaidAdded
  <2>5. CASE v # w
    BY <2>4, <2>5 DEF Covered
  <2>6. CASE v = w /\ kind = "income"
    BY <1>1, <2>2, <2>4, <2>6 DEF Covered
  <2>7. CASE v = w /\ kind = "expense"
    <3>1. (wallets[w].initial + Paid(records, w)) - amount >= 0
      BY <1>1, <2>1, <2>7, CanSpendIsCovered
    <3>2. Paid(records', w) = Paid(records, w) - amount
      BY <1>1, <2>2, <2>4, <2>7
    <3>3. wallets[w].initial + (Paid(records, w) - amount) >= 0
      BY <1>1, <2>2, <3>1
    <3> QED
      BY <3>2, <3>3 DEF Covered
  <2> QED
    BY <2>5, <2>6, <2>7
<1>7. CASE CreateStep
  BY <1>7, CreatedIsCovered
<1>8. CASE EditStep \/ DeleteStep \/ DeleteAllRecords
  <2>1. DOMAIN records' \subseteq DOMAIN records
    BY <1>8 DEF EditStep, UpdateRecordInline, DeleteStep, DeletePlainRecord, DeleteAllRecords,
                Without
  <2>2. Cardinality(DOMAIN records') <= Cardinality(DOMAIN records)
    BY <1>1, <2>1, FS_Subset DEF Rows
  <2> QED
    BY <1>4, <2>2
<1>9. CASE MoveStep \/ DropStep \/ RenumberStep
  <2>1. \E recs, trs : /\ Books(recs, trs) /\ Rewrite(recs, trs)
                       /\ DOMAIN recs \subseteq DOMAIN records
    BY <1>9, RewritesOfOldRows
  <2>2. PICK recs, trs : /\ Books(recs, trs) /\ Rewrite(recs, trs)
                         /\ DOMAIN recs \subseteq DOMAIN records
    BY <2>1
  <2>3. Cardinality(DOMAIN records') = Cardinality(DOMAIN recs)
    BY <2>2, RewrittenRows
  <2>4. Cardinality(DOMAIN recs) <= Cardinality(DOMAIN records)
    BY <1>1, <2>2, FS_Subset DEF Rows
  <2> QED
    BY <1>4, <2>3, <2>4
<1> QED
  BY <1>5, <1>6, <1>7, <1>8, <1>9, StepKinds

\* What a transfer and its commissions leave of the other rows when they are moved: at least as
\* much as the check of the funds has counted.
LEMMA MovedIsCovered ==
    ASSUME IInv, NEW t \in DOMAIN transfers, NEW from \in DOMAIN wallets, NEW to \in DOMAIN wallets,
           NEW amount \in Amounts, UpdateTransfer(t, from, to, amount), ~ wallets[from].neg
    PROVE  Covered(records', from)
<1> DEFINE recs == WithMovedTransfer(records, t, from, to, amount)
           trs  == [transfers EXCEPT ![t] = [from |-> from, to |-> to, amount |-> amount]]
           fees == Commissions(records, t)
           kept == Without(records, Legs(records, t) \cup fees)
           f    == Money(recs)
           g    == AmountColumn(records)
           R    == Owned(kept, from)
<1>1. /\ Books(records, transfers) /\ DOMAIN wallets \subseteq Nat \ {0} /\ amount \in Nat
      /\ wallets[from].initial \in Nat /\ t # NoTransfer
  BY InvariantGivesBooks, LedgerAssumption DEF IInv, TypeOK, Wallet
<1>2. /\ from # to /\ HasTwoLegs(records, t) /\ Rewrite(recs, trs)
      /\ CanAffordUpdate(t, from, amount)
  BY DEF UpdateTransfer
<1>3. Books(recs, trs)
  BY <1>1, <1>2, MovedTransferAgrees
<1>4. PICK e \in DOMAIN records, c \in DOMAIN records :
         Legs(records, t) = {e, c} /\ LegPair(records, transfers[t], e, c)
  BY <1>1, <1>2, TwoLegsArePaired DEF Books
<1>5. /\ \A i \in DOMAIN records : records[i] \in Record
      /\ IsFiniteSet(DOMAIN records) /\ fees \subseteq DOMAIN records
      /\ e \notin fees /\ c \notin fees /\ e # c
  BY <1>1, <1>4 DEF Books, Ids, Commissions, IsCommissionFor, Legs, LegPair
<1>6. /\ DOMAIN recs = DOMAIN records
      /\ recs[e].wallet = from /\ Signed(recs[e]) = -amount /\ recs[c].wallet = to
      /\ \A i \in fees : recs[i].wallet = from /\ Signed(recs[i]) = Signed(records[i])
      /\ \A i \in DOMAIN records : i # e /\ i # c /\ i \notin fees => recs[i] = records[i]
  <2>1. records[e] \in Record /\ records[c] \in Record
    BY <1>5
  <2> QED
    BY <1>4, <1>5, <2>1 DEF WithMovedTransfer, LegPair, Signed, Record
<1>7. /\ DOMAIN kept = DOMAIN records \ ({e, c} \cup fees)
      /\ \A i \in DOMAIN kept : kept[i] = records[i]
      /\ kept = [i \in DOMAIN kept |-> kept[i]]
  BY <1>4 DEF Without
<1>8. Rows(kept) /\ Rows(recs) /\ IsFiniteSet(fees)
  <2>1. \A i \in DOMAIN kept : kept[i] \in Record
    BY <1>5, <1>7
  <2>2. IsFiniteSet(DOMAIN kept) /\ IsFiniteSet(fees)
    BY <1>5, <1>7, FS_Subset
  <2> QED
    BY <1>3, <1>7, <2>1, <2>2 DEF Rows, Books, Ids
<1>9. (wallets[from].initial + Paid(kept, from)) - (amount + Total(g, fees)) >= 0
  <2>1. AmountSum(records, fees) = Total(g, fees)
    BY <1>5, <1>8, AmountSumIsTotal
  <2>2. CanSpend(kept, from, amount + AmountSum(records, fees))
    BY <1>2, Zenon DEF CanAffordUpdate, AmountSum
  <2> QED
    BY <1>8, <2>1, <2>2, CanSpendIsCovered
<1> HIDE DEF recs, trs, fees, kept, f, g, R
<1>10. Owned(recs, from) = (R \cup fees) \cup {e}
  <2>1. R = {i \in DOMAIN kept : records[i].wallet = from}
    BY <1>7 DEF R, Owned
  <2> QED
    BY <1>2, <1>4, <1>5, <1>6, <1>7, <2>1 DEF Owned
<1>11. IsFiniteSet(R) /\ R \cap fees = {} /\ e \notin R \cup fees /\ R \subseteq DOMAIN kept
  <2>1. R \subseteq DOMAIN kept
    BY DEF R, Owned
  <2>2. IsFiniteSet(R)
    BY <1>8, PaidType DEF R
  <2> QED
    BY <1>5, <1>7, <2>1, <2>2
<1>12. /\ \A i \in DOMAIN recs : f[i] \in Int
       /\ f[e] = -amount
       /\ \A i \in R : f[i] = Money(kept)[i]
  <2>1. \A i \in DOMAIN recs : f[i] \in Int
    BY <1>8, PaidType DEF f
  <2>2. f[e] = -amount
    BY <1>6 DEF f, Money
  <2>3. \A i \in R : f[i] = Money(kept)[i]
    BY <1>6, <1>7, <1>11 DEF f, Money
  <2> QED
    BY <2>1, <2>2, <2>3
<1>13. \A i \in fees : g[i] \in Int /\ f[i] >= -g[i]
  <2> SUFFICES ASSUME NEW i \in fees
               PROVE  g[i] \in Int /\ f[i] >= -g[i]
    OBVIOUS
  <2>1. g[i] = records[i].amount /\ f[i] = Signed(records[i]) /\ records[i] \in Record
    BY <1>5, <1>6 DEF f, g, Money, AmountColumn
  <2> QED
    BY <2>1 DEF Signed, Record
<1>14. Total(f, R) = Paid(kept, from)
  <2>1. Total(f, R) = Total(Money(kept), R)
    BY <1>11, <1>12, TotalSame
  <2> QED
    BY <2>1 DEF Paid, R
<1>15. \A i \in (R \cup fees) \cup {e} : f[i] \in Int
  BY <1>5, <1>6, <1>7, <1>11, <1>12
<1>16. Total(f, R \cup fees) >= Total(f, R) - Total(g, fees)
  BY <1>8, <1>11, <1>13, <1>15, TotalCovers
<1>17. Total(f, (R \cup fees) \cup {e}) = f[e] + Total(f, R \cup fees)
  BY <1>8, <1>11, <1>15, FS_Union, TotalAdd
<1>18. Paid(records', from) = f[e] + Total(f, R \cup fees)
  <2>1. Paid(records', from) = Paid(recs, from)
    BY <1>2, <1>3, PaidRewritten
  <2> QED
    BY <1>10, <1>17, <2>1 DEF Paid, f
<1>19. /\ Total(f, R \cup fees) \in Int /\ Total(f, R) \in Int /\ Total(g, fees) \in Int
  <2>1. IsFiniteSet(R \cup fees)
    BY <1>8, <1>11, FS_Union
  <2> QED
    BY <1>8, <1>11, <1>13, <1>15, <2>1, TotalType
<1>20. wallets[from].initial + Paid(records', from) >= 0
  <2> DEFINE a == Total(f, R)
             b == Total(f, R \cup fees)
             d == Total(g, fees)
             x == wallets[from].initial
  <2>1. /\ a \in Int /\ b \in Int /\ d \in Int /\ x \in Nat /\ amount \in Nat
        /\ b >= a - d /\ (x + a) - (amount + d) >= 0
    BY <1>1, <1>9, <1>14, <1>16, <1>19
  <2>2. Paid(records', from) = -amount + b
    BY <1>12, <1>18
  <2> HIDE DEF a, b, d, x
  <2>3. x + (-amount + b) >= 0
    BY <2>1
  <2> QED
    BY <2>2, <2>3 DEF x
<1> QED
  BY <1>20 DEF Covered

\* Adding a row to dense transfers leaves them dense, and the rewrite leaves them as they are.
LEMMA DenseTransferAdded ==
    ASSUME NEW trs, Dense(DOMAIN trs), trs \in [DOMAIN trs -> Transfer], NEW tr,
           NEW new, new = With(trs, MaxId(DOMAIN trs) + 1, tr)
    PROVE  /\ Reinserted(new) = new
           /\ DOMAIN new = DOMAIN trs \cup {MaxId(DOMAIN trs) + 1}
           /\ new[MaxId(DOMAIN trs) + 1] = tr
           /\ \A u \in DOMAIN trs : new[u] = trs[u]
<1> DEFINE n == Cardinality(DOMAIN trs)
           m == MaxId(DOMAIN trs)
<1>1. n \in Nat /\ DOMAIN trs = 1 .. n
  BY FS_CardinalityType DEF Dense
<1> HIDE DEF n
<1>2. m = n
  <2>1. Ids(1 .. n)
    BY <1>1, DenseRanks
  <2>2. /\ m \in Nat /\ \A i \in 1 .. n : i <= m
        /\ 1 .. n # {} => m \in 1 .. n
    BY <1>1, <2>1, MaxIdBounds
  <2>3. 1 .. n = {} => m = 0
    BY <1>1 DEF MaxId
  <2> HIDE DEF m
  <2>4. CASE n = 0
    BY <2>3, <2>4
  <2>5. CASE n # 0
    <3>1. n \in 1 .. n
      BY <1>1, <2>5
    <3> QED
      BY <1>1, <2>2, <3>1
  <2> QED
    BY <2>4, <2>5
<1>3. /\ DOMAIN new = DOMAIN trs \cup {m + 1} /\ new[m + 1] = tr
      /\ new = [i \in DOMAIN new |-> new[i]]
      /\ \A u \in DOMAIN trs : u # m + 1 => new[u] = trs[u]
  BY DEF With
<1> HIDE DEF m
<1>4. DOMAIN new = 1 .. (n + 1) /\ \A u \in DOMAIN trs : u # m + 1
  <2>1. 1 .. n \cup {n + 1} = 1 .. (n + 1) /\ \A u \in 1 .. n : u # n + 1
    BY <1>1
  <2>2. DOMAIN new = 1 .. n \cup {n + 1}
    BY <1>1, <1>2, <1>3
  <2> QED
    BY <1>1, <1>2, <2>1, <2>2
<1>5. Reinserted(new) = new
  BY <1>1, <1>3, <1>4, DenseReinserted
<1> QED
  BY <1>3, <1>4, <1>5 DEF m

\* The transfers after a step that removes none: another one, or one moved, or the same.
LEMMA SourceIsCovered ==
    ASSUME IInv, [Next]_vars, Cardinality(DOMAIN transfers') >= Cardinality(DOMAIN transfers),
           NEW t \in DOMAIN transfers'
    PROVE  \/ t \in DOMAIN transfers /\ transfers'[t] = transfers[t]
           \/ wallets[transfers'[t].from].neg
           \/ Covered(records', transfers'[t].from)
<1>1. /\ Books(records, transfers) /\ Dense(DOMAIN transfers)
      /\ transfers \in [DOMAIN transfers -> Transfer]
  BY InvariantGivesBooks DEF IInv, TypeOK
<1>2. CASE UNCHANGED transfers
  BY <1>2
<1>3. CASE CreateStep
  <2>0. PICK from \in DOMAIN wallets :
           /\ wallets[from].neg \/ Covered(records', from)
           /\ \E to, amount : transfers' = Reinserted(
                 With(transfers, MaxId(DOMAIN transfers) + 1,
                      [from |-> from, to |-> to, amount |-> amount]))
    BY <1>3, CreatedIsCovered
  <2>1. PICK to, amount : transfers' = Reinserted(
                 With(transfers, MaxId(DOMAIN transfers) + 1,
                      [from |-> from, to |-> to, amount |-> amount]))
    BY <2>0
  <2> DEFINE tr  == [from |-> from, to |-> to, amount |-> amount]
             new == With(transfers, MaxId(DOMAIN transfers) + 1, tr)
  <2>2. tr.from = from
    OBVIOUS
  <2>3. transfers' = Reinserted(new)
    BY <2>1
  <2> HIDE DEF tr
  <2>4. /\ Reinserted(new) = new
        /\ DOMAIN new = DOMAIN transfers \cup {MaxId(DOMAIN transfers) + 1}
        /\ new[MaxId(DOMAIN transfers) + 1] = tr
        /\ \A u \in DOMAIN transfers : new[u] = transfers[u]
    BY <1>1, DenseTransferAdded
  <2> HIDE DEF new
  <2> QED
    BY <2>0, <2>2, <2>3, <2>4
<1>4. CASE MoveStep
  <2>1. PICK u \in DOMAIN transfers, from \in DOMAIN wallets, to \in DOMAIN wallets,
             amount \in Amounts : UpdateTransfer(u, from, to, amount)
    BY <1>4 DEF MoveStep
  <2> DEFINE tr  == [from |-> from, to |-> to, amount |-> amount]
             new == [transfers EXCEPT ![u] = tr]
  <2>2. tr.from = from
    OBVIOUS
  <2>3. transfers' = Reinserted(new)
    BY <2>1 DEF UpdateTransfer, Rewrite
  <2> HIDE DEF tr
  <2>4. /\ DOMAIN new = DOMAIN transfers /\ new[u] = tr /\ new = [i \in DOMAIN new |-> new[i]]
        /\ \A v \in DOMAIN transfers : v # u => new[v] = transfers[v]
    BY <1>1
  <2>5. Reinserted(new) = new
    <3> DEFINE n == Cardinality(DOMAIN transfers)
    <3>1. n \in Nat /\ DOMAIN transfers = 1 .. n
      BY <1>1, FS_CardinalityType DEF Dense
    <3> HIDE DEF n, new
    <3> QED
      BY <2>4, <3>1, DenseReinserted
  <2>6. wallets[from].neg \/ Covered(records', from)
    BY <2>1, MovedIsCovered
  <2> HIDE DEF new
  <2> QED
    BY <2>2, <2>3, <2>4, <2>5, <2>6
<1>5. CASE DropStep
  <2>1. PICK u \in DOMAIN transfers : transfers' = Reinserted(Without(transfers, {u}))
    BY <1>5 DEF DropStep, DeleteTransfer, Rewrite
  <2> DEFINE new == Without(transfers, {u})
  <2>2. DOMAIN new = DOMAIN transfers \ {u}
    BY DEF Without
  <2>3. Ids(DOMAIN transfers) /\ Ids(DOMAIN new)
    BY <1>1, <2>2, IdsOfPart DEF Books
  <2> HIDE DEF new
  <2>4. Cardinality(DOMAIN transfers') = Cardinality(DOMAIN new)
    BY <2>1, <2>3, ReinsertedRows DEF new
  <2>5. Cardinality(DOMAIN new) = Cardinality(DOMAIN transfers) - 1
    BY <2>2, <2>3, FS_RemoveElement DEF Ids
  <2>6. Cardinality(DOMAIN transfers) \in Nat
    BY <2>3, FS_CardinalityType DEF Ids
  <2> QED
    BY <2>4, <2>5, <2>6
<1>6. CASE RenumberStep
  <2>1. transfers' = Reinserted(transfers)
    BY <1>6 DEF RenumberStep, Rewrite
  <2> DEFINE n == Cardinality(DOMAIN transfers)
  <2>2. n \in Nat /\ DOMAIN transfers = 1 .. n /\ transfers = [i \in 1 .. n |-> transfers[i]]
    BY <1>1, FS_CardinalityType DEF Dense
  <2> HIDE DEF n
  <2>3. transfers' = transfers
    BY <2>1, <2>2, DenseReinserted
  <2> QED
    BY <1>2, <2>3
<1>7. CASE WalletStep \/ BookStep \/ EditStep \/ DeleteStep \/ DeleteAllRecords \/ IdleStep
  <2>1. UNCHANGED transfers
    BY <1>7 DEF WalletStep, BookStep, EditStep, DeleteStep, DeleteAllRecords, IdleStep,
                SaveRecord, UpdateRecordInline, DeletePlainRecord
  <2> QED
    BY <1>2, <2>1
<1> QED
  BY <1>3, <1>4, <1>5, <1>6, <1>7, StepKinds

\* No step changes the initial balance of a wallet.
LEMMA InitialsStay ==
    ASSUME IInv, [Next]_vars, NEW w \in DOMAIN wallets
    PROVE  wallets'[w].initial = wallets[w].initial
<1>1. WalletStep => wallets'[w].initial = wallets[w].initial
  BY DEF WalletStep
<1>2. ~ WalletStep => UNCHANGED wallets
  BY StepKinds DEF BookStep, SaveRecord, EditStep, UpdateRecordInline, DeleteStep,
     DeletePlainRecord, DeleteAllRecords, CreateStep, CreateTransfer, MoveStep, UpdateTransfer,
     DropStep, DeleteTransfer, RenumberStep, IdleStep
<1> QED
  BY <1>1, <1>2

\* No booking and no edited transfer takes a wallet that must not go negative below zero, whatever
\* the amounts, the commissions and the number of wallets, records and transfers.
THEOREM CoveredStaysCovered == Spec => WalletsStayCovered
<1> DEFINE Booking ==
             OnlyBooks =>
               \A w \in DOMAIN wallets :
                  ~ wallets[w].neg /\ Balance(w) >= 0 => Balance(w)' >= 0
           Source ==
             Cardinality(DOMAIN transfers') >= Cardinality(DOMAIN transfers) =>
               \A t \in DOMAIN transfers' :
                  \/ t \in DOMAIN transfers /\ transfers'[t] = transfers[t]
                  \/ wallets[transfers'[t].from].neg
                  \/ BalanceIn(records', transfers'[t].from) >= 0
<1>1. ASSUME IInv, [Next]_vars
      PROVE  Rows(records) /\ Rows(records')
  <2>1. Books(records, transfers)
    BY <1>1, InvariantGivesBooks DEF IInv
  <2>2. IInv'
    BY <1>1, NextInvariant
  <2>3. Books(records, transfers)'
    BY <2>2, InvariantGivesBooks, PTL DEF IInv
  <2> QED
    BY <2>1, <2>3 DEF Books, Rows, Ids
<1>2. ASSUME IInv, [Next]_vars
      PROVE  Booking
  <2> SUFFICES ASSUME OnlyBooks, NEW w \in DOMAIN wallets, ~ wallets[w].neg, Balance(w) >= 0
               PROVE  Balance(w)' >= 0
    OBVIOUS
  <2>1. Rows(records) /\ Rows(records')
    BY <1>1, <1>2
  <2>2. Balance(w) = wallets[w].initial + Paid(records, w)
    BY <2>1, BalanceIsPaid DEF Balance
  <2>3. Covered(records, w)
    BY <2>2, Zenon DEF Covered
  <2>4. Covered(records', w)
    BY <1>2, <2>3, BookingIsCovered
  <2>5. wallets'[w].initial = wallets[w].initial
    BY <1>2, InitialsStay
  <2>6. Balance(w)' = wallets[w].initial + Paid(records', w)
    BY <2>1, <2>5, BalanceAfter
  <2> QED
    BY <2>4, <2>6, Zenon DEF Covered
<1>3. ASSUME IInv, [Next]_vars
      PROVE  Source
  <2> SUFFICES ASSUME Cardinality(DOMAIN transfers') >= Cardinality(DOMAIN transfers),
                      NEW t \in DOMAIN transfers'
               PROVE  \/ t \in DOMAIN transfers /\ transfers'[t] = transfers[t]
                      \/ wallets[transfers'[t].from].neg
                      \/ BalanceIn(records', transfers'[t].from) >= 0
    OBVIOUS
  <2>1. BalanceIn(records', transfers'[t].from)
          = wallets[transfers'[t].from].initial + Paid(records', transfers'[t].from)
    BY <1>1, <1>3, BalanceIsPaid
  <2>2. Covered(records', transfers'[t].from) => BalanceIn(records', transfers'[t].from) >= 0
    BY <2>1, Zenon DEF Covered
  <2> QED
    BY <1>3, <2>2, SourceIsCovered
<1>4. IInv /\ [Next]_vars => [Booking]_vars /\ [Source]_vars
  BY <1>2, <1>3
<1>5. Spec => [][Booking]_vars /\ [][Source]_vars
  BY <1>4, InvariantHolds, PTL DEF Spec
<1> QED
  BY <1>5 DEF WalletsStayCovered, BookingNeverOverdraws, TransferSourceCovered
=============================================================================
