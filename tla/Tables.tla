------------------------------- MODULE Tables -------------------------------
(***************************************************************************)
(* A table of the database: a function from the ids of its rows to the     *)
(* rows.  An id is a positive integer.  Every bulk rewrite of the          *)
(* repository (replace_records_and_transfers, replace_all_data) deletes a  *)
(* table, resets its AUTOINCREMENT counter and inserts the rows again in   *)
(* the order of their old ids, so the row with the k-th smallest id gets   *)
(* the id k: its rank.                                                     *)
(***************************************************************************)
EXTENDS Integers, FiniteSets

\* The number of ids of S up to i: the new id of i when S is inserted again in order.
Rank(S, i) == Cardinality({j \in S : j <= i})

\* The k-th smallest id of S, the inverse of Rank(S, _).
Nth(S, k) == CHOOSE i \in S : Rank(S, i) = k

\* The ids are exactly 1, 2, ..., n.
Dense(S) == IsFiniteSet(S) /\ S = 1 .. Cardinality(S)

\* (Mutant of Reinserted: the rows are inserted in descending order of their ids.)
ReinsertedBackwards(tbl) ==
    LET n == Cardinality(DOMAIN tbl)
    IN  [k \in 1 .. n |-> tbl[Nth(DOMAIN tbl, n + 1 - k)]]

\* The table inserted again, in id order, into an empty table.
Reinserted(tbl) ==
    [k \in 1 .. Cardinality(DOMAIN tbl) |-> tbl[Nth(DOMAIN tbl, k)]]

\* The table with one row more, and the table without the rows of S.
With(tbl, i, row) == [j \in DOMAIN tbl \cup {i} |-> IF j = i THEN row ELSE tbl[j]]
Without(tbl, S)   == [j \in DOMAIN tbl \ S |-> tbl[j]]

\* The largest id of S, 0 when S is empty: max(..., default=0).
MaxId(S) == IF S = {} THEN 0 ELSE CHOOSE i \in S : \A j \in S : j <= i
=============================================================================
