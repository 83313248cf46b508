---------------------------- MODULE SnapshotBook ----------------------------
(***************************************************************************)
(* What the registry of assets promises of their values: a book with one   *)
(* value for each asset and day.  Values of one day are entered together,  *)
(* all or none, and leave every other value alone; only a backup replaces  *)
(* the book.                                                               *)
(***************************************************************************)
EXTENDS Integers

CONSTANTS
    Ids, Days, Values,   \* of assets, of calendar days, of amounts
    Books                \* the books of the backups

VARIABLE book   \* <<asset, day>> -> value

NoValues == [entry \in {} |-> 0]

\* The values given for some assets on a day.
Enter(day, given) ==
    book' = [entry \in DOMAIN book \cup ((DOMAIN given) \X {day}) |->
               IF entry[2] = day /\ entry[1] \in DOMAIN given THEN given[entry[1]]
               ELSE book[entry]]

Next ==
    \/ \E day \in Days, given \in UNION {[some -> Values] : some \in SUBSET Ids} :
          Enter(day, given)
    \/ book' \in Books

Spec == book = NoValues /\ [][Next]_book
=============================================================================
