---------------------------- MODULE ImportProofs ----------------------------
(***************************************************************************)
(* For any database, any files and any number of operations in them: an    *)
(* import that fails changes nothing, one that succeeds leaves no loose    *)
(* ends (ImportsAllOrNothing), and the payments of a backup have the       *)
(* records they had in it (PaymentsKeepTheirRecords).                      *)
(*                                                                         *)
(* What is restored is a copy taken after the user confirmed; nothing is   *)
(* committed before the copy is taken, and the copy stays as it is until   *)
(* the import ends (IInv).  The numbering goes through the payments one by *)
(* one: of each of its recursions an invariant is proved step by step      *)
(* (Restoring, Joining, Placed), and used where the recursion ends.        *)
(* Between the steps the database is well-formed and no record is taken    *)
(* twice (WInv), and a backup that was read has its links (LinksKept).     *)
(***************************************************************************)
EXTENDS Import, TablesProofs, SequenceTheorems

Steps == {"preview", "open", "replace", "sections", "reset", "relax", "create",
          "templates", "number"}

\* An import has a step, and a result only when it is over.
Session ==
    \/ \E result \in {"none", "failed", "done"} : session = Idle(result)
    \/ \E step \in Steps : \E f, policy, todo :
          session = [at |-> step, file |-> f, policy |-> policy, todo |-> todo]

\* Before the copy is taken the database is what it was, after that the copy is.
Copied ==
    /\ InStep("open") => database = began
    /\ InTransaction /\ ~InStep("open") => snapshot = began

IInv == Session /\ Copied

-----------------------------------------------------------------------------
\* At the beginning no import runs.
LEMMA InitInvariant == ImportInit => IInv
BY DEF ImportInit, IInv, Session, Copied, InTransaction, InStep, Idle

\* A step inside the import goes to another one; it does not end it.
LEMMA GoesOn ==
    ASSUME Session, session.at \in Steps, NEW step \in Steps, NEW todo,
           \/ session' = [session EXCEPT !.at = step]
           \/ session' = [session EXCEPT !.at = step, !.todo = todo]
    PROVE  Session' /\ session'.at = step
<1>1. PICK old, f, policy, left :
        old \in Steps /\ session = [at |-> old, file |-> f, policy |-> policy, todo |-> left]
  BY DEF Session, Idle, Steps
<1>2. \E t : session' = [at |-> step, file |-> f, policy |-> policy, todo |-> t]
  BY <1>1
<1> QED BY <1>2 DEF Session

\* Only what is left to do changes.
LEMMA StaysAt ==
    ASSUME Session, session.at \in Steps, NEW todo,
           session' = [session EXCEPT !.todo = todo]
    PROVE  Session' /\ session'.at = session.at
<1>1. PICK old, f, policy, left :
        old \in Steps /\ session = [at |-> old, file |-> f, policy |-> policy, todo |-> left]
  BY DEF Session, Idle, Steps
<1>2. session' = [at |-> old, file |-> f, policy |-> policy, todo |-> todo]
  BY <1>1
<1> QED BY <1>1, <1>2 DEF Session

\* An import that is under way.
LEMMA IsUnderWay ==
    ASSUME NEW step \in Steps, NEW f, NEW policy, NEW todo,
           session' = [at |-> step, file |-> f, policy |-> policy, todo |-> todo]
    PROVE  Session' /\ session'.at = step
BY DEF Session

\* An import that is over.
LEMMA IsOver ==
    ASSUME NEW result \in {"none", "failed", "done"}, session' = Idle(result)
    PROVE  /\ Session' /\ session'.at = "idle" /\ session'.result = result
           /\ Copied'
BY DEF Session, Idle, Copied, InTransaction, InStep

-----------------------------------------------------------------------------
(* What a step does to the import: it keeps the invariant, and a step that *)
(* ends it in failure leaves the database of the beginning.                *)

Harmless == IInv' /\ (Ends("failed") => database' = began)

\* The preview changes nothing, and no copy is needed yet.
LEMMA ChooseHarmless ==
    ASSUME IInv, NEW f, NEW policy, Choose(f, policy) PROVE Harmless
<1>0. ~InTransaction
  BY DEF Choose, InStep, InTransaction
<1>1. CASE PrepareRaises(f, policy)
  <2>1. session' = Idle("failed")
    BY <1>1 DEF Choose
  <2> QED BY <1>0, <2>1, IsOver DEF Harmless, IInv, Ends
<1>2. CASE ~PrepareRaises(f, policy)
  <2>1. session' = [at |-> "preview", file |-> f, policy |-> policy, todo |-> <<>>]
    BY <1>2 DEF Choose
  <2>2. Session' /\ session'.at = "preview"
    BY <2>1, IsUnderWay DEF Steps
  <2> QED BY <1>0, <2>2 DEF Harmless, IInv, Copied, Ends, InStep, InTransaction
<1> QED BY <1>1, <1>2

\* Confirming notes the database, and the copy is not taken yet.
LEMMA ConfirmHarmless == ASSUME IInv, NEW f, Confirm(f) PROVE Harmless
<1>0. session.at = "preview" /\ ~InTransaction
  BY DEF Confirm, InStep, InTransaction
<1>1. CASE PrepareRaises(f, session.policy)
  <2>1. session' = Idle("failed")
    BY <1>1 DEF Confirm
  <2> QED BY <1>0, <2>1, IsOver DEF Harmless, IInv, Ends
<1>2. CASE ~PrepareRaises(f, session.policy)
  <2>1. session' = [session EXCEPT !.at = "open", !.file = f]
    BY <1>2 DEF Confirm
  <2>2. PICK step, g, policy, todo :
          step \in Steps /\ session = [at |-> step, file |-> g, policy |-> policy, todo |-> todo]
    BY <1>0 DEF IInv, Session, Idle
  <2>3. session' = [at |-> "open", file |-> f, policy |-> policy, todo |-> todo]
    BY <2>1, <2>2
  <2>4. Session' /\ session'.at = "open"
    BY <2>3, IsUnderWay DEF Steps
  <2>5. database' = began'
    BY DEF Confirm
  <2> QED BY <1>0, <2>4, <2>5 DEF Harmless, IInv, Copied, Ends, InStep, InTransaction
<1> QED BY <1>1, <1>2

\* Templates begin the same way.
LEMMA MandatoryHarmless == ASSUME IInv, NEW f, ImportMandatory(f) PROVE Harmless
<1>1. ~InTransaction /\ database' = began'
  BY DEF ImportMandatory, InStep, InTransaction
<1>2. Session' /\ session'.at = "open"
  BY IsUnderWay DEF ImportMandatory, Steps
<1> QED BY <1>1, <1>2 DEF Harmless, IInv, Copied, Ends, InStep, InTransaction

\* The copy is taken of the database that was confirmed.
LEMMA OpenHarmless == ASSUME IInv, Open PROVE Harmless
<1>0. session.at = "open" /\ session.at \in Steps /\ database = began
      /\ snapshot' = began'
  BY DEF Open, InStep, IInv, Copied, Steps
<1>1. CASE session' = Idle("done")
  BY <1>1, IsOver DEF Harmless, IInv, Ends
<1>2. CASE \E step \in {"reset", "replace"} : Proceeds(step)
  <2>1. PICK step \in {"reset", "replace"} : session' = [session EXCEPT !.at = step]
    BY <1>2 DEF Proceeds
  <2>2. Session' /\ session'.at = step
    BY <1>0, <2>1, GoesOn DEF IInv, Steps
  <2> QED BY <1>0, <2>2 DEF Harmless, IInv, Copied, Ends, InStep
<1> QED BY <1>1, <1>2 DEF Open

\* A step of the import that goes on keeps the copy, whatever it commits.
LEMMA StepHarmless ==
    ASSUME IInv, UNCHANGED <<snapshot, began>>,
           session.at \in Steps \ {"preview", "open"},
           Session', session'.at \in Steps \ {"preview", "open"}
    PROVE  Harmless
<1>1. snapshot = began
  BY DEF IInv, Copied, InTransaction, InStep, Steps
<1>2. snapshot' = began'
  BY <1>1
<1>3. session'.at # "idle" /\ session'.at # "open"
  BY DEF Steps
<1> QED BY <1>2, <1>3 DEF Harmless, IInv, Copied, Ends, InStep

\* The bulk path.
LEMMA BulkHarmless == ASSUME IInv, Replace \/ Sections PROVE Harmless
<1>1. CASE Replace
  <2>1. session.at = "replace" /\ session' = [session EXCEPT !.at = "sections"]
        /\ UNCHANGED <<snapshot, began>>
    BY <1>1 DEF Replace, InStep, Proceeds
  <2>2. Session' /\ session'.at = "sections"
    BY <2>1, GoesOn DEF IInv, Steps
  <2> QED BY <2>1, <2>2, StepHarmless DEF Steps
<1>2. CASE Sections
  <2>1. session.at = "sections" /\ session' = [session EXCEPT !.at = "number"]
        /\ UNCHANGED <<snapshot, began>>
    BY <1>2 DEF Sections, InStep, Proceeds
  <2>2. Session' /\ session'.at = "number"
    BY <2>1, GoesOn DEF IInv, Steps
  <2> QED BY <2>1, <2>2, StepHarmless DEF Steps
<1> QED BY <1>1, <1>2

\* The other path, up to the first operation.
LEMMA ResetHarmless == ASSUME IInv, Reset \/ Relax PROVE Harmless
<1>1. CASE Reset
  <2>1. session.at = "reset" /\ UNCHANGED <<snapshot, began>>
    BY <1>1 DEF Reset, InStep
  <2>2. CASE session.file.type = "templates"
    <3>1. session' = [session EXCEPT !.at = "templates", !.todo = session.file.templates]
      BY <1>1, <2>2 DEF Reset
    <3>2. Session' /\ session'.at = "templates"
      BY <2>1, <3>1, GoesOn DEF IInv, Steps
    <3> QED BY <2>1, <3>2, StepHarmless DEF Steps
  <2>3. CASE session.file.type # "templates"
    <3>1. session' = [session EXCEPT !.at = "relax"]
      BY <1>1, <2>3 DEF Reset, Proceeds
    <3>2. Session' /\ session'.at = "relax"
      BY <2>1, <3>1, GoesOn DEF IInv, Steps
    <3> QED BY <2>1, <3>2, StepHarmless DEF Steps
  <2> QED BY <2>2, <2>3
<1>2. CASE Relax
  <2>1. session.at = "relax" /\ UNCHANGED <<snapshot, began>>
        /\ session' = [session EXCEPT !.at = "create", !.todo = Prepared(session.file).recs]
    BY <1>2 DEF Relax, InStep
  <2>2. Session' /\ session'.at = "create"
    BY <2>1, GoesOn DEF IInv, Steps
  <2> QED BY <2>1, <2>2, StepHarmless DEF Steps
<1> QED BY <1>1, <1>2

\* Operation by operation.
LEMMA CreateHarmless == ASSUME IInv, Create \/ Created PROVE Harmless
<1>1. CASE Create
  <2>1. session.at = "create" /\ UNCHANGED <<snapshot, began>>
    BY <1>1 DEF Create, InStep
  <2>2. \E todo : session' = [session EXCEPT !.todo = todo]
    BY <1>1 DEF Create
  <2>3. Session' /\ session'.at = "create"
    BY <2>1, <2>2, StaysAt DEF IInv, Steps
  <2> QED BY <2>1, <2>3, StepHarmless DEF Steps
<1>2. CASE Created
  <2>1. session.at = "create" /\ session' = [session EXCEPT !.at = "number"]
        /\ UNCHANGED <<snapshot, began>>
    BY <1>2 DEF Created, InStep, Proceeds
  <2>2. Session' /\ session'.at = "number"
    BY <2>1, GoesOn DEF IInv, Steps
  <2> QED BY <2>1, <2>2, StepHarmless DEF Steps
<1> QED BY <1>1, <1>2

\* Template by template; then it is over.
LEMMA TemplateHarmless == ASSUME IInv, CreateTemplate PROVE Harmless
<1>0. session.at = "templates" /\ UNCHANGED <<snapshot, began>>
  BY DEF CreateTemplate, InStep
<1>1. CASE session.todo = <<>>
  <2>1. session' = Idle("done")
    BY <1>1 DEF CreateTemplate
  <2> QED BY <2>1, IsOver DEF Harmless, IInv, Ends
<1>2. CASE session.todo # <<>>
  <2>1. \E todo : session' = [session EXCEPT !.todo = todo]
    BY <1>2 DEF CreateTemplate
  <2>2. Session' /\ session'.at = "templates"
    BY <1>0, <2>1, StaysAt DEF IInv, Steps
  <2> QED BY <1>0, <2>2, StepHarmless DEF Steps
<1> QED BY <1>1, <1>2

\* A step that raises restores the copy, and the copy is the database of the beginning.
LEMMA RaiseHarmless == ASSUME IInv, Raise PROVE Harmless
<1>1. session' = Idle("failed") /\ database' = snapshot
  BY DEF Raise
<1>2. snapshot = began
  BY DEF Raise, IInv, Copied
<1>3. IInv'
  BY <1>1, IsOver DEF IInv
<1> QED BY <1>1, <1>2, <1>3 DEF Harmless

\* The last step, and an end from outside, are no failure.
LEMMA EndHarmless == ASSUME IInv, Cancel \/ Number \/ CutOff PROVE Harmless
<1>1. \E result \in {"none", "done"} : session' = Idle(result)
  BY DEF Cancel, Number, CutOff
<1> QED BY <1>1, IsOver DEF Harmless, IInv, Ends

\* Every step is harmless, and so is one that changes nothing.
LEMMA NextHarmless ==
    ASSUME IInv, [ImportNext]_importVars
    PROVE  IInv' /\ [Ends("failed") => database' = began]_importVars
<1>1. CASE UNCHANGED importVars
  BY <1>1 DEF importVars, IInv, Session, Copied, InTransaction, InStep
<1>2. ASSUME NEW f \in Files,
             (\E policy \in Policies : Choose(f, policy)) \/ Confirm(f) \/ ImportMandatory(f)
      PROVE  Harmless
  BY <1>2, ChooseHarmless, ConfirmHarmless, MandatoryHarmless
<1>3. CASE Open
  BY <1>3, OpenHarmless DEF Harmless
<1>4. CASE Replace \/ Sections \/ Reset \/ Relax
  BY <1>4, BulkHarmless, ResetHarmless DEF Harmless
<1>5. CASE Create \/ Created \/ CreateTemplate
  BY <1>5, CreateHarmless, TemplateHarmless DEF Harmless
<1>6. CASE Raise \/ Cancel \/ Number \/ CutOff
  BY <1>6, RaiseHarmless, EndHarmless DEF Harmless
<1> QED BY <1>1, <1>2, <1>3, <1>4, <1>5, <1>6 DEF ImportNext, Harmless

\* An import that fails at any step leaves the database as it was when the user
\* confirmed: for any database, any file and any number of operations.
THEOREM FailureIsUndone == ImportSpec => FailureChangesNothing
<1>1. ImportInit => IInv
  BY InitInvariant
<1>2. IInv /\ [ImportNext]_importVars => IInv' /\ [Ends("failed") => database' = began]_importVars
  BY NextHarmless
<1> QED BY <1>1, <1>2, PTL DEF ImportSpec, FailureChangesNothing

-----------------------------------------------------------------------------
(* Rows, records and payments of a file. *)


\* Rows taken from a sequence at some places keep their order: the k-th is that of the k-th place.
LEMMA RowsAtPlaces ==
    ASSUME NEW X, NEW s \in Seq(X), NEW T \in SUBSET DOMAIN s
    PROVE  LET r == RowsAt(s, T)
           IN  /\ Ids(T) /\ Cardinality(T) \in Nat
               /\ r \in Seq(X) /\ Len(r) = Cardinality(T) /\ DOMAIN r = 1 .. Cardinality(T)
               /\ \A k \in DOMAIN r : Nth(T, k) \in T /\ r[k] = s[Nth(T, k)]
               /\ \A i \in T : Rank(T, i) \in DOMAIN r /\ Nth(T, Rank(T, i)) = i
               /\ \A k \in DOMAIN r : Rank(T, Nth(T, k)) = k
<1> DEFINE r == RowsAt(s, T)
           c == Cardinality(T)
<1>1. Len(s) \in Nat /\ DOMAIN s = 1 .. Len(s) /\ \A i \in DOMAIN s : s[i] \in X
  OBVIOUS
<1>2. Ids(T)
  BY <1>1, IdsOfInterval
<1>3. c \in Nat
  BY <1>2, FS_CardinalityType DEF Ids
<1>4. /\ \A k \in 1 .. c : Nth(T, k) \in T /\ Rank(T, Nth(T, k)) = k
      /\ \A i \in T : Rank(T, i) \in 1 .. c /\ Nth(T, Rank(T, i)) = i
  BY <1>2, NthOfRank, RankType
<1>5. r = [k \in 1 .. c |-> [i \in T |-> s[i]][Nth(T, k)]]
  BY DEF RowsAt, Reinserted
<1>6. \A k \in 1 .. c : r[k] = s[Nth(T, k)] /\ r[k] \in X
  BY <1>1, <1>4, <1>5
<1>7. r = [k \in 1 .. c |-> r[k]]
  BY <1>5, <1>6
<1> HIDE DEF c, r
<1>8. r \in Seq(X) /\ Len(r) = c /\ DOMAIN r = 1 .. c
  BY <1>3, <1>6, <1>7
<1> QED BY <1>2, <1>3, <1>4, <1>6, <1>8 DEF c, r

-----------------------------------------------------------------------------
\* What a step works on: a file the user chose, or its templates.
OpenFile(f) ==
    f \in [type: {"json", "csv", "xlsx", "templates"}, rows: Seq(FileRows), pays: Seq(Payments),
          debts: SUBSET Debts, hasDebts: BOOLEAN, wallets: BOOLEAN,
          templates: Seq(STRING), extra: BOOLEAN]

\* What is parsed are records of debts that are there.
LEMMA ParsedAre ==
    ASSUME ImportAssumption, DatabaseOK(database), NEW f, OpenFile(f)
    PROVE  /\ ParsedRecords(f) \in Seq(Records)
           /\ DOMAIN ParsedRecords(f) = 1 .. Cardinality(Kept(f))
           /\ Cardinality(Kept(f)) \in Nat
           /\ \A i \in DOMAIN ParsedRecords(f) :
                 LET row == f.rows[Nth(Kept(f), i)]
                 IN  ParsedRecords(f)[i] =
                       [who |-> row.who, key |-> row.key, type |-> row.type,
                        std |-> row.std, pair |-> row.pair,
                        debt |-> IF row.debt \in Allowed(f) THEN row.debt ELSE None]
<1> DEFINE rows == RowsAt(f.rows, Kept(f))
           n == Cardinality(Kept(f))
           rec(i) == [who |-> rows[i].who, key |-> rows[i].key, type |-> rows[i].type,
                      std |-> rows[i].std, pair |-> rows[i].pair,
                      debt |-> IF rows[i].debt \in Allowed(f) THEN rows[i].debt ELSE None]
           recs == ParsedRecords(f)
<1>1. f.rows \in Seq(FileRows) /\ f.debts \subseteq Debts
  BY DEF OpenFile
<1>2. Allowed(f) \subseteq Debts
  BY <1>1 DEF Allowed, DatabaseOK
<1>3. Kept(f) \in SUBSET DOMAIN f.rows
  BY DEF Kept
<1>4. /\ n \in Nat /\ rows \in Seq(FileRows) /\ DOMAIN rows = 1 .. n
      /\ \A k \in DOMAIN rows : rows[k] = f.rows[Nth(Kept(f), k)]
  BY <1>1, <1>3, RowsAtPlaces
<1>5. recs = [i \in DOMAIN rows |-> rec(i)]
  BY DEF ParsedRecords
<1>6. \A i \in 1 .. n : rows[i] \in FileRows
  BY <1>4
<1>7. \A i \in 1 .. n : rec(i) \in Records
  <2> SUFFICES ASSUME NEW i \in 1 .. n
               PROVE  rec(i) \in Records
    OBVIOUS
  <2>1. rows[i] \in FileRows
    BY <1>6
  <2>2. (IF rows[i].debt \in Allowed(f) THEN rows[i].debt ELSE None) \in Debts \cup {None}
    BY <1>2
  <2> HIDE DEF rows
  <2> QED
    BY <2>1, <2>2 DEF FileRows, Records
<1>8. \A i \in 1 .. n : rec(i) = recs[i]
  BY <1>4, <1>5
<1> HIDE DEF rec, recs, rows, n
<1>9. recs \in Seq(Records) /\ DOMAIN recs = 1 .. n
  BY <1>4, <1>5, <1>7
<1> QED
  BY <1>4, <1>8, <1>9 DEF rec, recs, n

\* The payments that are read belong to debts of the file.
LEMMA GoodPaymentsAre ==
    ASSUME NEW f, OpenFile(f)
    PROVE  LET pays == GoodPayments(f)
           IN  /\ pays \in Seq(Payments)
               /\ \A k \in DOMAIN pays : pays[k].debt \in f.debts
               /\ RecordsApart(f.pays) => RecordsApart(pays)
<1> DEFINE T == {k \in DOMAIN f.pays :
                    f.pays[k].debt \in f.debts /\ f.pays[k].rec \in Kept(f) \cup {None}}
           pays == GoodPayments(f)
<1>1. f.pays \in Seq(Payments) /\ T \in SUBSET DOMAIN f.pays
  BY DEF OpenFile
<1>2. pays = RowsAt(f.pays, T)
  BY DEF GoodPayments
<1>3. /\ pays \in Seq(Payments)
      /\ \A k \in DOMAIN pays : Nth(T, k) \in T /\ pays[k] = f.pays[Nth(T, k)]
      /\ \A k \in DOMAIN pays : Rank(T, Nth(T, k)) = k
  <2> HIDE DEF T
  <2> QED BY <1>1, <1>2, RowsAtPlaces
<1>4. \A k, l \in DOMAIN pays : Nth(T, k) = Nth(T, l) => k = l
  BY <1>3
<1> HIDE DEF pays
<1>5. ASSUME RecordsApart(f.pays) PROVE RecordsApart(pays)
  <2> SUFFICES ASSUME NEW k \in DOMAIN pays, NEW l \in DOMAIN pays,
                      pays[k].rec = pays[l].rec, k # l
               PROVE  pays[k].rec = None
    BY DEF RecordsApart
  <2> QED BY <1>3, <1>4, <1>5 DEF RecordsApart
<1> QED BY <1>3, <1>5 DEF pays

-----------------------------------------------------------------------------
(* What is defined by recursion over 0..n. *)

\* Induction up to n.
LEMMA UpToInduction ==
    ASSUME NEW n \in Nat, NEW M, 0 \in M, \A k \in 1 .. n : k - 1 \in M => k \in M
    PROVE  \A k \in 0 .. n : k \in M
<1> DEFINE S == {k \in Nat : k <= n => k \in M}
<1>1. 0 \in S
  OBVIOUS
<1>2. ASSUME NEW k \in S PROVE k + 1 \in S
  <2> SUFFICES ASSUME k + 1 <= n PROVE k + 1 \in M
    OBVIOUS
  <2>1. k \in M /\ k + 1 \in 1 .. n /\ (k + 1) - 1 = k
    OBVIOUS
  <2> QED BY <2>1
<1>3. S = Nat
  <2> HIDE DEF S
  <2>1. S \in SUBSET Nat
    BY DEF S
  <2> QED BY <1>1, <1>2, <2>1, NatInductionSet
<1> QED BY <1>3

\* The values of a recursive definition, step by step.
Follows(f, n, x0, step) == f[0] = x0 /\ \A k \in 1 .. n : f[k] = step[k][f[k - 1]]

\* A recursive definition has the values of its steps.
LEMMA StepsFollow ==
    ASSUME NEW n \in Nat, NEW X, NEW x0 \in X, NEW step \in [1 .. n -> [X -> X]]
    PROVE  \E f \in [0 .. n -> X] : Follows(f, n, x0, step)
<1>1. PICK f \in [0 .. n -> X] : Iterates(f, n, x0, step)
  BY StepsExist
<1>2. \A k \in 0 .. n : f[k] = IF k = 0 THEN x0 ELSE step[k][f[k - 1]]
  BY <1>1 DEF Iterates
<1>3. Follows(f, n, x0, step)
  <2>1. 0 \in 0 .. n /\ \A k \in 1 .. n : k \in 0 .. n /\ k # 0
    OBVIOUS
  <2> QED BY <1>2, <2>1 DEF Follows
<1> QED BY <1>3

\* Operations that are made anew are records.
LEMMA CleanIs ==
    ASSUME NEW recs \in Seq(Records), NEW p, PairHolds(recs, p), NEW type \in {"in", "out"},
           NEW new \in Nat
    PROVE  \E l \in LegsOf(recs, p) :
              /\ recs[l].type = type
              /\ Clean(recs, p, type, new)
                    = [recs[l] EXCEPT !.pair = new, !.debt = None, !.std = FALSE]
              /\ Clean(recs, p, type, new) \in Records
<1> DEFINE S == {recs[l] : l \in LegsOf(recs, p)}
           r == CHOOSE r \in S : r.type = type
<1>1. \E s \in S : s.type = type
  BY DEF PairHolds
<1>2. r \in S /\ r.type = type
  BY <1>1
<1>3. Clean(recs, p, type, new) = [r EXCEPT !.pair = new, !.debt = None, !.std = FALSE]
  BY DEF Clean
<1> HIDE DEF r
<1>4. PICK l \in LegsOf(recs, p) : r = recs[l]
  BY <1>2
<1>5. recs[l] \in Records
  BY DEF LegsOf
<1>6. [recs[l] EXCEPT !.pair = new, !.debt = None, !.std = FALSE] \in Records
  BY <1>5 DEF Records
<1> QED BY <1>2, <1>3, <1>4, <1>6

\* Transfers of a sequence of records are finite in number.
LEMMA PairsFinite ==
    ASSUME NEW recs \in Seq(Records)
    PROVE  /\ IsFiniteSet(Pairs(recs)) /\ Cardinality(Pairs(recs)) \in Nat
           /\ Pairs(recs) \subseteq Nat \ {0}
<1>1. IsFiniteSet(DOMAIN recs)
  <2>1. DOMAIN recs = 1 .. Len(recs) /\ Len(recs) \in Nat
    OBVIOUS
  <2> QED BY <2>1, FS_Interval
<1> DEFINE T == {recs[i].pair : i \in DOMAIN recs}
           g == [i \in DOMAIN recs |-> recs[i].pair]
<1>2. IsFiniteSet(T)
  <2>1. g \in Surjection(DOMAIN recs, T)
    BY DEF Surjection
  <2> HIDE DEF g, T
  <2> QED BY <1>1, <2>1, FS_Surjection
<1>3. \A i \in DOMAIN recs : recs[i].pair \in Nat
  <2>1. \A i \in DOMAIN recs : recs[i] \in Records
    OBVIOUS
  <2> QED BY <2>1 DEF Records
<1>4. Pairs(recs) = T \ {None} /\ T \subseteq Nat
  BY <1>3 DEF Pairs
<1>5. Pairs(recs) \in SUBSET T
  BY <1>4
<1>6. IsFiniteSet(Pairs(recs))
  <2> HIDE DEF T
  <2> QED BY <1>2, <1>5, FS_Subset
<1> QED BY <1>4, <1>6, FS_CardinalityType DEF None

\* One row more, or both legs, or nothing.
LEMMA NumberNextIs ==
    ASSUME NEW recs \in Seq(Records), \A p \in Pairs(recs) : PairHolds(recs, p),
           NEW out \in Seq(Records), NEW i \in DOMAIN recs
    PROVE  NumberNext(recs, out, i) \in Seq(Records)
<1> DEFINE p   == recs[i].pair
           new == Cardinality(Pairs(out)) + 1
<1>1. recs[i] \in Records
  OBVIOUS
<1>2. new \in Nat
  BY PairsFinite
<1>3. CASE p = None
  BY <1>1, <1>3 DEF NumberNext
<1>4. CASE p # None
  <2>1. PairHolds(recs, p)
    BY <1>4 DEF Pairs
  <2>2. Clean(recs, p, "out", new) \in Records /\ Clean(recs, p, "in", new) \in Records
    <3> HIDE DEF new, p
    <3> QED BY <1>2, <2>1, CleanIs
  <2>3. out \o <<Clean(recs, p, "out", new), Clean(recs, p, "in", new)>> \in Seq(Records)
    BY <2>2
  <2> QED BY <1>4, <2>3 DEF NumberNext
<1> QED BY <1>3, <1>4

\* The numbering goes through the records one by one, and makes records.
LEMMA NumberedIs ==
    ASSUME NEW recs \in Seq(Records), \A p \in Pairs(recs) : PairHolds(recs, p)
    PROVE  \E f \in [0 .. Len(recs) -> Seq(Records)] :
              /\ f[0] = <<>>
              /\ \A k \in 1 .. Len(recs) : f[k] = NumberNext(recs, f[k - 1], k)
              /\ Numbered(recs) = f[Len(recs)]
<1> DEFINE n == Len(recs)
           X == Seq(Records)
           step == [k \in 1 .. n |-> [x \in X |-> NumberNext(recs, x, k)]]
           Rec(f) == f = [k \in 0 .. n |-> IF k = 0 THEN <<>> ELSE NumberNext(recs, f[k - 1], k)]
           g == CHOOSE g : Rec(g)
<1>1. n \in Nat /\ DOMAIN recs = 1 .. n
  OBVIOUS
<1>2. \A k \in 1 .. n : \A x \in X : NumberNext(recs, x, k) \in X
  BY <1>1, NumberNextIs
<1>3. step \in [1 .. n -> [X -> X]]
  BY <1>2
<1> DEFINE x0 == <<>>
<1>4. x0 \in X
  OBVIOUS
<1>5. PICK f \in [0 .. n -> X] : Follows(f, n, x0, step)
  <2>1. n \in Nat /\ x0 \in X /\ step \in [1 .. n -> [X -> X]]
    BY <1>1, <1>3, <1>4
  <2> HIDE DEF X, x0, step, n
  <2> QED BY <2>1, StepsFollow
<1>6. f[0] = <<>> /\ \A k \in 1 .. n : f[k] = step[k][f[k - 1]]
  BY <1>5 DEF Follows
<1>7. \A k \in 1 .. n : f[k] = NumberNext(recs, f[k - 1], k)
  <2> SUFFICES ASSUME NEW k \in 1 .. n PROVE f[k] = NumberNext(recs, f[k - 1], k)
    OBVIOUS
  <2>1. f[k - 1] \in X
    <3>1. k - 1 \in 0 .. n
      BY <1>1
    <3> HIDE DEF X, n
    <3> QED BY <3>1
  <2>2. step[k][f[k - 1]] = NumberNext(recs, f[k - 1], k)
    <3> HIDE DEF X, n
    <3> QED BY <2>1
  <2> QED BY <1>6, <2>2
<1>8. Rec(f)
  <2>1. \A k \in 0 .. n : k = 0 \/ k \in 1 .. n
    BY <1>1
  <2>2. \A k \in 0 .. n : f[k] = IF k = 0 THEN <<>> ELSE NumberNext(recs, f[k - 1], k)
    BY <1>6, <1>7, <2>1
  <2>3. f = [k \in 0 .. n |-> f[k]]
    OBVIOUS
  <2> QED BY <2>2, <2>3
<1>9. Rec(g)
  BY <1>8
<1>10. g[0] = <<>> /\ \A k \in 1 .. n : g[k] = NumberNext(recs, g[k - 1], k)
  <2>1. 0 \in 0 .. n /\ \A k \in 1 .. n : k \in 0 .. n /\ k # 0
    BY <1>1
  <2>2. \A k \in 0 .. n : g[k] = IF k = 0 THEN <<>> ELSE NumberNext(recs, g[k - 1], k)
    <3> HIDE DEF n
    <3>1. g = [k \in 0 .. n |-> IF k = 0 THEN <<>> ELSE NumberNext(recs, g[k - 1], k)]
      BY <1>9
    <3> HIDE DEF g
    <3> QED BY <3>1
  <2> HIDE DEF g
  <2> QED BY <2>1, <2>2
<1>11. DOMAIN g = 0 .. n /\ g = [k \in 0 .. n |-> g[k]]
  <2> HIDE DEF n
  <2>1. g = [k \in 0 .. n |-> IF k = 0 THEN <<>> ELSE NumberNext(recs, g[k - 1], k)]
    BY <1>9
  <2> HIDE DEF g
  <2>2. DOMAIN g = 0 .. n
    BY <2>1
  <2>3. \A k \in 0 .. n : g[k] = IF k = 0 THEN <<>> ELSE NumberNext(recs, g[k - 1], k)
    BY <2>1
  <2> QED BY <2>1, <2>2, <2>3
<1>12. Numbered(recs) = g[n]
  BY DEF Numbered
<1> DEFINE M == {k \in 0 .. n : g[k] = f[k]}
<1>13. \A k \in 0 .. n : k \in M
  <2>1. 0 \in M
    BY <1>1, <1>6, <1>10
  <2>2. \A k \in 1 .. n : k - 1 \in M => k \in M
    <3> HIDE DEF g
    <3> QED BY <1>1, <1>7, <1>10
  <2> HIDE DEF M, n
  <2> QED BY <1>1, <2>1, <2>2, UpToInduction
<1>14. Numbered(recs) = f[n]
  <2>1. n \in 0 .. n
    BY <1>1
  <2> HIDE DEF g
  <2> QED BY <1>12, <1>13, <2>1
<1> QED BY <1>6, <1>7, <1>14


-----------------------------------------------------------------------------
(* A payment without a record looks for one. *)

\* The choice is one of the records that fit, or none.
LEMMA ChosenIs ==
    ASSUME NEW S, Ids(S), NEW choices, Ids(DOMAIN choices),
           \A n \in DOMAIN choices : choices[n] \in SUBSET S
    PROVE  Chosen(choices) \in S \cup {None}
<1> DEFINE some == {n \in DOMAIN choices : choices[n] # {}}
<1>1. CASE some = {}
  BY <1>1 DEF Chosen
<1>2. CASE some # {}
  <2>1. Ids(some)
    BY IdsOfPart
  <2>2. Min(some) \in some
    <3> HIDE DEF some
    <3> QED BY <1>2, <2>1, MinIsMember
  <2>3. choices[Min(some)] # {} /\ choices[Min(some)] \in SUBSET S
    BY <2>2
  <2>4. Ids(choices[Min(some)])
    <3> HIDE DEF some
    <3> QED BY <2>3, IdsOfPart
  <2>5. Min(choices[Min(some)]) \in S
    <3> HIDE DEF some
    <3> QED BY <2>3, <2>4, MinIsMember
  <2>6. Chosen(choices) = Min(choices[Min(some)])
    BY <1>2 DEF Chosen
  <2> QED BY <2>5, <2>6
<1> QED BY <1>1, <1>2

\* A record that fits a payment is none that is taken, and belongs to its debt or to none.
LEMMA FittingAre ==
    ASSUME NEW recs \in Seq(Records), NEW p, NEW used
    PROVE  LET c == RecordChoices(recs, p, used)
               S == {i \in DOMAIN recs \ used :
                        recs[i].key = p.key /\ recs[i].debt \in {None, p.debt}}
           IN  /\ Chosen(c) \in S \cup {None}
               /\ Chosen(<<c[1]>>) \in {i \in S : recs[i].debt = p.debt} \cup {None}
<1> DEFINE c == RecordChoices(recs, p, used)
           S == {i \in DOMAIN recs \ used :
                    recs[i].key = p.key /\ recs[i].debt \in {None, p.debt}}
           T == {i \in S : recs[i].debt = p.debt}
<1>1. Ids(S) /\ Ids(T)
  <2>1. DOMAIN recs = 1 .. Len(recs) /\ Len(recs) \in Nat
    OBVIOUS
  <2>2. Ids(DOMAIN recs) /\ S \in SUBSET DOMAIN recs /\ T \in SUBSET DOMAIN recs
    BY <2>1, IdsOfInterval
  <2> HIDE DEF S, T
  <2> QED BY <2>2, IdsOfPart
<1>2. c[1] \in SUBSET T /\ c[1] \in SUBSET S /\ c[2] \in SUBSET S /\ c[3] \in SUBSET S
  BY DEF RecordChoices
<1>3. DOMAIN c = {1, 2, 3}
  BY DEF RecordChoices
<1>4. DOMAIN <<c[1]>> = {1} /\ <<c[1]>>[1] = c[1]
  OBVIOUS
<1>5. Chosen(c) \in S \cup {None}
  <2>1. \A n \in DOMAIN c : c[n] \in SUBSET S
    BY <1>2, <1>3
  <2>2. Ids(DOMAIN c)
    <3>1. {1, 2, 3} = 1 .. 3
      OBVIOUS
    <3> QED BY <1>3, <3>1, IdsOfInterval
  <2> HIDE DEF c, S, T
  <2> QED BY <1>1, <2>1, <2>2, ChosenIs
<1>6. Chosen(<<c[1]>>) \in T \cup {None}
  <2> DEFINE one == <<c[1]>>
  <2>1. \A n \in DOMAIN one : one[n] \in SUBSET T
    BY <1>2, <1>4
  <2>2. Ids(DOMAIN one)
    <3>1. {1} = 1 .. 1
      OBVIOUS
    <3> QED BY <1>4, <3>1, IdsOfInterval
  <2> HIDE DEF one, c, S, T
  <2>3. Chosen(one) \in T \cup {None}
    BY <1>1, <2>1, <2>2, ChosenIs
  <2> QED BY <2>3 DEF one
<1> QED BY <1>5, <1>6

-----------------------------------------------------------------------------
(* Looking for the records again: only for those of the debt. *)

\* The records that are taken, and the payments.
Links(n) == [used : SUBSET Nat, pays : [1 .. n -> Payments]]

\* Payment k has the record rec next: the one it has, or one of its debt that is not taken.
GetsNext(recs, link, k, rec) ==
    /\ RestoreNext(recs, link, k)
         = [used |-> link.used \cup {rec}, pays |-> [link.pays EXCEPT ![k].rec = rec]]
    /\ link.pays[k].rec \in DOMAIN recs => rec = link.pays[k].rec
    /\ link.pays[k].rec \notin DOMAIN recs /\ rec # None =>
          rec \notin link.used /\ recs[rec].debt = link.pays[k].debt

\* One payment keeps its record, or gets one.
LEMMA RestoreNextIs ==
    ASSUME NEW recs \in Seq(Records), NEW n \in Nat, NEW link \in Links(n), NEW k \in 1 .. n
    PROVE  /\ RestoreNext(recs, link, k) \in Links(n)
           /\ \E rec \in DOMAIN recs \cup {None} : GetsNext(recs, link, k, rec)
<1> DEFINE p   == link.pays[k]
           one == Chosen(<<RecordChoices(recs, p, link.used)[1]>>)
           rec == IF p.rec \in DOMAIN recs THEN p.rec ELSE IF p.off THEN None ELSE one
           new == [used |-> link.used \cup {rec}, pays |-> [link.pays EXCEPT ![k].rec = rec]]
<1>1. RestoreNext(recs, link, k) = new
  BY DEF RestoreNext
<1>2. one # None => one \in DOMAIN recs \ link.used /\ recs[one].debt = p.debt
  <2> HIDE DEF p
  <2> QED BY FittingAre
<1>3. rec \in DOMAIN recs \cup {None}
  <2> HIDE DEF one, p
  <2> QED BY <1>2
<1>4. /\ p.rec \in DOMAIN recs => rec = p.rec
      /\ p.rec \notin DOMAIN recs /\ rec # None => rec \notin link.used /\ recs[rec].debt = p.debt
  <2> HIDE DEF one, p
  <2> QED BY <1>2
<1>5. new \in Links(n)
  <2>1. rec \in Nat
    <3>1. DOMAIN recs \in SUBSET Nat /\ None \in Nat
      BY SeqDef DEF None
    <3> HIDE DEF rec
    <3> QED BY <1>3, <3>1
  <2>2. link.pays \in [1 .. n -> Payments] /\ link.used \in SUBSET Nat
    BY DEF Links
  <2> HIDE DEF rec
  <2>3. [link.pays EXCEPT ![k].rec = rec] \in [1 .. n -> Payments]
    <3>1. link.pays[k] \in Payments
      BY <2>2
    <3>2. [link.pays[k] EXCEPT !.rec = rec] \in Payments
      BY <2>1, <3>1 DEF Payments
    <3>3. [link.pays EXCEPT ![k].rec = rec]
             = [link.pays EXCEPT ![k] = [link.pays[k] EXCEPT !.rec = rec]]
      OBVIOUS
    <3> QED BY <2>2, <3>2, <3>3
  <2> QED BY <2>1, <2>2, <2>3 DEF Links
<1> HIDE DEF rec, new
<1>6. /\ new = [used |-> link.used \cup {rec}, pays |-> [link.pays EXCEPT ![k].rec = rec]]
  BY DEF new
<1>7. GetsNext(recs, link, k, rec)
  <2> HIDE DEF p
  <2>1. RestoreNext(recs, link, k)
         = [used |-> link.used \cup {rec}, pays |-> [link.pays EXCEPT ![k].rec = rec]]
    BY <1>1, <1>6
  <2> QED BY <1>4, <2>1 DEF GetsNext, p
<1> QED BY <1>1, <1>3, <1>5, <1>7

\* What holds after the first k of the payments: they have records that are there, those that
\* had one the same, the others one of their debt; and nothing else changes.
Restoring(recs, pays, link, k) ==
    /\ \A j \in DOMAIN pays : link.pays[j] = [pays[j] EXCEPT !.rec = link.pays[j].rec]
    /\ \A j \in DOMAIN pays : pays[j].rec \in DOMAIN recs => link.pays[j].rec = pays[j].rec
    /\ \A j \in DOMAIN pays :
          pays[j].rec \notin DOMAIN recs /\ link.pays[j].rec \in DOMAIN recs =>
             recs[link.pays[j].rec].debt = pays[j].debt
    /\ \A j \in DOMAIN pays : link.pays[j].rec \in DOMAIN recs => link.pays[j].rec \in link.used
    /\ \A j \in 1 .. k : link.pays[j].rec \in DOMAIN recs \cup {None}
    /\ RecordsApart(pays) => RecordsApart(link.pays)

\* The next payment.
LEMMA RestoringOn ==
    ASSUME NEW recs \in Seq(Records), NEW n \in Nat, NEW pays \in [1 .. n -> Payments],
           NEW link \in Links(n), NEW k \in 1 .. n, Restoring(recs, pays, link, k - 1)
    PROVE  Restoring(recs, pays, RestoreNext(recs, link, k), k)
<1>1. PICK rec \in DOMAIN recs \cup {None} : GetsNext(recs, link, k, rec)
  BY RestoreNextIs
<1>0. /\ link.pays[k].rec \in DOMAIN recs => rec = link.pays[k].rec
      /\ link.pays[k].rec \notin DOMAIN recs /\ rec # None =>
            rec \notin link.used /\ recs[rec].debt = link.pays[k].debt
  BY <1>1 DEF GetsNext
<1> DEFINE new == RestoreNext(recs, link, k)
<1>2. new.used = link.used \cup {rec} /\ new.pays = [link.pays EXCEPT ![k].rec = rec]
  BY <1>1 DEF GetsNext
<1>3. link.pays \in [1 .. n -> Payments] /\ link.used \in SUBSET Nat
  BY DEF Links
<1>4. /\ new.pays[k] = [link.pays[k] EXCEPT !.rec = rec] /\ new.pays[k].rec = rec
      /\ \A j \in 1 .. n : j # k => new.pays[j] = link.pays[j]
  <2>1. link.pays[k] \in Payments
    BY <1>3
  <2>2. new.pays[k] = [link.pays[k] EXCEPT !.rec = rec]
    BY <1>2, <1>3
  <2>3. new.pays[k].rec = rec
    BY <2>1, <2>2 DEF Payments
  <2> QED BY <1>2, <1>3, <2>2, <2>3
<1> HIDE DEF new
<1>5. DOMAIN pays = 1 .. n /\ DOMAIN link.pays = 1 .. n /\ DOMAIN new.pays = 1 .. n
  BY <1>2, <1>3
<1>6. /\ \A j \in 1 .. n : link.pays[j] = [pays[j] EXCEPT !.rec = link.pays[j].rec]
      /\ \A j \in 1 .. n : pays[j].rec \in DOMAIN recs => link.pays[j].rec = pays[j].rec
      /\ \A j \in 1 .. n :
            pays[j].rec \notin DOMAIN recs /\ link.pays[j].rec \in DOMAIN recs =>
               recs[link.pays[j].rec].debt = pays[j].debt
      /\ \A j \in 1 .. n : link.pays[j].rec \in DOMAIN recs => link.pays[j].rec \in link.used
      /\ \A j \in 1 .. k - 1 : link.pays[j].rec \in DOMAIN recs \cup {None}
  BY <1>5 DEF Restoring
<1>7. \A j \in 1 .. n : new.pays[j] = [pays[j] EXCEPT !.rec = new.pays[j].rec]
  <2>1. pays[k] \in Payments /\ link.pays[k] \in Payments
    BY <1>3
  <2>2. link.pays[k] = [pays[k] EXCEPT !.rec = link.pays[k].rec]
    BY <1>6
  <2>3. new.pays[k] = [pays[k] EXCEPT !.rec = rec]
    BY <1>4, <2>1, <2>2 DEF Payments
  <2> QED BY <1>4, <1>6, <2>3
<1>8. link.pays[k].debt = pays[k].debt
  <2>1. pays[k] \in Payments /\ link.pays[k] = [pays[k] EXCEPT !.rec = link.pays[k].rec]
    BY <1>6
  <2> QED BY <2>1 DEF Payments
<1>9. \A j \in 1 .. n : pays[j].rec \in DOMAIN recs => new.pays[j].rec = pays[j].rec
  <2>1. pays[k].rec \in DOMAIN recs => link.pays[k].rec = pays[k].rec /\ rec = pays[k].rec
    BY <1>6, <1>0
  <2> QED BY <1>4, <1>6, <2>1
<1>10. \A j \in 1 .. n :
         pays[j].rec \notin DOMAIN recs /\ new.pays[j].rec \in DOMAIN recs =>
            recs[new.pays[j].rec].debt = pays[j].debt
  <2>1. CASE link.pays[k].rec \in DOMAIN recs
    <3>1. rec = link.pays[k].rec
      BY <1>0, <2>1
    <3>2. pays[k].rec \notin DOMAIN recs => recs[rec].debt = pays[k].debt
      BY <1>6, <2>1, <3>1
    <3> QED BY <1>4, <1>6, <3>2
  <2>2. CASE link.pays[k].rec \notin DOMAIN recs
    <3>1. rec \in DOMAIN recs => rec # None
      BY SeqDef DEF None
    <3>2. rec \in DOMAIN recs => recs[rec].debt = pays[k].debt
      BY <1>8, <1>0, <2>2, <3>1
    <3> QED BY <1>4, <1>6, <3>2
  <2> QED BY <2>1, <2>2
<1>11. \A j \in 1 .. n : new.pays[j].rec \in DOMAIN recs => new.pays[j].rec \in new.used
  BY <1>2, <1>4, <1>6
<1>12. \A j \in 1 .. k : new.pays[j].rec \in DOMAIN recs \cup {None}
  <2>1. \A j \in 1 .. k : j = k \/ (j \in 1 .. k - 1 /\ j \in 1 .. n /\ j # k)
    OBVIOUS
  <2> QED BY <1>4, <1>6, <2>1
<1>13. ASSUME RecordsApart(pays) PROVE RecordsApart(new.pays)
  <2>1. RecordsApart(link.pays)
    BY <1>13 DEF Restoring
  <2>2. \A j \in 1 .. n : j # k /\ link.pays[j].rec = rec => rec = None
    <3> SUFFICES ASSUME NEW j \in 1 .. n, j # k, link.pays[j].rec = rec, rec # None
                 PROVE  FALSE
      OBVIOUS
    <3>1. rec \in DOMAIN recs /\ rec \in link.used
      BY <1>6
    <3>2. link.pays[k].rec = rec
      BY <1>6, <1>0, <3>1
    <3> QED BY <1>5, <2>1, <3>2 DEF RecordsApart
  <2> SUFFICES ASSUME NEW i \in 1 .. n, NEW j \in 1 .. n,
                      new.pays[i].rec = new.pays[j].rec, i # j
               PROVE  new.pays[i].rec = None
    BY <1>5 DEF RecordsApart
  <2> QED BY <1>4, <1>5, <2>1, <2>2 DEF RecordsApart
<1> QED BY <1>5, <1>7, <1>9, <1>10, <1>11, <1>12, <1>13 DEF Restoring, new

\* The payments as they are after records were looked for.
LEMMA RestoredIs ==
    ASSUME NEW recs \in Seq(Records), NEW pays \in Seq(Payments)
    PROVE  \E link \in Links(Len(pays)) :
              /\ Restored(recs, pays) = link.pays
              /\ Restoring(recs, pays, link, Len(pays))
<1> DEFINE n == Len(pays)
           X == Links(n)
           taken == {pays[k].rec : k \in DOMAIN pays} \cap DOMAIN recs
           x0 == [used |-> taken, pays |-> pays]
           step == [k \in 1 .. n |-> [x \in X |-> RestoreNext(recs, x, k)]]
           Rec(f) == f = [k \in 0 .. n |-> IF k = 0 THEN x0 ELSE RestoreNext(recs, f[k - 1], k)]
           g == CHOOSE g : Rec(g)
<1>1. n \in Nat /\ DOMAIN pays = 1 .. n /\ pays \in [1 .. n -> Payments]
  BY SeqDef
<1>2. \A k \in 1 .. n : \A x \in X : RestoreNext(recs, x, k) \in X
  BY <1>1, RestoreNextIs
<1>3. step \in [1 .. n -> [X -> X]]
  BY <1>2
<1>4. x0 \in X
  <2>1. taken \in SUBSET Nat
    BY SeqDef
  <2> HIDE DEF taken, n
  <2> QED BY <1>1, <2>1 DEF Links
<1>5. PICK f \in [0 .. n -> X] : Follows(f, n, x0, step)
  <2>1. n \in Nat /\ x0 \in X /\ step \in [1 .. n -> [X -> X]]
    BY <1>1, <1>3, <1>4
  <2> HIDE DEF X, x0, step, n
  <2> QED BY <2>1, StepsFollow
<1>6. f[0] = x0 /\ \A k \in 1 .. n : f[k] = step[k][f[k - 1]]
  <2> HIDE DEF x0, step, n
  <2> QED BY <1>5 DEF Follows
<1>7. \A k \in 1 .. n : f[k - 1] \in X /\ f[k] = RestoreNext(recs, f[k - 1], k)
  <2> SUFFICES ASSUME NEW k \in 1 .. n
               PROVE  f[k - 1] \in X /\ f[k] = RestoreNext(recs, f[k - 1], k)
    OBVIOUS
  <2>1. f[k - 1] \in X
    <3>1. k - 1 \in 0 .. n
      BY <1>1
    <3> HIDE DEF X, n
    <3> QED BY <3>1
  <2>2. step[k][f[k - 1]] = RestoreNext(recs, f[k - 1], k)
    <3> HIDE DEF X, n
    <3> QED BY <2>1
  <2> HIDE DEF step
  <2> QED BY <1>6, <2>1, <2>2
<1>8. Rec(f)
  <2>1. \A k \in 0 .. n : k = 0 \/ k \in 1 .. n
    BY <1>1
  <2> HIDE DEF x0, X
  <2>2. \A k \in 0 .. n : f[k] = IF k = 0 THEN x0 ELSE RestoreNext(recs, f[k - 1], k)
    BY <1>6, <1>7, <2>1
  <2>3. f = [k \in 0 .. n |-> f[k]]
    OBVIOUS
  <2> QED BY <2>2, <2>3
<1>9. Rec(g)
  <2> HIDE DEF x0, n
  <2> QED BY <1>8
<1>10. g[0] = x0 /\ \A k \in 1 .. n : g[k] = RestoreNext(recs, g[k - 1], k)
  <2>1. 0 \in 0 .. n /\ \A k \in 1 .. n : k \in 0 .. n /\ k # 0
    BY <1>1
  <2> HIDE DEF n, x0
  <2>2. g = [k \in 0 .. n |-> IF k = 0 THEN x0 ELSE RestoreNext(recs, g[k - 1], k)]
    BY <1>9
  <2> HIDE DEF g
  <2> QED BY <2>1, <2>2
<1>11. Restored(recs, pays) = g[n].pays
  BY DEF Restored
<1> DEFINE M == {k \in 0 .. n : g[k] \in X /\ Restoring(recs, pays, g[k], k)}
<1> HIDE DEF g
<1>12. Restoring(recs, pays, x0, 0)
  <2>1. x0.pays = pays /\ x0.used = taken
    OBVIOUS
  <2>2. \A j \in DOMAIN pays : pays[j] = [pays[j] EXCEPT !.rec = pays[j].rec]
    <3>1. \A j \in DOMAIN pays : pays[j] \in Payments
      OBVIOUS
    <3> QED BY <3>1 DEF Payments
  <2>3. \A j \in DOMAIN pays : pays[j].rec \in DOMAIN recs => pays[j].rec \in taken
    OBVIOUS
  <2> HIDE DEF x0, taken
  <2> QED BY <2>1, <2>2, <2>3 DEF Restoring
<1>13. \A k \in 0 .. n : k \in M
  <2>1. 0 \in M
    <3> HIDE DEF x0, X, n
    <3> QED BY <1>1, <1>4, <1>10, <1>12
  <2>2. \A k \in 1 .. n : k - 1 \in M => k \in M
    <3> SUFFICES ASSUME NEW k \in 1 .. n, k - 1 \in M PROVE k \in M
      OBVIOUS
    <3>1. g[k - 1] \in X /\ Restoring(recs, pays, g[k - 1], k - 1) /\ k \in 0 .. n
      BY <1>1
    <3>2. g[k] = RestoreNext(recs, g[k - 1], k)
      BY <1>10
    <3>3. Restoring(recs, pays, g[k], k)
      BY <1>1, <3>1, <3>2, RestoringOn
    <3>4. g[k] \in X
      BY <1>2, <3>1, <3>2
    <3> QED BY <3>1, <3>3, <3>4
  <2> HIDE DEF M, n
  <2> QED BY <1>1, <2>1, <2>2, UpToInduction
<1>14. g[n] \in X /\ Restoring(recs, pays, g[n], n)
  <2>1. n \in 0 .. n
    BY <1>1
  <2> HIDE DEF X, n
  <2> QED BY <1>13, <2>1
<1> QED BY <1>11, <1>14


-----------------------------------------------------------------------------
(* The numbering: every payment is linked to a record of its debt. *)

\* Payments of debts, with one of m records or none.
LinkedPays(m) == {p \in Payments : p.debt \in Debts /\ p.rec \in 0 .. m}

\* The records that are taken, the payments and the records.
Joins(n, m) ==
    [used : SUBSET Nat, pays : [1 .. n -> LinkedPays(m)], recs : [1 .. m -> Records]]

\* The database that is numbered.
Numbering(d, n, m) ==
    /\ n \in Nat /\ m \in Nat
    /\ d.pays \in [1 .. n -> LinkedPays(m)] /\ d.recs \in [1 .. m -> Records]

\* Payment k has the record rec next, and that belongs to its debt.
JoinsNext(d, link, k, rec) ==
    LET p == link.pays[k]
    IN  /\ RelinkNext(d, link, k)
             = [used |-> link.used \cup {rec},
                pays |-> [link.pays EXCEPT ![k].rec = rec],
                recs |-> IF rec # None /\ link.recs[rec].debt = None
                         THEN [link.recs EXCEPT ![rec].debt = p.debt] ELSE link.recs]
        /\ rec \in {None, p.rec} \/ (rec \notin link.used /\ d.recs[rec].debt \in {None, p.debt})
        /\ rec = p.rec /\ rec # None /\ rec \in link.used =>
              link.recs[rec].debt \in {None, p.debt}
        /\ p.rec # None /\ link.recs[p.rec].debt \in {None, p.debt} => rec = p.rec

\* One payment keeps its record or gets one.
LEMMA RelinkNextIs ==
    ASSUME NEW d, NEW n, NEW m, Numbering(d, n, m), NEW link \in Joins(n, m), NEW k \in 1 .. n
    PROVE  /\ RelinkNext(d, link, k) \in Joins(n, m)
           /\ \E rec \in 0 .. m : JoinsNext(d, link, k, rec)
<1> DEFINE p   == link.pays[k]
           fit == Chosen(RecordChoices(d.recs, p, link.used))
           own == IF p.rec # None /\ link.recs[p.rec].debt \in {None, p.debt}
                  THEN p.rec ELSE None
           rec == IF own # None THEN own ELSE fit
           new == [used |-> link.used \cup {rec},
                   pays |-> [link.pays EXCEPT ![k].rec = rec],
                   recs |-> IF rec # None /\ link.recs[rec].debt = None
                            THEN [link.recs EXCEPT ![rec].debt = p.debt] ELSE link.recs]
<1>1. RelinkNext(d, link, k) = new
  BY DEF RelinkNext
<1>2. /\ link.used \in SUBSET Nat /\ link.pays \in [1 .. n -> LinkedPays(m)]
      /\ link.recs \in [1 .. m -> Records] /\ n \in Nat /\ m \in Nat
      /\ d.recs \in [1 .. m -> Records]
  BY DEF Joins, Numbering
<1>3. p \in LinkedPays(m)
  BY <1>2
<1>4. p \in Payments /\ p.debt \in Debts /\ p.rec \in 0 .. m
  BY <1>3 DEF LinkedPays
<1>5. fit # None => fit \in 1 .. m /\ fit \notin link.used /\ d.recs[fit].debt \in {None, p.debt}
  <2>1. d.recs \in Seq(Records) /\ DOMAIN d.recs = 1 .. m
    BY <1>2
  <2> HIDE DEF p
  <2> QED BY <2>1, FittingAre
<1>6. fit \in 0 .. m
  <2> HIDE DEF fit
  <2> QED BY <1>2, <1>5 DEF None
<1>7. rec \in 0 .. m
  <2> HIDE DEF fit, p
  <2> QED BY <1>2, <1>4, <1>6 DEF None
<1>8. /\ rec \in {None, p.rec} \/ (rec \notin link.used /\ d.recs[rec].debt \in {None, p.debt})
      /\ rec = p.rec /\ rec # None /\ rec \in link.used => link.recs[rec].debt \in {None, p.debt}
      /\ p.rec # None /\ link.recs[p.rec].debt \in {None, p.debt} => rec = p.rec
  <2> HIDE DEF fit, p
  <2> QED BY <1>5
<1> HIDE DEF rec
<1>9. [link.pays EXCEPT ![k].rec = rec] \in [1 .. n -> LinkedPays(m)]
  <2>1. [p EXCEPT !.rec = rec] \in LinkedPays(m)
    <3>1. rec \in Nat
      BY <1>2, <1>7
    <3> HIDE DEF p
    <3> QED BY <1>4, <1>7, <3>1 DEF LinkedPays, Payments
  <2>2. [link.pays EXCEPT ![k].rec = rec] = [link.pays EXCEPT ![k] = [p EXCEPT !.rec = rec]]
    OBVIOUS
  <2> HIDE DEF p
  <2> QED BY <1>2, <2>1, <2>2
<1>10. ASSUME rec # None, link.recs[rec].debt = None
       PROVE  [link.recs EXCEPT ![rec].debt = p.debt] \in [1 .. m -> Records]
  <2>1. rec \in 1 .. m
    BY <1>2, <1>7, <1>10 DEF None
  <2>2. link.recs[rec] \in Records
    BY <1>2, <2>1
  <2>3. [link.recs[rec] EXCEPT !.debt = p.debt] \in Records
    <3> HIDE DEF p
    <3> QED BY <1>4, <2>2 DEF Records
  <2>4. [link.recs EXCEPT ![rec].debt = p.debt]
          = [link.recs EXCEPT ![rec] = [link.recs[rec] EXCEPT !.debt = p.debt]]
    OBVIOUS
  <2> HIDE DEF p
  <2> QED BY <1>2, <2>3, <2>4
<1>11. new \in Joins(n, m)
  <2>1. link.used \cup {rec} \in SUBSET Nat
    BY <1>2, <1>7
  <2>2. (IF rec # None /\ link.recs[rec].debt = None
         THEN [link.recs EXCEPT ![rec].debt = p.debt] ELSE link.recs) \in [1 .. m -> Records]
    <3> HIDE DEF p
    <3> QED BY <1>2, <1>10
  <2> HIDE DEF p
  <2> QED BY <1>9, <2>1, <2>2 DEF Joins
<1>12. JoinsNext(d, link, k, rec)
  <2>1. RelinkNext(d, link, k)
          = [used |-> link.used \cup {rec},
             pays |-> [link.pays EXCEPT ![k].rec = rec],
             recs |-> IF rec # None /\ link.recs[rec].debt = None
                      THEN [link.recs EXCEPT ![rec].debt = p.debt] ELSE link.recs]
    BY <1>1
  <2> HIDE DEF new
  <2> QED BY <1>8, <2>1 DEF JoinsNext
<1> HIDE DEF new
<1> QED BY <1>1, <1>7, <1>11, <1>12

\* Payments whose records all belong to their debt, or to none.
WellLinked(recs, pays) ==
    \A j \in DOMAIN pays : pays[j].rec # None => recs[pays[j].rec].debt \in {None, pays[j].debt}

\* What holds after the first k of the payments: those that have a record have one of their debt;
\* no record is taken twice, only records without a debt have got one, and a payment whose record
\* was right has it still.
Joining(d, link, k) ==
    /\ \A j \in DOMAIN d.pays : link.pays[j] = [d.pays[j] EXCEPT !.rec = link.pays[j].rec]
    /\ \A i \in DOMAIN d.recs : link.recs[i] = [d.recs[i] EXCEPT !.debt = link.recs[i].debt]
    /\ \A i \in DOMAIN d.recs : i \notin link.used => link.recs[i] = d.recs[i]
    /\ \A i \in DOMAIN d.recs : d.recs[i].debt # None => link.recs[i].debt = d.recs[i].debt
    /\ \A j \in DOMAIN d.pays : link.pays[j].rec \in link.used
    /\ \A j \in 1 .. k :
          link.pays[j].rec # None => link.recs[link.pays[j].rec].debt = d.pays[j].debt
    /\ RecordsApart(d.pays) => RecordsApart(link.pays)
    /\ RecordsApart(d.pays) /\ WellLinked(d.recs, d.pays) =>
          \A j \in DOMAIN d.pays : d.pays[j].rec # None =>
             /\ link.pays[j].rec = d.pays[j].rec
             /\ link.recs[d.pays[j].rec].debt \in {None, d.pays[j].debt}

\* The next payment.
LEMMA JoiningOn ==
    ASSUME ImportAssumption, NEW d, NEW n, NEW m, Numbering(d, n, m),
           NEW link \in Joins(n, m), NEW k \in 1 .. n, Joining(d, link, k - 1)
    PROVE  Joining(d, RelinkNext(d, link, k), k)
<1>1. PICK rec \in 0 .. m : JoinsNext(d, link, k, rec)
  BY RelinkNextIs
<1> DEFINE new == RelinkNext(d, link, k)
           p   == link.pays[k]
<1>2. /\ rec \in {None, p.rec} \/ (rec \notin link.used /\ d.recs[rec].debt \in {None, p.debt})
      /\ rec = p.rec /\ rec # None /\ rec \in link.used => link.recs[rec].debt \in {None, p.debt}
      /\ p.rec # None /\ link.recs[p.rec].debt \in {None, p.debt} => rec = p.rec
  BY <1>1 DEF JoinsNext
<1>3. /\ new.used = link.used \cup {rec} /\ new.pays = [link.pays EXCEPT ![k].rec = rec]
      /\ new.recs = IF rec # None /\ link.recs[rec].debt = None
                    THEN [link.recs EXCEPT ![rec].debt = p.debt] ELSE link.recs
  BY <1>1 DEF JoinsNext
<1>4. /\ n \in Nat /\ m \in Nat
      /\ d.pays \in [1 .. n -> LinkedPays(m)] /\ d.recs \in [1 .. m -> Records]
      /\ link.pays \in [1 .. n -> LinkedPays(m)] /\ link.recs \in [1 .. m -> Records]
  BY DEF Joins, Numbering
<1>5. /\ DOMAIN d.pays = 1 .. n /\ DOMAIN link.pays = 1 .. n /\ DOMAIN new.pays = 1 .. n
      /\ DOMAIN d.recs = 1 .. m /\ DOMAIN link.recs = 1 .. m
  BY <1>3, <1>4
<1>6. /\ \A j \in 1 .. n : d.pays[j] \in Payments /\ d.pays[j].debt \in Debts
                              /\ d.pays[j].rec \in 0 .. m
      /\ \A j \in 1 .. n : link.pays[j] \in Payments /\ link.pays[j].rec \in 0 .. m
      /\ \A i \in 1 .. m : link.recs[i] \in Records /\ d.recs[i] \in Records
  <2>1. \A j \in 1 .. n : d.pays[j] \in LinkedPays(m) /\ link.pays[j] \in LinkedPays(m)
    BY <1>4
  <2> QED BY <1>4, <2>1 DEF LinkedPays
<1>7. /\ new.pays[k] = [p EXCEPT !.rec = rec] /\ new.pays[k].rec = rec
      /\ \A j \in 1 .. n : j # k => new.pays[j] = link.pays[j]
  <2>1. new.pays[k] = [p EXCEPT !.rec = rec]
    BY <1>3, <1>4
  <2>2. p \in Payments
    BY <1>6
  <2>3. new.pays[k].rec = rec
    <3> HIDE DEF p, new
    <3> QED BY <2>1, <2>2 DEF Payments
  <2> QED BY <1>3, <1>4, <2>1, <2>3
<1>8. \A i \in 1 .. m : i # rec => new.recs[i] = link.recs[i]
  <2> HIDE DEF new, p
  <2> QED BY <1>3, <1>4
<1>9. rec # None =>
         /\ rec \in 1 .. m
         /\ new.recs[rec] = IF link.recs[rec].debt = None
                            THEN [link.recs[rec] EXCEPT !.debt = p.debt] ELSE link.recs[rec]
  <2> HIDE DEF new, p
  <2> QED BY <1>3, <1>4 DEF None
<1>10. /\ \A j \in 1 .. n : link.pays[j] = [d.pays[j] EXCEPT !.rec = link.pays[j].rec]
       /\ \A i \in 1 .. m : link.recs[i] = [d.recs[i] EXCEPT !.debt = link.recs[i].debt]
       /\ \A i \in 1 .. m : i \notin link.used => link.recs[i] = d.recs[i]
       /\ \A i \in 1 .. m : d.recs[i].debt # None => link.recs[i].debt = d.recs[i].debt
       /\ \A j \in 1 .. n : link.pays[j].rec \in link.used
       /\ \A j \in 1 .. k - 1 :
             link.pays[j].rec # None => link.recs[link.pays[j].rec].debt = d.pays[j].debt
  BY <1>5 DEF Joining
<1>11. p \in Payments /\ p.debt = d.pays[k].debt /\ p.debt \in Debts /\ p.debt # None
  <2>1. p = [d.pays[k] EXCEPT !.rec = p.rec] /\ d.pays[k] \in Payments /\ p \in Payments
    BY <1>6, <1>10
  <2>2. p.debt = d.pays[k].debt
    <3> HIDE DEF p
    <3> QED BY <2>1 DEF Payments
  <2>3. \A x \in Debts : x # None
    BY DEF ImportAssumption, None
  <2> QED BY <1>6, <2>1, <2>2, <2>3
<1> HIDE DEF new, p
<1>12. \A j \in 1 .. n : new.pays[j] = [d.pays[j] EXCEPT !.rec = new.pays[j].rec]
  <2>1. p = [d.pays[k] EXCEPT !.rec = p.rec] /\ d.pays[k] \in Payments
    BY <1>6, <1>10 DEF p
  <2>2. new.pays[k] = [d.pays[k] EXCEPT !.rec = rec]
    BY <1>7, <2>1 DEF Payments
  <2> QED BY <1>7, <1>10, <2>2
\* The record that is given belongs to no debt or to the debt of the payment.
<1>13. rec # None => link.recs[rec].debt \in {None, p.debt} /\ new.recs[rec].debt = p.debt
  <2> SUFFICES ASSUME rec # None
               PROVE  link.recs[rec].debt \in {None, p.debt} /\ new.recs[rec].debt = p.debt
    OBVIOUS
  <2>1. rec \in 1 .. m /\ link.recs[rec] \in Records
    BY <1>6, <1>9
  <2>2. link.recs[rec].debt \in {None, p.debt}
    <3>1. CASE rec = p.rec
      <4>1. rec \in link.used
        BY <1>10, <3>1 DEF p
      <4> QED BY <1>2, <3>1, <4>1
    <3>2. CASE rec # p.rec
      <4>1. rec \notin link.used /\ d.recs[rec].debt \in {None, p.debt}
        BY <1>2, <3>2
      <4> QED BY <1>10, <2>1, <4>1
    <3> QED BY <3>1, <3>2
  <2>3. new.recs[rec].debt = p.debt
    <3>1. CASE link.recs[rec].debt = None
      <4>1. new.recs[rec] = [link.recs[rec] EXCEPT !.debt = p.debt]
        BY <1>9, <3>1
      <4> QED BY <2>1, <4>1 DEF Records
    <3>2. CASE link.recs[rec].debt # None
      BY <1>9, <2>2, <3>2
    <3> QED BY <3>1, <3>2
  <2> QED BY <2>2, <2>3
<1>14. \A i \in 1 .. m : new.recs[i] = [d.recs[i] EXCEPT !.debt = new.recs[i].debt]
  <2> SUFFICES ASSUME NEW i \in 1 .. m
               PROVE  new.recs[i] = [d.recs[i] EXCEPT !.debt = new.recs[i].debt]
    OBVIOUS
  <2>1. link.recs[i] = [d.recs[i] EXCEPT !.debt = link.recs[i].debt]
        /\ d.recs[i] \in Records /\ link.recs[i] \in Records
    BY <1>6, <1>10
  <2>2. CASE i # rec \/ link.recs[i].debt # None
    <3>1. new.recs[i] = link.recs[i]
      <4>1. i = rec => rec # None
        BY <1>4 DEF None
      <4> QED BY <1>8, <1>9, <2>2, <4>1
    <3> QED BY <2>1, <3>1
  <2>3. CASE i = rec /\ link.recs[i].debt = None
    <3>1. rec # None
      BY <1>4, <2>3 DEF None
    <3>2. new.recs[i] = [link.recs[i] EXCEPT !.debt = p.debt] /\ new.recs[i].debt = p.debt
      BY <1>9, <1>13, <2>3, <3>1
    <3>3. new.recs[i] = [d.recs[i] EXCEPT !.debt = p.debt]
      BY <2>1, <3>2 DEF Records
    <3> QED BY <3>2, <3>3
  <2> QED BY <2>2, <2>3
<1>15. \A i \in 1 .. m : i \notin new.used => new.recs[i] = d.recs[i]
  BY <1>3, <1>8, <1>10
\* A record that has a debt keeps it.
<1>16. \A i \in 1 .. m : link.recs[i].debt # None => new.recs[i] = link.recs[i]
  <2> SUFFICES ASSUME NEW i \in 1 .. m, link.recs[i].debt # None
               PROVE  new.recs[i] = link.recs[i]
    OBVIOUS
  <2>1. i = rec => rec # None
    BY <1>4 DEF None
  <2> QED BY <1>8, <1>9, <2>1
<1>17. \A i \in 1 .. m : d.recs[i].debt # None => new.recs[i].debt = d.recs[i].debt
  BY <1>10, <1>16
<1>18. \A j \in 1 .. n : new.pays[j].rec \in new.used
  BY <1>3, <1>7, <1>10
<1>19. \A j \in 1 .. k :
         new.pays[j].rec # None => new.recs[new.pays[j].rec].debt = d.pays[j].debt
  <2> SUFFICES ASSUME NEW j \in 1 .. k, new.pays[j].rec # None
               PROVE  new.recs[new.pays[j].rec].debt = d.pays[j].debt
    OBVIOUS
  <2>1. CASE j = k
    BY <1>7, <1>11, <1>13, <2>1
  <2>2. CASE j # k
    <3>1. j \in 1 .. k - 1 /\ j \in 1 .. n /\ new.pays[j] = link.pays[j]
      BY <1>4, <1>7, <2>2
    <3>2. link.recs[link.pays[j].rec].debt = d.pays[j].debt /\ link.pays[j].rec \in 1 .. m
      BY <1>6, <1>10, <3>1 DEF None
    <3>3. d.pays[j].debt # None
      BY <1>6, <3>1 DEF ImportAssumption, None
    <3> QED BY <1>16, <3>1, <3>2, <3>3
  <2> QED BY <2>1, <2>2
\* Nobody else has the record.
<1>20. ASSUME RecordsApart(link.pays)
       PROVE  \A j \in 1 .. n : j # k /\ link.pays[j].rec = rec => rec = None
  <2> SUFFICES ASSUME NEW j \in 1 .. n, j # k, link.pays[j].rec = rec, rec # None
               PROVE  FALSE
    OBVIOUS
  <2>1. rec \in link.used
    BY <1>10
  <2>2. p.rec = rec
    BY <1>2, <2>1
  <2> QED BY <1>5, <1>20, <2>2 DEF RecordsApart, p
<1>21. ASSUME RecordsApart(d.pays) PROVE RecordsApart(new.pays)
  <2>1. RecordsApart(link.pays)
    BY <1>21 DEF Joining
  <2> SUFFICES ASSUME NEW i \in 1 .. n, NEW j \in 1 .. n,
                      new.pays[i].rec = new.pays[j].rec, i # j
               PROVE  new.pays[i].rec = None
    BY <1>5 DEF RecordsApart
  <2> QED BY <1>5, <1>7, <1>20, <2>1 DEF RecordsApart
<1>22. ASSUME RecordsApart(d.pays), WellLinked(d.recs, d.pays)
       PROVE  \A j \in 1 .. n : d.pays[j].rec # None =>
                 /\ new.pays[j].rec = d.pays[j].rec
                 /\ new.recs[d.pays[j].rec].debt \in {None, d.pays[j].debt}
  <2>1. RecordsApart(link.pays)
    BY <1>22 DEF Joining
  <2>2. \A j \in 1 .. n : d.pays[j].rec # None =>
           /\ link.pays[j].rec = d.pays[j].rec
           /\ link.recs[d.pays[j].rec].debt \in {None, d.pays[j].debt}
    BY <1>5, <1>22 DEF Joining
  <2> SUFFICES ASSUME NEW j \in 1 .. n, d.pays[j].rec # None
               PROVE  /\ new.pays[j].rec = d.pays[j].rec
                      /\ new.recs[d.pays[j].rec].debt \in {None, d.pays[j].debt}
    OBVIOUS
  <2>3. /\ link.pays[j].rec = d.pays[j].rec
        /\ link.recs[d.pays[j].rec].debt \in {None, d.pays[j].debt}
        /\ d.pays[j].rec \in 1 .. m
    BY <1>6, <2>2 DEF None
  <2>4. CASE j = k
    <3>1. p.rec = d.pays[j].rec /\ p.debt = d.pays[j].debt
      BY <1>11, <2>3, <2>4 DEF p
    <3>2. rec = d.pays[j].rec
      BY <1>2, <2>3, <3>1
    <3> QED BY <1>7, <1>13, <2>4, <3>1, <3>2
  <2>5. CASE j # k
    <3>1. new.pays[j] = link.pays[j]
      BY <1>7, <2>5
    <3>2. link.pays[j].rec # rec
      BY <1>20, <2>1, <2>3, <2>5
    <3>3. new.recs[d.pays[j].rec] = link.recs[d.pays[j].rec]
      BY <1>8, <2>3, <3>2
    <3> QED BY <2>3, <3>1, <3>3
  <2> QED BY <2>4, <2>5
<1>23. Joining(d, new, k)
  BY <1>5, <1>12, <1>14, <1>15, <1>17, <1>18, <1>19, <1>21, <1>22 DEF Joining
<1> QED BY <1>23 DEF new

\* The links as they are after the numbering.
LEMMA RelinkingIs ==
    ASSUME ImportAssumption, NEW d, NEW n, NEW m, Numbering(d, n, m), d.pays \in Seq(Payments),
           Len(d.pays) = n
    PROVE  Relinking(d) \in Joins(n, m) /\ Joining(d, Relinking(d), n)
<1> DEFINE X == Joins(n, m)
           taken == {d.pays[k].rec : k \in DOMAIN d.pays}
           x0 == [used |-> taken, pays |-> d.pays, recs |-> d.recs]
           step == [k \in 1 .. n |-> [x \in X |-> RelinkNext(d, x, k)]]
           Rec(f) == f = [k \in 0 .. Len(d.pays) |->
                             IF k = 0 THEN x0 ELSE RelinkNext(d, f[k - 1], k)]
           g == CHOOSE g : Rec(g)
<1>1. /\ n \in Nat /\ m \in Nat /\ DOMAIN d.pays = 1 .. n /\ DOMAIN d.recs = 1 .. m
      /\ d.pays \in [1 .. n -> LinkedPays(m)] /\ d.recs \in [1 .. m -> Records]
  BY DEF Numbering
<1>2. \A k \in 1 .. n : \A x \in X : RelinkNext(d, x, k) \in X
  BY <1>1, RelinkNextIs
<1>3. step \in [1 .. n -> [X -> X]]
  BY <1>2
<1>4. x0 \in X
  <2>1. taken \in SUBSET Nat
    <3>1. \A k \in DOMAIN d.pays : d.pays[k] \in LinkedPays(m)
      BY <1>1
    <3> QED BY <1>1, <3>1 DEF LinkedPays
  <2> HIDE DEF taken
  <2> QED BY <1>1, <2>1 DEF Joins
<1>5. PICK f \in [0 .. n -> X] : Follows(f, n, x0, step)
  <2>1. n \in Nat /\ x0 \in X /\ step \in [1 .. n -> [X -> X]]
    BY <1>1, <1>3, <1>4
  <2> HIDE DEF X, x0, step
  <2> QED BY <2>1, StepsFollow
<1>6. f[0] = x0 /\ \A k \in 1 .. n : f[k] = step[k][f[k - 1]]
  <2> HIDE DEF x0, step
  <2> QED BY <1>5 DEF Follows
<1>7. \A k \in 1 .. n : f[k - 1] \in X /\ f[k] = RelinkNext(d, f[k - 1], k)
  <2> SUFFICES ASSUME NEW k \in 1 .. n
               PROVE  f[k - 1] \in X /\ f[k] = RelinkNext(d, f[k - 1], k)
    OBVIOUS
  <2>1. f[k - 1] \in X
    <3>1. k - 1 \in 0 .. n
      BY <1>1
    <3> HIDE DEF X
    <3> QED BY <3>1
  <2>2. step[k][f[k - 1]] = RelinkNext(d, f[k - 1], k)
    <3> HIDE DEF X
    <3> QED BY <2>1
  <2> HIDE DEF step
  <2> QED BY <1>6, <2>1, <2>2
<1>8. Rec(f)
  <2>1. \A k \in 0 .. n : k = 0 \/ k \in 1 .. n
    BY <1>1
  <2> HIDE DEF x0, X
  <2>2. \A k \in 0 .. n : f[k] = IF k = 0 THEN x0 ELSE RelinkNext(d, f[k - 1], k)
    BY <1>6, <1>7, <2>1
  <2>3. f = [k \in 0 .. n |-> f[k]]
    OBVIOUS
  <2> QED BY <2>2, <2>3
<1>9. Rec(g)
  <2> HIDE DEF x0
  <2> QED BY <1>8
<1>10. g[0] = x0 /\ \A k \in 1 .. n : g[k] = RelinkNext(d, g[k - 1], k)
  <2>1. 0 \in 0 .. n /\ \A k \in 1 .. n : k \in 0 .. n /\ k # 0
    BY <1>1
  <2> HIDE DEF x0
  <2>2. g = [k \in 0 .. n |-> IF k = 0 THEN x0 ELSE RelinkNext(d, g[k - 1], k)]
    BY <1>9
  <2> HIDE DEF g
  <2> QED BY <2>1, <2>2
<1>11. Relinking(d) = g[n]
  BY DEF Relinking
<1> DEFINE M == {k \in 0 .. n : g[k] \in X /\ Joining(d, g[k], k)}
<1> HIDE DEF g
<1>12. Joining(d, x0, 0)
  <2>1. x0.pays = d.pays /\ x0.used = taken /\ x0.recs = d.recs
    OBVIOUS
  <2>2. \A j \in DOMAIN d.pays : d.pays[j] = [d.pays[j] EXCEPT !.rec = d.pays[j].rec]
    <3>1. \A j \in DOMAIN d.pays : d.pays[j] \in Payments
      OBVIOUS
    <3> QED BY <3>1 DEF Payments
  <2>3. \A i \in DOMAIN d.recs : d.recs[i] = [d.recs[i] EXCEPT !.debt = d.recs[i].debt]
    <3>1. \A i \in DOMAIN d.recs : d.recs[i] \in Records
      BY <1>1
    <3> QED BY <3>1 DEF Records
  <2>4. \A j \in DOMAIN d.pays : d.pays[j].rec \in taken
    OBVIOUS
  <2>5. WellLinked(d.recs, d.pays) =>
           \A j \in DOMAIN d.pays : d.pays[j].rec # None =>
              d.recs[d.pays[j].rec].debt \in {None, d.pays[j].debt}
    BY DEF WellLinked
  <2> HIDE DEF x0, taken
  <2> QED BY <2>1, <2>2, <2>3, <2>4, <2>5 DEF Joining
<1>13. \A k \in 0 .. n : k \in M
  <2>1. 0 \in M
    <3> HIDE DEF x0, X
    <3> QED BY <1>1, <1>4, <1>10, <1>12
  <2>2. \A k \in 1 .. n : k - 1 \in M => k \in M
    <3> SUFFICES ASSUME NEW k \in 1 .. n, k - 1 \in M PROVE k \in M
      OBVIOUS
    <3>1. g[k - 1] \in X /\ Joining(d, g[k - 1], k - 1) /\ k \in 0 .. n
      BY <1>1
    <3>2. g[k] = RelinkNext(d, g[k - 1], k)
      BY <1>10
    <3>3. Joining(d, g[k], k)
      BY <3>1, <3>2, JoiningOn
    <3>4. g[k] \in X
      BY <1>2, <3>1, <3>2
    <3> QED BY <3>1, <3>3, <3>4
  <2> HIDE DEF M
  <2> QED BY <1>1, <2>1, <2>2, UpToInduction
<1>14. g[n] \in X /\ Joining(d, g[n], n)
  <2>1. n \in 0 .. n
    BY <1>1
  <2> HIDE DEF X
  <2> QED BY <1>13, <2>1
<1> QED BY <1>11, <1>14


-----------------------------------------------------------------------------
(* Transfers are counted by date, then by id. *)

\* The date of a transfer, and which transfers come up to it.
DateOf(recs, q) == recs[Min(LegsOf(recs, q))].key

UpTo(recs, p) ==
    {q \in Pairs(recs) :
        DateOf(recs, q) < DateOf(recs, p) \/ (DateOf(recs, q) = DateOf(recs, p) /\ q <= p)}

\* A transfer has a first leg, and so a date.
LEMMA DateIs ==
    ASSUME NEW recs \in Seq(Records), NEW p \in Pairs(recs)
    PROVE  DateOf(recs, p) \in Int
<1>1. DOMAIN recs = 1 .. Len(recs) /\ Len(recs) \in Nat
  OBVIOUS
<1>2. LegsOf(recs, p) \in SUBSET DOMAIN recs /\ LegsOf(recs, p) # {}
  BY DEF LegsOf, Pairs
<1>3. Ids(LegsOf(recs, p))
  BY <1>1, <1>2, IdsOfInterval
<1>4. Min(LegsOf(recs, p)) \in DOMAIN recs
  BY <1>2, <1>3, MinIsMember
<1>5. recs[Min(LegsOf(recs, p))] \in Records
  BY <1>4
<1> QED BY <1>5 DEF DateOf, Records

\* Of two transfers one comes up to the other but not the other way round.
LEMMA UpToGrows ==
    ASSUME NEW recs \in Seq(Records), NEW p \in Pairs(recs), NEW q \in Pairs(recs), p # q
    PROVE  Cardinality(UpTo(recs, p)) # Cardinality(UpTo(recs, q))
<1>1. ASSUME NEW a \in Pairs(recs), NEW b \in Pairs(recs), a # b,
             DateOf(recs, a) < DateOf(recs, b) \/ (DateOf(recs, a) = DateOf(recs, b) /\ a <= b)
      PROVE  Cardinality(UpTo(recs, a)) # Cardinality(UpTo(recs, b))
  <2>1. \A c \in Pairs(recs) : DateOf(recs, c) \in Int /\ c \in Nat
    BY DateIs, PairsFinite
  <2>2. UpTo(recs, a) \in SUBSET UpTo(recs, b)
    <3> SUFFICES ASSUME NEW c \in UpTo(recs, a) PROVE c \in UpTo(recs, b)
      OBVIOUS
    <3>1. c \in Pairs(recs) /\ (DateOf(recs, c) < DateOf(recs, a)
                                  \/ (DateOf(recs, c) = DateOf(recs, a) /\ c <= a))
      BY DEF UpTo
    <3>2. DateOf(recs, c) < DateOf(recs, b) \/ (DateOf(recs, c) = DateOf(recs, b) /\ c <= b)
      BY <1>1, <2>1, <3>1
    <3> QED BY <3>1, <3>2 DEF UpTo
  <2>3. b \in UpTo(recs, b) /\ b \notin UpTo(recs, a)
    BY <1>1, <2>1 DEF UpTo
  <2>4. IsFiniteSet(UpTo(recs, b))
    BY PairsFinite, FS_Subset DEF UpTo
  <2> QED BY <2>2, <2>3, <2>4, FS_Subset
<1>2. DateOf(recs, p) \in Int /\ DateOf(recs, q) \in Int /\ p \in Nat /\ q \in Nat
  BY DateIs, PairsFinite
<1>3. \/ DateOf(recs, p) < DateOf(recs, q) \/ (DateOf(recs, p) = DateOf(recs, q) /\ p <= q)
      \/ DateOf(recs, q) < DateOf(recs, p) \/ (DateOf(recs, q) = DateOf(recs, p) /\ q <= p)
  BY <1>2
<1> QED BY <1>1, <1>3

\* The new ids of the transfers are those from 1 to their number, each given once.
LEMMA ByDateOnto ==
    ASSUME NEW recs \in Seq(Records)
    PROVE  /\ \A p \in Pairs(recs) : ByDate(recs, p) \in 1 .. Cardinality(Pairs(recs))
           /\ \A p, q \in Pairs(recs) : ByDate(recs, p) = ByDate(recs, q) => p = q
           /\ \A k \in 1 .. Cardinality(Pairs(recs)) :
                 \E p \in Pairs(recs) : ByDate(recs, p) = k
           /\ ByDate(recs, None) = None
<1> DEFINE S == Pairs(recs)
           N == 1 .. Cardinality(S)
           f == [p \in S |-> Cardinality(UpTo(recs, p))]
<1>1. IsFiniteSet(S) /\ Cardinality(S) \in Nat
  BY PairsFinite
<1>2. \A p \in S : ByDate(recs, p) = Cardinality(UpTo(recs, p))
  BY DEF ByDate, UpTo, DateOf, Pairs
<1>3. \A p \in S : Cardinality(UpTo(recs, p)) \in N
  <2> SUFFICES ASSUME NEW p \in S PROVE Cardinality(UpTo(recs, p)) \in N
    OBVIOUS
  <2>1. UpTo(recs, p) \in SUBSET S
    BY DEF UpTo
  <2>2. p \in UpTo(recs, p)
    BY DateIs, PairsFinite DEF UpTo
  <2>3. IsFiniteSet(UpTo(recs, p)) /\ Cardinality(UpTo(recs, p)) <= Cardinality(S)
    <3> HIDE DEF S
    <3> QED BY <1>1, <2>1, FS_Subset
  <2>4. Cardinality(UpTo(recs, p)) \in Nat /\ Cardinality(UpTo(recs, p)) # 0
    BY <2>2, <2>3, FS_CardinalityType, FS_EmptySet
  <2> HIDE DEF S
  <2> QED BY <1>1, <2>3, <2>4
<1>4. f \in Injection(S, N)
  <2>1. f \in [S -> N]
    BY <1>3
  <2>2. \A p, q \in S : f[p] = f[q] => p = q
    BY UpToGrows
  <2> HIDE DEF f, S, N
  <2> QED BY <2>1, <2>2 DEF Injection, IsInjective
<1>5. IsFiniteSet(N) /\ Cardinality(N) = Cardinality(S)
  BY <1>1, FS_Interval
<1>6. f \in Surjection(S, N)
  <2> HIDE DEF f, S, N
  <2> QED BY <1>4, <1>5, FS_Injection
<1>7. \A k \in N : \E p \in S : f[p] = k
  <2> HIDE DEF f, S, N
  <2> QED BY <1>6 DEF Surjection
<1>8. \A p, q \in S : f[p] = f[q] => p = q
  BY UpToGrows
<1>9. ByDate(recs, None) = None
  BY DEF ByDate
<1>10. \A p \in S : f[p] = ByDate(recs, p) /\ f[p] \in N
  BY <1>2, <1>3
<1> HIDE DEF f
<1> QED BY <1>7, <1>8, <1>9, <1>10

-----------------------------------------------------------------------------
(* The database after the numbering. *)

\* The numbering gives the transfers the ids from 1, and changes nothing else of a record but a
\* missing debt.
LEMMA RelinkedIs ==
    ASSUME ImportAssumption, NEW d, DatabaseOK(d)
    PROVE  LET link == Relinking(d)
               n == Len(d.pays)
               m == Len(d.recs)
           IN  /\ Numbering(d, n, m)
               /\ link \in Joins(n, m) /\ Joining(d, link, n)
               /\ Relinked(d) = [d EXCEPT !.recs = Relinked(d).recs, !.pays = link.pays]
               /\ Relinked(d).recs \in Seq(Records) /\ Len(Relinked(d).recs) = m
               /\ \A i \in DOMAIN d.recs :
                     Relinked(d).recs[i] =
                        [link.recs[i] EXCEPT !.pair = ByDate(d.recs, d.recs[i].pair)]
               /\ Pairs(Relinked(d).recs) = 1 .. Cardinality(Pairs(d.recs))
<1> DEFINE link == Relinking(d)
           n == Len(d.pays)
           m == Len(d.recs)
           recs == [i \in DOMAIN d.recs |->
                       [link.recs[i] EXCEPT !.pair = ByDate(d.recs, d.recs[i].pair)]]
<1>1. /\ d.recs \in Seq(Records) /\ d.pays \in Seq(Payments)
      /\ \A k \in DOMAIN d.pays :
            d.pays[k].debt \in Debts /\ d.pays[k].rec \in DOMAIN d.recs \cup {None}
      /\ d \in [recs: Seq(Records), pays: Seq(Payments), debts: SUBSET Debts,
                templates: Seq(STRING), relaxed: BOOLEAN, extra: BOOLEAN]
  BY DEF DatabaseOK
<1>2. /\ n \in Nat /\ m \in Nat /\ DOMAIN d.pays = 1 .. n /\ DOMAIN d.recs = 1 .. m
      /\ d.recs \in [1 .. m -> Records] /\ d.pays \in [1 .. n -> Payments]
  BY <1>1, SeqDef
<1>3. Numbering(d, n, m)
  <2>1. \A k \in 1 .. n : d.pays[k] \in LinkedPays(m)
    BY <1>1, <1>2 DEF LinkedPays, None
  <2>2. d.pays \in [1 .. n -> LinkedPays(m)]
    <3> HIDE DEF n, m
    <3> QED BY <1>2, <2>1
  <2> HIDE DEF n, m
  <2> QED BY <1>2, <2>2 DEF Numbering
<1>4. link \in Joins(n, m) /\ Joining(d, link, n)
  <2> HIDE DEF m
  <2> QED BY <1>1, <1>3, RelinkingIs
<1>5. Relinked(d) = [d EXCEPT !.recs = recs, !.pays = link.pays]
  BY DEF Relinked
<1>6. Relinked(d).recs = recs
  <2> HIDE DEF recs, link
  <2> QED BY <1>1, <1>5
<1>7. link.recs \in [1 .. m -> Records]
  <2> HIDE DEF link, n, m
  <2> QED BY <1>4 DEF Joins
<1>8. \A i \in 1 .. m : ByDate(d.recs, d.recs[i].pair) \in Nat
  <2> SUFFICES ASSUME NEW i \in 1 .. m PROVE ByDate(d.recs, d.recs[i].pair) \in Nat
    OBVIOUS
  <2>1. CASE d.recs[i].pair = None
    BY <1>1, <2>1, ByDateOnto DEF None
  <2>2. CASE d.recs[i].pair # None
    <3>1. d.recs[i].pair \in Pairs(d.recs)
      BY <1>2, <2>2 DEF Pairs
    <3>2. ByDate(d.recs, d.recs[i].pair) \in 1 .. Cardinality(Pairs(d.recs))
      BY <1>1, <3>1, ByDateOnto
    <3> QED BY <1>1, <3>2, PairsFinite
  <2> QED BY <2>1, <2>2
<1>9. \A i \in 1 .. m : recs[i] = [link.recs[i] EXCEPT !.pair = ByDate(d.recs, d.recs[i].pair)]
  BY <1>2
<1>10. \A i \in 1 .. m : recs[i] \in Records /\ recs[i].pair = ByDate(d.recs, d.recs[i].pair)
  <2> SUFFICES ASSUME NEW i \in 1 .. m
               PROVE  recs[i] \in Records /\ recs[i].pair = ByDate(d.recs, d.recs[i].pair)
    OBVIOUS
  <2>1. link.recs[i] \in Records
    BY <1>7
  <2> HIDE DEF recs, link, m
  <2> QED BY <1>8, <1>9, <2>1 DEF Records
<1>11. DOMAIN recs = 1 .. m
  BY <1>2
<1> HIDE DEF recs, link
<1>12. recs \in Seq(Records) /\ Len(recs) = m
  <2>1. recs = [i \in 1 .. m |-> recs[i]]
    BY <1>2 DEF recs
  <2> HIDE DEF m
  <2> QED BY <1>2, <1>10, <2>1
<1>13. Pairs(recs) = 1 .. Cardinality(Pairs(d.recs))
  <2>1. /\ \A p \in Pairs(d.recs) : ByDate(d.recs, p) \in 1 .. Cardinality(Pairs(d.recs))
        /\ \A k \in 1 .. Cardinality(Pairs(d.recs)) : \E p \in Pairs(d.recs) : ByDate(d.recs, p) = k
        /\ ByDate(d.recs, None) = None
        /\ Cardinality(Pairs(d.recs)) \in Nat
    BY <1>1, ByDateOnto, PairsFinite
  <2>2. ASSUME NEW k \in Pairs(recs) PROVE k \in 1 .. Cardinality(Pairs(d.recs))
    <3>1. PICK i \in 1 .. m : recs[i].pair = k /\ k # None
      BY <1>11 DEF Pairs
    <3>2. ByDate(d.recs, d.recs[i].pair) = k
      BY <1>10, <3>1
    <3>3. d.recs[i].pair \in Pairs(d.recs)
      BY <1>2, <2>1, <3>1, <3>2 DEF Pairs
    <3> QED BY <2>1, <3>2, <3>3
  <2>3. ASSUME NEW k \in 1 .. Cardinality(Pairs(d.recs)) PROVE k \in Pairs(recs)
    <3>1. PICK p \in Pairs(d.recs) : ByDate(d.recs, p) = k
      BY <2>1
    <3>2. PICK i \in 1 .. m : d.recs[i].pair = p
      BY <1>2 DEF Pairs
    <3>3. recs[i].pair = k
      BY <1>10, <3>1, <3>2
    <3>4. k # None
      BY <2>1 DEF None
    <3> QED BY <1>11, <3>3, <3>4 DEF Pairs
  <2> QED BY <2>2, <2>3
<1>14. Relinked(d) = [d EXCEPT !.recs = Relinked(d).recs, !.pays = link.pays]
  BY <1>5, <1>6
<1>15. \A i \in 1 .. m :
         Relinked(d).recs[i] = [link.recs[i] EXCEPT !.pair = ByDate(d.recs, d.recs[i].pair)]
  BY <1>6, <1>9 DEF recs
<1> QED BY <1>2, <1>3, <1>4, <1>6, <1>12, <1>13, <1>14, <1>15 DEF link


-----------------------------------------------------------------------------
(* What a commit makes of the database. *)

\* A function on 1..n is a sequence.
LEMMA SeqOfFunction ==
    ASSUME NEW S, NEW n \in Nat, NEW f \in [1 .. n -> S]
    PROVE  f \in Seq(S) /\ Len(f) = n /\ DOMAIN f = 1 .. n
<1>1. f = [k \in 1 .. n |-> f[k]] /\ \A k \in 1 .. n : f[k] \in S
  OBVIOUS
<1> QED BY <1>1

\* What a payment p is after records were looked for: it has its own one, or one of its debt.
SameButRecord(recs, p, new) ==
    /\ new = [p EXCEPT !.rec = new.rec]
    /\ new.debt = p.debt /\ new.debt \in Debts
    /\ new.rec \in DOMAIN recs \cup {None}
    /\ p.rec \in DOMAIN recs => new.rec = p.rec
    /\ p.rec \notin DOMAIN recs /\ new.rec # None => recs[new.rec].debt = p.debt

\* Looking for records again keeps the payments and the records they have.
LEMMA RestoredPays ==
    ASSUME NEW recs \in Seq(Records), NEW pays \in Seq(Payments),
           \A k \in DOMAIN pays : pays[k].debt \in Debts
    PROVE  /\ Restored(recs, pays) \in Seq(Payments)
           /\ DOMAIN Restored(recs, pays) = DOMAIN pays
           /\ \A k \in DOMAIN pays :
                 SameButRecord(recs, pays[k], Restored(recs, pays)[k])
           /\ RecordsApart(pays) => RecordsApart(Restored(recs, pays))
<1> DEFINE n == Len(pays)
           new == Restored(recs, pays)
<1>1. n \in Nat /\ DOMAIN pays = 1 .. n
  OBVIOUS
<1>2. PICK link \in Links(n) : new = link.pays /\ Restoring(recs, pays, link, n)
  BY RestoredIs
<1>3. new \in [1 .. n -> Payments]
  BY <1>2 DEF Links
<1> HIDE DEF new
<1>4. new \in Seq(Payments) /\ DOMAIN new = DOMAIN pays
  <2>1. new = [k \in 1 .. n |-> new[k]]
    BY <1>3
  <2>2. \A k \in 1 .. n : new[k] \in Payments
    BY <1>3
  <2> HIDE DEF n
  <2> QED BY <1>1, <2>1, <2>2
<1>5. /\ \A k \in DOMAIN pays : new[k] = [pays[k] EXCEPT !.rec = new[k].rec]
      /\ \A k \in DOMAIN pays : pays[k].rec \in DOMAIN recs => new[k].rec = pays[k].rec
      /\ \A k \in DOMAIN pays : pays[k].rec \notin DOMAIN recs /\ new[k].rec \in DOMAIN recs =>
            recs[new[k].rec].debt = pays[k].debt
      /\ \A k \in 1 .. n : new[k].rec \in DOMAIN recs \cup {None}
      /\ RecordsApart(pays) => RecordsApart(new)
  BY <1>2 DEF Restoring
<1>6. \A k \in DOMAIN pays : new[k].debt = pays[k].debt
  <2>1. \A k \in DOMAIN pays : pays[k] \in Payments
    OBVIOUS
  <2> HIDE DEF n
  <2> QED BY <1>5, <2>1 DEF Payments
<1>7. \A k \in DOMAIN pays : SameButRecord(recs, pays[k], new[k])
  <2> HIDE DEF n
  <2> QED BY <1>1, <1>5, <1>6 DEF SameButRecord
<1> QED BY <1>4, <1>5, <1>7 DEF new

\* A database, by its parts.
LEMMA DatabaseIs ==
    ASSUME NEW d
    PROVE  DatabaseOK(d) <=>
             /\ d = [recs |-> d.recs, pays |-> d.pays, debts |-> d.debts,
                     templates |-> d.templates, relaxed |-> d.relaxed, extra |-> d.extra]
             /\ d.recs \in Seq(Records) /\ d.pays \in Seq(Payments)
             /\ d.debts \in SUBSET Debts /\ d.templates \in Seq(STRING)
             /\ d.relaxed \in BOOLEAN /\ d.extra \in BOOLEAN
             /\ \A k \in DOMAIN d.pays :
                   d.pays[k].debt \in Debts /\ d.pays[k].rec \in DOMAIN d.recs \cup {None}
BY DEF DatabaseOK

\* The database that a successful import leaves has none, and no record is taken twice.
LEMMA NumberedWhole ==
    ASSUME ImportAssumption, NEW d, DatabaseOK(d), RecordsApart(d.pays), NEW e,
           ~ReplaceRaises(Relinked(d).recs, Relinked(d).debts),
           e = [Relinked(d) EXCEPT !.pays = Restored(Relinked(d).recs, Relinked(d).pays)]
    PROVE  /\ DatabaseOK(e) /\ RecordsApart(e.pays) /\ e.relaxed = d.relaxed
           /\ NoLooseEnds(e)
<1> DEFINE link == Relinking(d)
           n == Len(d.pays)
           m == Len(d.recs)
           recs == Relinked(d).recs
           pays == Restored(recs, link.pays)
<1>1. /\ Numbering(d, n, m) /\ link \in Joins(n, m) /\ Joining(d, link, n)
      /\ Relinked(d) = [d EXCEPT !.recs = recs, !.pays = link.pays]
      /\ recs \in Seq(Records) /\ Len(recs) = m
      /\ \A i \in DOMAIN d.recs :
            recs[i] = [link.recs[i] EXCEPT !.pair = ByDate(d.recs, d.recs[i].pair)]
      /\ Pairs(recs) = 1 .. Cardinality(Pairs(d.recs))
  BY RelinkedIs
<1> HIDE DEF link, recs, pays
<1>2. /\ n \in Nat /\ m \in Nat /\ DOMAIN d.pays = 1 .. n /\ DOMAIN d.recs = 1 .. m
      /\ link.pays \in [1 .. n -> LinkedPays(m)] /\ link.recs \in [1 .. m -> Records]
      /\ d.pays \in [1 .. n -> LinkedPays(m)] /\ DOMAIN recs = 1 .. m
  <2>1. /\ d.recs \in Seq(Records) /\ d.pays \in Seq(Payments)
    BY DEF DatabaseOK
  <2> QED BY <1>1, <2>1 DEF Numbering, Joins
<1> HIDE DEF n, m
<1>3. /\ link.pays \in Seq(Payments) /\ DOMAIN link.pays = 1 .. n
      /\ \A k \in 1 .. n : link.pays[k].debt \in Debts /\ link.pays[k].rec \in 0 .. m
  <2>1. \A k \in 1 .. n : link.pays[k] \in Payments
                          /\ link.pays[k].debt \in Debts /\ link.pays[k].rec \in 0 .. m
    BY <1>2 DEF LinkedPays
  <2>2. link.pays \in [1 .. n -> Payments]
    BY <1>2, <2>1
  <2>3. link.pays \in Seq(Payments)
    BY <1>2, <2>2, SeqOfFunction
  <2> QED BY <1>2, <2>1, <2>3
<1>4. /\ pays \in Seq(Payments) /\ DOMAIN pays = 1 .. n
      /\ \A k \in 1 .. n : SameButRecord(recs, link.pays[k], pays[k])
      /\ RecordsApart(link.pays) => RecordsApart(pays)
  BY <1>1, <1>3, RestoredPays DEF pays
<1>5. RecordsApart(pays)
  BY <1>1, <1>4 DEF Joining
<1>6. d \in [recs: Seq(Records), pays: Seq(Payments), debts: SUBSET Debts,
              templates: Seq(STRING), relaxed: BOOLEAN, extra: BOOLEAN]
  BY DEF DatabaseOK
<1>7. Relinked(d).pays = link.pays /\ Relinked(d).recs = recs
  BY <1>1, <1>6
<1>8. e = [d EXCEPT !.recs = recs, !.pays = pays]
  BY <1>1, <1>6, <1>7 DEF pays
<1>9. /\ e.recs = recs /\ e.pays = pays /\ e.debts = d.debts /\ e.templates = d.templates
      /\ e.relaxed = d.relaxed /\ e.extra = d.extra
      /\ e = [recs |-> e.recs, pays |-> e.pays, debts |-> e.debts,
              templates |-> e.templates, relaxed |-> e.relaxed, extra |-> e.extra]
  BY <1>6, <1>8
<1>10. DatabaseOK(e)
  <2>1. d.debts \in SUBSET Debts /\ d.templates \in Seq(STRING) /\ d.relaxed \in BOOLEAN
        /\ d.extra \in BOOLEAN
    BY <1>6
  <2>2. \A k \in DOMAIN pays : pays[k].debt \in Debts /\ pays[k].rec \in DOMAIN recs \cup {None}
    BY <1>4 DEF SameButRecord
  <2> QED BY <1>1, <1>4, <1>9, <2>1, <2>2, DatabaseIs
<1>11. \A p \in Pairs(recs) : PairHolds(recs, p)
  BY <1>7 DEF ReplaceRaises
<1>12. Pairs(recs) = 1 .. Cardinality(Pairs(recs))
  <2>1. Cardinality(Pairs(d.recs)) \in Nat
    BY <1>6, PairsFinite
  <2> DEFINE c == Cardinality(Pairs(d.recs))
  <2>2. Cardinality(1 .. c) = c
    <3> HIDE DEF c
    <3> QED BY <2>1, FS_Interval DEF c
  <2> QED BY <1>1, <2>2
<1>13. \A i \in 1 .. m : recs[i].debt = link.recs[i].debt
  <2> SUFFICES ASSUME NEW i \in 1 .. m PROVE recs[i].debt = link.recs[i].debt
    OBVIOUS
  <2>1. /\ link.recs[i] \in Records
        /\ recs[i] = [link.recs[i] EXCEPT !.pair = ByDate(d.recs, d.recs[i].pair)]
    BY <1>1, <1>2
  <2> QED BY <2>1 DEF Records
<1>14. \A k \in 1 .. n : pays[k].rec # None => recs[pays[k].rec].debt = pays[k].debt
  <2> SUFFICES ASSUME NEW k \in 1 .. n, pays[k].rec # None
               PROVE  recs[pays[k].rec].debt = pays[k].debt
    OBVIOUS
  <2>1. CASE link.pays[k].rec \in DOMAIN recs
    <3>1. pays[k].rec = link.pays[k].rec /\ pays[k].rec \in 1 .. m
      BY <1>2, <1>4, <2>1 DEF SameButRecord
    <3>2. link.recs[link.pays[k].rec].debt = d.pays[k].debt
      BY <1>1, <3>1 DEF Joining
    <3>3. link.pays[k].debt = d.pays[k].debt
      <4>1. link.pays[k] = [d.pays[k] EXCEPT !.rec = link.pays[k].rec]
        BY <1>1, <1>2 DEF Joining
      <4>2. d.pays[k] \in Payments
        BY <1>2 DEF LinkedPays
      <4> QED BY <4>1, <4>2 DEF Payments
    <3> QED BY <1>4, <1>13, <3>1, <3>2, <3>3 DEF SameButRecord
  <2>2. CASE link.pays[k].rec \notin DOMAIN recs
    BY <1>4, <2>2 DEF SameButRecord
  <2> QED BY <2>1, <2>2
<1>15. NoLooseEnds(e)
  BY <1>4, <1>9, <1>11, <1>12, <1>14 DEF NoLooseEnds
<1> QED BY <1>5, <1>9, <1>10, <1>15


-----------------------------------------------------------------------------
(* What holds between the steps. *)

\* The file is one that can be read, and its payments have different records.
FileHeld ==
    session.at \in Steps => OpenFile(session.file) /\ RecordsApart(session.file.pays)

TemplatesLeft == InStep("templates") => session.todo \in Seq(STRING)

\* No record is taken twice, in the database or in the copy.
Apart == RecordsApart(database.pays) /\ RecordsApart(snapshot.pays)

\* While records are replaced in bulk, and after the last operation, the limits are those
\* from before.
LimitsKept ==
    session.at \in {"replace", "sections", "number"} => database.relaxed = began.relaxed

WInv == ImportTypeOK /\ FileHeld /\ TemplatesLeft /\ Apart /\ LimitsKept

\* A successful import leaves a whole database.
EndsWhole ==
    Ends("done") /\ InStep("number") =>
        /\ NoLooseEnds(database') /\ RecordsApart(database'.pays)
        /\ database'.relaxed = began.relaxed

\* At the beginning nothing is under way.
LEMMA InitWhole ==
    ASSUME ImportAssumption, RecordsApartAtFirst, ImportInit PROVE WInv
<1>1. session.at = "idle"
  BY DEF ImportInit, Idle
<1> QED
  BY <1>1 DEF ImportInit, ImportAssumption, RecordsApartAtFirst, WInv, ImportTypeOK, FileHeld,
     TemplatesLeft, Apart, LimitsKept, InStep, Steps

\* An import that is under way has a file and something left to do.
LEMMA UnderWay ==
    ASSUME Session, session.at \in Steps, NEW step, NEW todo
    PROVE  /\ session' = [session EXCEPT !.at = step] =>
                session'.at = step /\ session'.file = session.file /\ session'.todo = session.todo
           /\ session' = [session EXCEPT !.at = step, !.todo = todo] =>
                session'.at = step /\ session'.file = session.file /\ session'.todo = todo
           /\ session' = [session EXCEPT !.todo = todo] =>
                session'.at = session.at /\ session'.file = session.file /\ session'.todo = todo
<1>1. PICK old, f, policy, left :
        session = [at |-> old, file |-> f, policy |-> policy, todo |-> left]
  BY DEF Session, Idle, Steps
<1> QED BY <1>1

\* The parts of the invariant after a step.
LEMMA WholeAfter ==
    ASSUME DatabaseOK(database'), DatabaseOK(snapshot'), DatabaseOK(began'),
           RecordsApart(database'.pays), RecordsApart(snapshot'.pays),
           session'.at \in Steps => OpenFile(session'.file) /\ RecordsApart(session'.file.pays),
           session'.at = "create" => session'.todo \in Seq(Records),
           session'.at = "templates" => session'.todo \in Seq(STRING),
           session'.at \in {"replace", "sections", "number"} => database'.relaxed = began'.relaxed
    PROVE  WInv'
BY DEF WInv, ImportTypeOK, FileHeld, TemplatesLeft, Apart, LimitsKept, InStep

\* A step that ends the import leaves a database and a copy.
LEMMA OverWhole ==
    ASSUME NEW result, session' = Idle(result), DatabaseOK(database'), DatabaseOK(snapshot'),
           DatabaseOK(began'), RecordsApart(database'.pays), RecordsApart(snapshot'.pays)
    PROVE  WInv'
<1>1. session'.at = "idle"
  BY DEF Idle
<1> QED BY <1>1, WholeAfter DEF Steps

\* A file the user may choose can be opened, and so can its templates.
LEMMA FilesOpen ==
    ASSUME ImportAssumption, RecordsApartAtFirst, NEW f \in Files
    PROVE  /\ OpenFile(f) /\ RecordsApart(f.pays)
           /\ OpenFile([f EXCEPT !.type = "templates"])
           /\ RecordsApart([f EXCEPT !.type = "templates"].pays)
<1>1. f \in [type: {"json", "csv", "xlsx"}, rows: Seq(FileRows), pays: Seq(Payments),
             debts: SUBSET Debts, hasDebts: BOOLEAN, wallets: BOOLEAN,
             templates: Seq(STRING), extra: BOOLEAN]
  BY DEF ImportAssumption, FileOK
<1>2. OpenFile(f) /\ OpenFile([f EXCEPT !.type = "templates"])
  BY <1>1 DEF OpenFile
<1>3. [f EXCEPT !.type = "templates"].pays = f.pays
  BY <1>1
<1> QED BY <1>2, <1>3 DEF RecordsApartAtFirst

\* Databases of the invariant.
LEMMA WholeHolds ==
    ASSUME WInv
    PROVE  /\ DatabaseOK(database) /\ DatabaseOK(snapshot) /\ DatabaseOK(began)
           /\ RecordsApart(database.pays) /\ RecordsApart(snapshot.pays)
           /\ session.at \in Steps => OpenFile(session.file) /\ RecordsApart(session.file.pays)
           /\ session.at = "create" => session.todo \in Seq(Records)
           /\ session.at = "templates" => session.todo \in Seq(STRING)
           /\ session.at \in {"replace", "sections", "number"} => database.relaxed = began.relaxed
BY DEF WInv, ImportTypeOK, FileHeld, TemplatesLeft, Apart, LimitsKept, InStep

\* The preview, and an import that is not confirmed.
LEMMA ChooseWhole ==
    ASSUME ImportAssumption, RecordsApartAtFirst, WInv,
           NEW f \in Files, NEW policy, Choose(f, policy)
    PROVE  WInv'
<1>1. UNCHANGED <<database, snapshot, began>>
  BY DEF Choose
<1>2. CASE session' = Idle("failed")
  BY <1>1, <1>2, WholeHolds, OverWhole
<1>3. CASE session' = [at |-> "preview", file |-> f, policy |-> policy, todo |-> <<>>]
  <2>1. session'.at = "preview" /\ session'.file = f
    BY <1>3
  <2> QED BY <1>1, <2>1, FilesOpen, WholeHolds, WholeAfter DEF Steps
<1> QED BY <1>2, <1>3 DEF Choose

\* The file is read again.
LEMMA ConfirmWhole ==
    ASSUME ImportAssumption, RecordsApartAtFirst, Session, WInv, NEW f \in Files, Confirm(f)
    PROVE  WInv'
<1>1. UNCHANGED <<database, snapshot>> /\ began' = database /\ session.at = "preview"
  BY DEF Confirm, InStep
<1>2. CASE session' = Idle("failed")
  BY <1>1, <1>2, WholeHolds, OverWhole
<1>3. CASE session' = [session EXCEPT !.at = "open", !.file = f]
  <2>1. PICK old, g, policy, todo :
          session = [at |-> old, file |-> g, policy |-> policy, todo |-> todo]
    BY <1>1 DEF Session, Idle
  <2>2. session'.at = "open" /\ session'.file = f
    BY <1>3, <2>1
  <2> QED BY <1>1, <2>2, FilesOpen, WholeHolds, WholeAfter DEF Steps
<1> QED BY <1>2, <1>3 DEF Confirm

\* Templates need no preview.
LEMMA MandatoryWhole ==
    ASSUME ImportAssumption, RecordsApartAtFirst, WInv, NEW f \in Files, ImportMandatory(f)
    PROVE  WInv'
<1>1. UNCHANGED <<database, snapshot>> /\ began' = database
  BY DEF ImportMandatory
<1>2. session'.at = "open" /\ session'.file = [f EXCEPT !.type = "templates"]
  BY DEF ImportMandatory
<1> QED BY <1>1, <1>2, FilesOpen, WholeHolds, WholeAfter DEF Steps

\* The copy is taken.
LEMMA OpenWhole == ASSUME IInv, WInv, Open PROVE WInv'
<1>1. snapshot' = database /\ UNCHANGED <<database, began>> /\ session.at = "open"
  BY DEF Open, InStep
<1>2. CASE session' = Idle("done")
  BY <1>1, <1>2, WholeHolds, OverWhole
<1>3. CASE \E step \in {"reset", "replace"} : Proceeds(step)
  <2>1. PICK step \in {"reset", "replace"} : session' = [session EXCEPT !.at = step]
    BY <1>3 DEF Proceeds
  <2>2. session'.at = step /\ session'.file = session.file
    BY <1>1, <2>1, UnderWay DEF IInv, Steps
  <2>3. database = began
    BY <1>1 DEF IInv, Copied, InStep
  <2>4. OpenFile(session.file) /\ RecordsApart(session.file.pays)
    BY <1>1, WholeHolds DEF Steps
  <2> QED BY <1>1, <2>2, <2>3, <2>4, WholeHolds, WholeAfter
<1> QED BY <1>2, <1>3 DEF Open

\* A database with other templates.
LEMMA TemplatesAfter ==
    ASSUME NEW d, DatabaseOK(d), NEW templates \in Seq(STRING)
    PROVE  /\ DatabaseOK([d EXCEPT !.templates = templates])
           /\ [d EXCEPT !.templates = templates].pays = d.pays
BY DEF DatabaseOK

\* A database with other limits.
LEMMA RelaxedAfter ==
    ASSUME NEW d, DatabaseOK(d), NEW b \in BOOLEAN
    PROVE  /\ DatabaseOK([d EXCEPT !.relaxed = b])
           /\ [d EXCEPT !.relaxed = b].pays = d.pays
           /\ [d EXCEPT !.relaxed = b].relaxed = b
BY DEF DatabaseOK

\* A database with other assets, goals and budgets.
LEMMA ExtraAfter ==
    ASSUME NEW d, DatabaseOK(d), NEW b \in BOOLEAN
    PROVE  /\ DatabaseOK([d EXCEPT !.extra = b])
           /\ [d EXCEPT !.extra = b].pays = d.pays
           /\ [d EXCEPT !.extra = b].relaxed = d.relaxed
BY DEF DatabaseOK

\* The bulk path: the tables are replaced, and records are looked for again.
LEMMA ReplaceWhole == ASSUME ImportAssumption, IInv, WInv, Replace PROVE WInv'
<1> DEFINE f == session.file
           recs == Numbered(Prepared(f).recs)
           debts == IF f.hasDebts THEN f.debts ELSE database.debts
           pays == IF f.hasDebts THEN Prepared(f).pays ELSE database.pays
           templates == (IF f.wallets THEN <<>> ELSE database.templates) \o f.templates
           e == [database EXCEPT !.recs = recs, !.pays = Restored(recs, pays), !.debts = debts,
                                 !.templates = templates]
<1>1. /\ session.at = "replace" /\ UNCHANGED <<snapshot, began>>
      /\ session' = [session EXCEPT !.at = "sections"]
      /\ \A p \in Pairs(Prepared(f).recs) : PairHolds(Prepared(f).recs, p)
      /\ database' = e
  BY DEF Replace, InStep, Proceeds
<1>2. OpenFile(f) /\ RecordsApart(f.pays) /\ DatabaseOK(database) /\ RecordsApart(database.pays)
      /\ database.relaxed = began.relaxed
  BY <1>1, WholeHolds DEF Steps
<1>3. Prepared(f).recs = ParsedRecords(f) /\ Prepared(f).pays = GoodPayments(f)
  BY DEF Prepared
<1>4. Prepared(f).recs \in Seq(Records)
  BY <1>2, <1>3, ParsedAre
<1>5. recs \in Seq(Records)
  <2> DEFINE parsed == Prepared(f).recs
  <2>1. \E g \in [0 .. Len(parsed) -> Seq(Records)] : Numbered(parsed) = g[Len(parsed)]
    <3> HIDE DEF parsed
    <3>1. parsed \in Seq(Records) /\ \A p \in Pairs(parsed) : PairHolds(parsed, p)
      BY <1>1, <1>4 DEF parsed
    <3> QED BY <3>1, NumberedIs
  <2>2. Len(parsed) \in 0 .. Len(parsed)
    <3>1. Len(parsed) \in Nat
      BY <1>4
    <3> HIDE DEF parsed
    <3> QED BY <3>1
  <2> HIDE DEF parsed
  <2>3. Numbered(parsed) \in Seq(Records)
    BY <2>1, <2>2
  <2> QED BY <2>3 DEF parsed
<1> HIDE DEF recs
<1>6. /\ f.debts \in SUBSET Debts /\ f.templates \in Seq(STRING) /\ f.hasDebts \in BOOLEAN
      /\ f.wallets \in BOOLEAN /\ f.pays \in Seq(Payments)
  <2> HIDE DEF f
  <2> QED BY <1>2 DEF OpenFile
<1>7. pays \in Seq(Payments) /\ RecordsApart(pays) /\ \A k \in DOMAIN pays : pays[k].debt \in Debts
  <2>1. CASE f.hasDebts
    <3> DEFINE good == GoodPayments(f)
    <3>1. /\ good \in Seq(Payments)
          /\ \A k \in DOMAIN good : good[k].debt \in f.debts
          /\ RecordsApart(f.pays) => RecordsApart(good)
      BY <1>2, GoodPaymentsAre
    <3>2. pays = good
      BY <1>3, <2>1
    <3> HIDE DEF pays, f, good
    <3> QED BY <1>2, <1>6, <3>1, <3>2
  <2>2. CASE ~f.hasDebts
    <3>1. pays = database.pays
      BY <2>2
    <3> HIDE DEF pays, f
    <3> QED BY <1>2, <3>1 DEF DatabaseOK
  <2> QED BY <1>6, <2>1, <2>2
<1>8. debts \in SUBSET Debts /\ templates \in Seq(STRING)
  <2>1. database.templates \in Seq(STRING) /\ database.debts \in SUBSET Debts
    BY <1>2 DEF DatabaseOK
  <2>2. (IF f.wallets THEN <<>> ELSE database.templates) \in Seq(STRING)
    <3>1. <<>> \in Seq(STRING)
      OBVIOUS
    <3> HIDE DEF f
    <3> QED BY <2>1, <3>1
  <2> HIDE DEF f
  <2> QED BY <1>6, <2>1, <2>2
<1> HIDE DEF pays, debts, templates, f
<1> DEFINE new == Restored(recs, pays)
<1>9. /\ new \in Seq(Payments) /\ RecordsApart(new) /\ DOMAIN new = DOMAIN pays
      /\ \A k \in DOMAIN pays : SameButRecord(recs, pays[k], new[k])
  BY <1>5, <1>7, RestoredPays
<1> HIDE DEF new
<1>10. \A k \in DOMAIN new : new[k].debt \in Debts /\ new[k].rec \in DOMAIN recs \cup {None}
  BY <1>9 DEF SameButRecord
<1>11. /\ e.recs = recs /\ e.pays = new /\ e.debts = debts /\ e.templates = templates
       /\ e.relaxed = database.relaxed /\ e.extra = database.extra
       /\ e = [recs |-> e.recs, pays |-> e.pays, debts |-> e.debts,
               templates |-> e.templates, relaxed |-> e.relaxed, extra |-> e.extra]
  <2>1. database \in [recs: Seq(Records), pays: Seq(Payments), debts: SUBSET Debts,
                       templates: Seq(STRING), relaxed: BOOLEAN, extra: BOOLEAN]
    BY <1>2 DEF DatabaseOK
  <2>2. e = [database EXCEPT !.recs = recs, !.pays = new, !.debts = debts,
                             !.templates = templates]
    BY DEF new
  <2> HIDE DEF e
  <2> QED BY <2>1, <2>2
<1>12. database.relaxed \in BOOLEAN /\ database.extra \in BOOLEAN
  BY <1>2 DEF DatabaseOK
<1> HIDE DEF e
<1>13. DatabaseOK(e) /\ RecordsApart(e.pays) /\ e.relaxed = began.relaxed
  BY <1>2, <1>5, <1>8, <1>9, <1>10, <1>11, <1>12, DatabaseIs
<1>14. session'.at = "sections" /\ session'.file = session.file
  BY <1>1, UnderWay DEF IInv, Steps
<1> QED BY <1>1, <1>2, <1>13, <1>14, WholeHolds, WholeAfter DEF f

\* The other sections follow.
LEMMA SectionsWhole == ASSUME IInv, WInv, Sections PROVE WInv'
<1>1. /\ session.at = "sections" /\ UNCHANGED <<snapshot, began>>
      /\ session' = [session EXCEPT !.at = "number"]
      /\ database' = [database EXCEPT !.extra = @ \/ session.file.extra]
  BY DEF Sections, InStep, Proceeds
<1>2. OpenFile(session.file) /\ RecordsApart(session.file.pays) /\ DatabaseOK(database)
      /\ database.relaxed = began.relaxed
  BY <1>1, WholeHolds DEF Steps
<1>3. session.file.extra \in BOOLEAN
  BY <1>2 DEF OpenFile
<1>4. /\ DatabaseOK(database')
      /\ database'.pays = database.pays /\ database'.relaxed = database.relaxed
  <2> DEFINE b == database.extra \/ session.file.extra
  <2>1. database' = [database EXCEPT !.extra = b] /\ b \in BOOLEAN
    BY <1>1
  <2> HIDE DEF b
  <2> QED BY <1>2, <2>1, ExtraAfter
<1>5. session'.at = "number" /\ session'.file = session.file
  BY <1>1, UnderWay DEF IInv, Steps
<1> QED BY <1>1, <1>2, <1>4, <1>5, WholeHolds, WholeAfter


\* The numbering of whole transfers makes records.
LEMMA NumberedType ==
    ASSUME NEW recs \in Seq(Records), \A p \in Pairs(recs) : PairHolds(recs, p)
    PROVE  Numbered(recs) \in Seq(Records)
<1>1. PICK g \in [0 .. Len(recs) -> Seq(Records)] : Numbered(recs) = g[Len(recs)]
  BY NumberedIs
<1>2. Len(recs) \in 0 .. Len(recs)
  OBVIOUS
<1> QED BY <1>1, <1>2

\* The legs of a whole transfer, taken by themselves, are a whole transfer.
LEMMA LegsHold ==
    ASSUME NEW recs \in Seq(Records), NEW p, PairHolds(recs, p)
    PROVE  LET legs == RowsAt(recs, LegsOf(recs, p))
           IN  legs \in Seq(Records) /\ \A q \in Pairs(legs) : PairHolds(legs, q)
<1> DEFINE T == LegsOf(recs, p)
           legs == RowsAt(recs, T)
<1>1. T \in SUBSET DOMAIN recs /\ \A i \in T : recs[i].pair = p
  BY DEF LegsOf
<1>2. PICK i \in T, j \in T :
        T = {i, j} /\ recs[i].type = "out" /\ recs[j].type = "in" /\ recs[i].key = recs[j].key
  BY DEF PairHolds
<1> HIDE DEF T
<1>3. /\ legs \in Seq(Records)
      /\ \A k \in DOMAIN legs : Nth(T, k) \in T /\ legs[k] = recs[Nth(T, k)]
      /\ \A l \in T : Rank(T, l) \in DOMAIN legs /\ Nth(T, Rank(T, l)) = l
      /\ \A k \in DOMAIN legs : Rank(T, Nth(T, k)) = k
  BY <1>1, RowsAtPlaces
<1> HIDE DEF legs
<1>4. \A k \in DOMAIN legs : legs[k].pair = p
  BY <1>1, <1>3
<1>5. LegsOf(legs, p) = DOMAIN legs
  BY <1>4 DEF LegsOf
<1>6. DOMAIN legs = {Rank(T, i), Rank(T, j)}
  <2>1. \A k \in DOMAIN legs : Nth(T, k) = i \/ Nth(T, k) = j
    BY <1>2, <1>3
  <2>2. \A k \in DOMAIN legs : k = Rank(T, i) \/ k = Rank(T, j)
    BY <1>3, <2>1
  <2>3. Rank(T, i) \in DOMAIN legs /\ Rank(T, j) \in DOMAIN legs
    BY <1>3
  <2> QED BY <2>2, <2>3
<1>7. legs[Rank(T, i)] = recs[i] /\ legs[Rank(T, j)] = recs[j]
  BY <1>3
<1>8. PairHolds(legs, p)
  <2> DEFINE a == Rank(T, i)
             b == Rank(T, j)
  <2>1. a \in LegsOf(legs, p) /\ b \in LegsOf(legs, p) /\ LegsOf(legs, p) = {a, b}
        /\ legs[a] = recs[i] /\ legs[b] = recs[j]
    BY <1>5, <1>6, <1>7
  <2> HIDE DEF a, b
  <2> QED BY <1>2, <2>1 DEF PairHolds
<1>9. \A q \in Pairs(legs) : q = p
  BY <1>4 DEF Pairs
<1> QED BY <1>3, <1>8, <1>9 DEF legs, T

\* All operations are taken away, and the payments lose their records.
LEMMA ResetWhole == ASSUME IInv, WInv, Reset PROVE WInv'
<1>1. session.at = "reset" /\ UNCHANGED <<snapshot, began>>
  BY DEF Reset, InStep
<1>2. OpenFile(session.file) /\ RecordsApart(session.file.pays) /\ DatabaseOK(database)
      /\ RecordsApart(database.pays)
  BY <1>1, WholeHolds DEF Steps
<1>3. CASE session.file.type = "templates"
  <2>1. /\ session' = [session EXCEPT !.at = "templates", !.todo = session.file.templates]
        /\ database' = [database EXCEPT !.templates = <<>>]
    BY <1>3 DEF Reset
  <2>2. session'.at = "templates" /\ session'.file = session.file
        /\ session'.todo = session.file.templates
    BY <1>1, <2>1, UnderWay DEF IInv, Steps
  <2>3. session.file.templates \in Seq(STRING)
    BY <1>2 DEF OpenFile
  <2>4. DatabaseOK(database') /\ database'.pays = database.pays
    <3>1. <<>> \in Seq(STRING)
      OBVIOUS
    <3> QED BY <1>2, <2>1, <3>1, TemplatesAfter
  <2> QED BY <1>1, <1>2, <2>2, <2>3, <2>4, WholeHolds, WholeAfter
<1>4. CASE session.file.type # "templates"
  <2> DEFINE pays == [k \in DOMAIN database.pays |-> [database.pays[k] EXCEPT !.rec = None]]
  <2>1. /\ session' = [session EXCEPT !.at = "relax"]
        /\ database' = [database EXCEPT !.recs = <<>>, !.pays = pays]
    BY <1>4 DEF Reset, Proceeds
  <2>2. session'.at = "relax" /\ session'.file = session.file
    BY <1>1, <2>1, UnderWay DEF IInv, Steps
  <2>3. /\ database.pays \in Seq(Payments)
        /\ \A k \in DOMAIN database.pays : database.pays[k].debt \in Debts
    BY <1>2 DEF DatabaseOK
  <2>4. /\ pays \in Seq(Payments)
        /\ \A k \in DOMAIN pays : pays[k].debt \in Debts /\ pays[k].rec = None
    <3> DEFINE n == Len(database.pays)
    <3>1. DOMAIN database.pays = 1 .. n /\ n \in Nat
      BY <2>3
    <3>2. \A k \in 1 .. n :
             [database.pays[k] EXCEPT !.rec = None] \in Payments
             /\ [database.pays[k] EXCEPT !.rec = None].debt = database.pays[k].debt
             /\ [database.pays[k] EXCEPT !.rec = None].rec = None
      <4>1. \A k \in 1 .. n : database.pays[k] \in Payments
        BY <2>3, <3>1
      <4> HIDE DEF n
      <4> QED BY <4>1 DEF Payments, None
    <3>3. \A k \in 1 .. n : pays[k] = [database.pays[k] EXCEPT !.rec = None]
      BY <3>1
    <3>4. pays = [k \in 1 .. n |-> pays[k]] /\ DOMAIN pays = 1 .. n
      BY <3>1
    <3> HIDE DEF pays, n
    <3>5. pays \in [1 .. n -> Payments]
      BY <3>2, <3>3, <3>4
    <3>6. pays \in Seq(Payments)
      BY <3>1, <3>5, SeqOfFunction
    <3> QED BY <2>3, <3>1, <3>2, <3>3, <3>4, <3>6
  <2> HIDE DEF pays
  <2>5. database \in [recs: Seq(Records), pays: Seq(Payments), debts: SUBSET Debts,
                      templates: Seq(STRING), relaxed: BOOLEAN, extra: BOOLEAN]
    BY <1>2 DEF DatabaseOK
  <2>6. DatabaseOK(database') /\ database'.pays = pays
    <3>1. <<>> \in Seq(Records)
      OBVIOUS
    <3>2. database' \in [recs: Seq(Records), pays: Seq(Payments), debts: SUBSET Debts,
                         templates: Seq(STRING), relaxed: BOOLEAN, extra: BOOLEAN]
          /\ database'.pays = pays
      BY <2>1, <2>4, <2>5, <3>1
    <3> QED BY <2>4, <3>2 DEF DatabaseOK
  <2>7. RecordsApart(pays)
    BY <2>4 DEF RecordsApart
  <2> QED BY <1>1, <1>2, <2>2, <2>6, <2>7, WholeHolds, WholeAfter
<1> QED BY <1>3, <1>4

\* The limits are lifted.
LEMMA RelaxWhole == ASSUME ImportAssumption, IInv, WInv, Relax PROVE WInv'
<1>1. /\ session.at = "relax" /\ UNCHANGED <<snapshot, began>>
      /\ database' = [database EXCEPT !.relaxed = TRUE]
      /\ session' = [session EXCEPT !.at = "create", !.todo = Prepared(session.file).recs]
  BY DEF Relax, InStep
<1>2. OpenFile(session.file) /\ RecordsApart(session.file.pays) /\ DatabaseOK(database)
  BY <1>1, WholeHolds DEF Steps
<1>3. Prepared(session.file).recs \in Seq(Records)
  BY <1>2, ParsedAre DEF Prepared
<1>4. session'.at = "create" /\ session'.file = session.file
      /\ session'.todo = Prepared(session.file).recs
  BY <1>1, UnderWay DEF IInv, Steps
<1>5. DatabaseOK(database') /\ database'.pays = database.pays
  BY <1>1, <1>2, RelaxedAfter
<1> QED BY <1>1, <1>2, <1>3, <1>4, <1>5, WholeHolds, WholeAfter

\* Records that come after those that are there take nothing from them.
LEMMA RecordsAdded ==
    ASSUME NEW d, DatabaseOK(d), NEW more \in Seq(Records)
    PROVE  /\ DatabaseOK([d EXCEPT !.recs = @ \o more])
           /\ [d EXCEPT !.recs = @ \o more].pays = d.pays
<1> DEFINE recs == d.recs \o more
           e == [d EXCEPT !.recs = recs]
<1>1. d \in [recs: Seq(Records), pays: Seq(Payments), debts: SUBSET Debts,
             templates: Seq(STRING), relaxed: BOOLEAN, extra: BOOLEAN]
  BY DEF DatabaseOK
<1>2. recs \in Seq(Records) /\ DOMAIN d.recs \subseteq DOMAIN recs
  <2>1. d.recs \in Seq(Records)
    BY <1>1
  <2> QED BY <2>1
<1> HIDE DEF recs
<1>3. e \in [recs: Seq(Records), pays: Seq(Payments), debts: SUBSET Debts,
             templates: Seq(STRING), relaxed: BOOLEAN, extra: BOOLEAN]
      /\ e.recs = recs /\ e.pays = d.pays
  BY <1>1, <1>2
<1>4. \A k \in DOMAIN d.pays :
         d.pays[k].debt \in Debts /\ d.pays[k].rec \in DOMAIN d.recs \cup {None}
  BY DEF DatabaseOK
<1>5. DatabaseOK(e)
  <2> HIDE DEF e
  <2> QED BY <1>2, <1>3, <1>4 DEF DatabaseOK
<1> QED BY <1>3, <1>5 DEF recs

\* Operation by operation.
LEMMA CreateWhole == ASSUME IInv, WInv, Create PROVE WInv'
<1> DEFINE todo == session.todo
           r == Head(todo)
           legs == LegsOf(todo, r.pair)
           both == Numbered(RowsAt(todo, legs))
           new == Cardinality(Pairs(database.recs)) + 1
           numbered == [i \in DOMAIN both |-> [both[i] EXCEPT !.pair = new]]
<1>1. session.at = "create" /\ todo # <<>> /\ UNCHANGED <<snapshot, began>>
  BY DEF Create, InStep
<1>2. OpenFile(session.file) /\ RecordsApart(session.file.pays) /\ DatabaseOK(database)
      /\ todo \in Seq(Records) /\ RecordsApart(database.pays)
  BY <1>1, WholeHolds DEF Steps
<1>3. \E left, more \in Seq(Records) :
        /\ database' = [database EXCEPT !.recs = @ \o more]
        /\ session' = [session EXCEPT !.todo = left]
  <2>1. CASE r.pair = None
    <3>1. database' = [database EXCEPT !.recs = Append(@, r)]
          /\ session' = [session EXCEPT !.todo = Tail(@)]
      BY <2>1 DEF Create
    <3>2. r \in Records /\ Tail(todo) \in Seq(Records) /\ <<r>> \in Seq(Records)
      <4> HIDE DEF todo
      <4> QED BY <1>1, <1>2
    <3>3. Append(database.recs, r) = database.recs \o <<r>>
      <4>1. database.recs \in Seq(Records)
        BY <1>2 DEF DatabaseOK
      <4> HIDE DEF r
      <4> QED BY <3>2, <4>1
    <3>4. database' = [database EXCEPT !.recs = @ \o <<r>>]
      BY <3>1, <3>3
    <3> DEFINE left == Tail(todo)
               more == <<r>>
    <3>5. /\ database' = [database EXCEPT !.recs = @ \o more]
          /\ session' = [session EXCEPT !.todo = left]
          /\ left \in Seq(Records) /\ more \in Seq(Records)
      BY <3>1, <3>2, <3>4
    <3> HIDE DEF left, more
    <3> QED BY <3>5
  <2>2. CASE r.pair # None
    <3>1. /\ PairHolds(todo, r.pair)
          /\ database' = [database EXCEPT !.recs = @ \o numbered]
          /\ session' = [session EXCEPT !.todo = RowsAt(@, DOMAIN @ \ legs)]
      BY <2>2 DEF Create
    <3>2. both \in Seq(Records)
      <4> DEFINE two == RowsAt(todo, legs)
      <4>1. two \in Seq(Records) /\ \A q \in Pairs(two) : PairHolds(two, q)
        <5> HIDE DEF todo, r
        <5> QED BY <1>2, <3>1, LegsHold
      <4> HIDE DEF two
      <4>2. Numbered(two) \in Seq(Records)
        BY <4>1, NumberedType
      <4> QED BY <4>2 DEF two
    <3>3. new \in Nat
      <4>1. database.recs \in Seq(Records)
        BY <1>2 DEF DatabaseOK
      <4> QED BY <4>1, PairsFinite
    <3> DEFINE left == RowsAt(todo, DOMAIN todo \ legs)
    <3>4. left \in Seq(Records)
      <4> DEFINE T == DOMAIN todo \ legs
      <4>1. T \in SUBSET DOMAIN todo
        OBVIOUS
      <4> HIDE DEF T, todo
      <4>2. RowsAt(todo, T) \in Seq(Records)
        BY <1>2, <4>1, RowsAtPlaces
      <4> QED BY <4>2 DEF T
    <3> HIDE DEF both, new
    <3>5. numbered \in Seq(Records)
      <4> DEFINE n == Len(both)
      <4>1. n \in Nat /\ DOMAIN both = 1 .. n /\ \A i \in 1 .. n : both[i] \in Records
        BY <3>2
      <4>2. \A i \in 1 .. n : [both[i] EXCEPT !.pair = new] \in Records
        <5> HIDE DEF n
        <5> QED BY <3>3, <4>1 DEF Records
      <4>3. numbered \in [1 .. n -> Records]
        BY <4>1, <4>2
      <4> HIDE DEF numbered, n
      <4> QED BY <4>1, <4>3, SeqOfFunction
    <3>6. session' = [session EXCEPT !.todo = left]
      BY <3>1
    <3> HIDE DEF numbered, left
    <3> QED BY <3>1, <3>4, <3>5, <3>6
  <2> QED BY <2>1, <2>2
<1>4. PICK left \in Seq(Records), more \in Seq(Records) :
        /\ database' = [database EXCEPT !.recs = @ \o more]
        /\ session' = [session EXCEPT !.todo = left]
  BY <1>3
<1>5. session'.at = "create" /\ session'.file = session.file /\ session'.todo = left
  BY <1>1, <1>4, UnderWay DEF IInv, Steps
<1>6. DatabaseOK(database') /\ database'.pays = database.pays
  BY <1>2, <1>4, RecordsAdded
<1> QED BY <1>1, <1>2, <1>5, <1>6, WholeHolds, WholeAfter

\* The limits are set again, to those of the copy, and these are those from before.
LEMMA CreatedWhole == ASSUME IInv, WInv, Created PROVE WInv'
<1>1. /\ session.at = "create" /\ UNCHANGED <<snapshot, began>>
      /\ database' = [database EXCEPT !.relaxed = snapshot.relaxed]
      /\ session' = [session EXCEPT !.at = "number"]
  BY DEF Created, InStep, Proceeds
<1>2. OpenFile(session.file) /\ RecordsApart(session.file.pays) /\ DatabaseOK(database)
      /\ DatabaseOK(snapshot)
  BY <1>1, WholeHolds DEF Steps
<1>3. snapshot = began
  BY <1>1 DEF IInv, Copied, InStep, InTransaction
<1>4. snapshot.relaxed \in BOOLEAN
  BY <1>2 DEF DatabaseOK
<1>5. /\ DatabaseOK(database') /\ database'.pays = database.pays
      /\ database'.relaxed = snapshot.relaxed
  BY <1>1, <1>2, <1>4, RelaxedAfter
<1>6. session'.at = "number" /\ session'.file = session.file
  BY <1>1, UnderWay DEF IInv, Steps
<1>7. database'.relaxed = began'.relaxed
  BY <1>1, <1>3, <1>5
<1> QED BY <1>1, <1>2, <1>5, <1>6, <1>7, WholeHolds, WholeAfter

\* What is next goes from one sequence to another.
LEMMA NextMoves ==
    ASSUME NEW S, NEW s \in Seq(S), s # <<>>, NEW t \in Seq(S)
    PROVE  Tail(s) \in Seq(S) /\ Append(t, Head(s)) \in Seq(S)
OBVIOUS

\* Template by template.
LEMMA TemplateWhole == ASSUME IInv, WInv, CreateTemplate PROVE WInv'
<1>1. session.at = "templates" /\ UNCHANGED <<snapshot, began>>
  BY DEF CreateTemplate, InStep
<1>2. OpenFile(session.file) /\ RecordsApart(session.file.pays) /\ DatabaseOK(database)
      /\ session.todo \in Seq(STRING)
  BY <1>1, WholeHolds DEF Steps
<1>3. CASE session.todo = <<>>
  <2>1. session' = Idle("done") /\ database' = database
    BY <1>3 DEF CreateTemplate
  <2> QED BY <1>1, <2>1, WholeHolds, OverWhole
<1>4. CASE session.todo # <<>>
  <2>1. /\ database' = [database EXCEPT !.templates = Append(@, Head(session.todo))]
        /\ session' = [session EXCEPT !.todo = Tail(@)]
    BY <1>4 DEF CreateTemplate
  <2> DEFINE left == Tail(session.todo)
             more == Append(database.templates, Head(session.todo))
  <2>2. left \in Seq(STRING) /\ more \in Seq(STRING)
    <3>1. database.templates \in Seq(STRING)
      BY <1>2 DEF DatabaseOK
    <3> QED BY <1>2, <1>4, <3>1, NextMoves
  <2>3. /\ session' = [session EXCEPT !.todo = left]
        /\ database' = [database EXCEPT !.templates = more]
    BY <2>1
  <2> HIDE DEF left, more
  <2>4. session'.at = "templates" /\ session'.file = session.file /\ session'.todo = left
    BY <1>1, <2>3, UnderWay DEF IInv, Steps
  <2>5. DatabaseOK(database') /\ database'.pays = database.pays
    BY <1>2, <2>2, <2>3, TemplatesAfter
  <2> QED BY <1>1, <1>2, <2>2, <2>4, <2>5, WholeHolds, WholeAfter
<1> QED BY <1>3, <1>4

\* The end of an import that succeeds.
LEMMA NumberWhole == ASSUME ImportAssumption, WInv, Number PROVE WInv' /\ EndsWhole
<1> DEFINE new == Relinked(database)
<1>1. /\ session.at = "number" /\ UNCHANGED <<snapshot, began>> /\ session' = Idle("done")
      /\ ~ReplaceRaises(new.recs, new.debts)
      /\ database' = [new EXCEPT !.pays = Restored(new.recs, @)]
  BY DEF Number, InStep
<1>2. DatabaseOK(database) /\ RecordsApart(database.pays) /\ database.relaxed = began.relaxed
  BY <1>1, WholeHolds
<1> DEFINE e == database'
<1>3. /\ DatabaseOK(database') /\ RecordsApart(database'.pays)
      /\ database'.relaxed = database.relaxed /\ NoLooseEnds(database')
  <2>1. /\ ~ReplaceRaises(Relinked(database).recs, Relinked(database).debts)
        /\ e = [Relinked(database) EXCEPT
                  !.pays = Restored(Relinked(database).recs, Relinked(database).pays)]
    BY <1>1
  <2> HIDE DEF e
  <2>2. DatabaseOK(e) /\ RecordsApart(e.pays) /\ e.relaxed = database.relaxed /\ NoLooseEnds(e)
    BY <1>2, <2>1, NumberedWhole
  <2> QED BY <2>2 DEF e
<1>4. WInv'
  BY <1>1, <1>3, WholeHolds, OverWhole
<1>5. EndsWhole
  BY <1>2, <1>3 DEF EndsWhole
<1> QED BY <1>4, <1>5

\* An import that is undone, cut off or not begun.
LEMMA StopWhole == ASSUME WInv, Raise \/ Cancel \/ CutOff PROVE WInv'
<1>1. /\ \E result \in {"failed", "none"} : session' = Idle(result)
      /\ database' \in {database, snapshot} /\ UNCHANGED <<snapshot, began>>
  BY DEF Raise, Cancel, CutOff
<1>2. DatabaseOK(database') /\ RecordsApart(database'.pays)
  BY <1>1, WholeHolds
<1> QED BY <1>1, <1>2, WholeHolds, OverWhole

\* Every step keeps the invariant, and one that ends an import successfully leaves it whole.
LEMMA NextWhole ==
    ASSUME ImportAssumption, RecordsApartAtFirst, IInv, WInv, [ImportNext]_importVars
    PROVE  WInv' /\ [EndsWhole]_importVars
<1>1. CASE UNCHANGED importVars
  BY <1>1 DEF importVars, WInv, ImportTypeOK, FileHeld, TemplatesLeft, Apart, LimitsKept, InStep
<1>2. CASE Number
  BY <1>2, NumberWhole
<1>3. ASSUME ~InStep("number") PROVE EndsWhole
  BY <1>3 DEF EndsWhole
<1>4. ASSUME NEW f \in Files,
             (\E policy \in Policies : Choose(f, policy)) \/ Confirm(f) \/ ImportMandatory(f)
      PROVE  WInv' /\ EndsWhole
  <2>1. WInv'
    BY <1>4, ChooseWhole, ConfirmWhole, MandatoryWhole DEF IInv
  <2>2. ~InStep("number")
    BY <1>4 DEF Choose, Confirm, ImportMandatory, InStep
  <2> QED BY <1>3, <2>1, <2>2
<1>5. CASE Open \/ Replace \/ Sections \/ Reset \/ Relax
  <2>1. WInv'
    BY <1>5, OpenWhole, ReplaceWhole, SectionsWhole, ResetWhole, RelaxWhole
  <2>2. ~InStep("number")
    BY <1>5 DEF Open, Replace, Sections, Reset, Relax, InStep
  <2> QED BY <1>3, <2>1, <2>2
<1>6. CASE Create \/ Created \/ CreateTemplate
  <2>1. WInv'
    BY <1>6, CreateWhole, CreatedWhole, TemplateWhole
  <2>2. ~InStep("number")
    BY <1>6 DEF Create, Created, CreateTemplate, InStep
  <2> QED BY <1>3, <2>1, <2>2
<1>7. CASE Raise \/ Cancel \/ CutOff
  <2>1. WInv'
    BY <1>7, StopWhole
  <2>2. ~Ends("done")
    BY <1>7 DEF Raise, Cancel, CutOff, Ends, Idle, InTransaction, InStep
  <2> QED BY <2>1, <2>2 DEF EndsWhole
<1> QED BY <1>1, <1>2, <1>4, <1>5, <1>6, <1>7 DEF ImportNext

\* The import's variables have their types: for any database and any files.
THEOREM TypeCorrect ==
    ASSUME ImportAssumption, RecordsApartAtFirst PROVE ImportSpec => []ImportTypeOK
<1>1. ImportInit => IInv /\ WInv
  BY InitInvariant, InitWhole
<1>2. IInv /\ WInv /\ [ImportNext]_importVars => (IInv /\ WInv)'
  BY NextHarmless, NextWhole
<1>3. IInv /\ WInv => ImportTypeOK
  BY DEF WInv
<1> QED BY <1>1, <1>2, <1>3, PTL DEF ImportSpec

\* An import that fails changes nothing, and one that succeeds leaves whole transfers with the ids
\* from 1, every linked payment with a record of its debt and with one that no other payment has,
\* and the limits of the wallets as they were.
THEOREM AllOrNothing ==
    ASSUME ImportAssumption, RecordsApartAtFirst PROVE ImportSpec => ImportsAllOrNothing
<1>1. ImportInit => IInv /\ WInv
  BY InitInvariant, InitWhole
<1>2. IInv /\ WInv /\ [ImportNext]_importVars => (IInv /\ WInv)' /\ [EndsWhole]_importVars
  BY NextHarmless, NextWhole
<1>3. ImportSpec => [][EndsWhole]_importVars
  BY <1>1, <1>2, PTL DEF ImportSpec
<1>4. ImportSpec => ImportIsWhole
  BY <1>3 DEF ImportIsWhole, EndsWhole
<1> QED BY <1>4, FailureIsUndone DEF ImportsAllOrNothing


-----------------------------------------------------------------------------
(* The numbers of records when the legs of a transfer stand together. *)

\* Where the income leg of a transfer stands, its expense leg stands before it.
Together(recs) ==
    \A i \in DOMAIN recs : recs[i].pair # None /\ recs[i].type = "in" =>
       i - 1 \in DOMAIN recs /\ recs[i - 1].pair = recs[i].pair

\* Operation i is the expense leg of a transfer.
IsOutLeg(recs, i) == i \in DOMAIN recs /\ recs[i].pair # None /\ recs[i].type = "out"

\* The income leg follows the expense leg, and they are the legs of the transfer.
LEMMA LegsTogether ==
    ASSUME NEW recs \in Seq(Records), \A p \in Pairs(recs) : PairHolds(recs, p), Together(recs),
           NEW i, IsOutLeg(recs, i)
    PROVE  /\ i + 1 \in DOMAIN recs /\ recs[i + 1].pair = recs[i].pair /\ recs[i + 1].type = "in"
           /\ LegsOf(recs, recs[i].pair) = {i, i + 1}
<1>1. DOMAIN recs = 1 .. Len(recs) /\ Len(recs) \in Nat /\ i \in 1 .. Len(recs)
  BY DEF IsOutLeg
<1>2. PairHolds(recs, recs[i].pair)
  BY DEF IsOutLeg, Pairs
<1>3. PICK a \in LegsOf(recs, recs[i].pair), b \in LegsOf(recs, recs[i].pair) :
        LegsOf(recs, recs[i].pair) = {a, b} /\ recs[a].type = "out" /\ recs[b].type = "in"
  BY <1>2 DEF PairHolds
<1>4. i \in {a, b}
  BY <1>3 DEF LegsOf, IsOutLeg
<1>5. i = a
  BY <1>3, <1>4 DEF IsOutLeg
<1>6. b \in DOMAIN recs /\ recs[b].pair = recs[i].pair
  BY DEF LegsOf
<1>7. b - 1 \in DOMAIN recs /\ recs[b - 1].pair = recs[i].pair
  BY <1>3, <1>6 DEF Together, IsOutLeg
<1>8. b - 1 \in {a, b}
  BY <1>3, <1>7 DEF LegsOf
<1>9. b = i + 1
  BY <1>1, <1>5, <1>6, <1>8
<1> QED BY <1>3, <1>5, <1>6, <1>9

\* An income leg that is not bad follows an expense leg.
LEMMA InLegFollows ==
    ASSUME NEW recs \in Seq(Records), \A p \in Pairs(recs) : PairHolds(recs, p), Together(recs),
           NEW i \in DOMAIN recs, recs[i].pair # None, recs[i].type # "out"
    PROVE  IsOutLeg(recs, i - 1)
<1>1. DOMAIN recs = 1 .. Len(recs) /\ Len(recs) \in Nat /\ i \in Nat
  OBVIOUS
<1>2. recs[i].type = "in"
  <2>1. recs[i] \in Records
    OBVIOUS
  <2> QED BY <2>1 DEF Records
<1>3. i - 1 \in DOMAIN recs /\ recs[i - 1].pair = recs[i].pair
  BY <1>2 DEF Together
<1>4. PairHolds(recs, recs[i].pair)
  BY DEF Pairs
<1>5. PICK a \in LegsOf(recs, recs[i].pair), b \in LegsOf(recs, recs[i].pair) :
        LegsOf(recs, recs[i].pair) = {a, b} /\ recs[a].type = "out" /\ recs[b].type = "in"
  BY <1>4 DEF PairHolds
<1>6. i \in {a, b} /\ i - 1 \in {a, b}
  BY <1>3, <1>5 DEF LegsOf
<1>7. i = b
  BY <1>2, <1>5, <1>6
<1>8. i - 1 = a
  BY <1>1, <1>6, <1>7
<1> QED BY <1>3, <1>5, <1>8 DEF IsOutLeg

\* What is made of the first k operations: they stand where they stood, and an expense leg has
\* taken its income leg along.
Placed(recs, out, k) ==
    /\ out \in Seq(Records)
    /\ Len(out) = IF IsOutLeg(recs, k) THEN k + 1 ELSE k
    /\ \A i \in DOMAIN out : out[i].who = recs[i].who /\ out[i].debt \in {None, recs[i].debt}

\* The next one.
LEMMA PlacedNext ==
    ASSUME NEW recs \in Seq(Records), \A p \in Pairs(recs) : PairHolds(recs, p), Together(recs),
           NEW k \in DOMAIN recs, NEW out, Placed(recs, out, k - 1)
    PROVE  Placed(recs, NumberNext(recs, out, k), k)
<1> DEFINE p   == recs[k].pair
           new == Cardinality(Pairs(out)) + 1
           next == NumberNext(recs, out, k)
<1>1. DOMAIN recs = 1 .. Len(recs) /\ Len(recs) \in Nat /\ k \in Nat /\ recs[k] \in Records
  OBVIOUS
<1>2. /\ out \in Seq(Records) /\ DOMAIN out = 1 .. Len(out) /\ Len(out) \in Nat
      /\ Len(out) = IF IsOutLeg(recs, k - 1) THEN (k - 1) + 1 ELSE k - 1
      /\ \A i \in DOMAIN out : out[i].who = recs[i].who /\ out[i].debt \in {None, recs[i].debt}
  BY DEF Placed
<1>3. next \in Seq(Records)
  BY <1>2, NumberNextIs
<1>4. CASE p = None
  <2>1. ~IsOutLeg(recs, k)
    BY <1>4 DEF IsOutLeg
  <2>2. ~IsOutLeg(recs, k - 1)
    <3>1. IsOutLeg(recs, k - 1) => recs[(k - 1) + 1].pair = recs[k - 1].pair
      BY LegsTogether
    <3>2. (k - 1) + 1 = k
      BY <1>1
    <3> QED BY <1>4, <3>1, <3>2 DEF IsOutLeg
  <2>3. Len(out) = k - 1
    BY <1>2, <2>2
  <2>4. next = Append(out, recs[k])
    BY <1>4 DEF NumberNext
  <2>5. /\ Len(next) = k /\ DOMAIN next = 1 .. k /\ next[k] = recs[k]
        /\ \A i \in 1 .. k - 1 : next[i] = out[i]
    <3> HIDE DEF next, p
    <3> QED BY <1>1, <1>2, <2>3, <2>4
  <2>6. \A i \in 1 .. k : next[i].who = recs[i].who /\ next[i].debt \in {None, recs[i].debt}
    <3>1. \A i \in 1 .. k : i = k \/ i \in DOMAIN out
      BY <1>1, <1>2, <2>3
    <3> HIDE DEF next, p
    <3> QED BY <1>2, <2>3, <2>5, <3>1
  <2> HIDE DEF next, p
  <2> QED BY <1>3, <2>1, <2>5, <2>6 DEF Placed, next
<1>5. CASE p # None /\ recs[k].type = "out"
  <2>1. IsOutLeg(recs, k)
    BY <1>5 DEF IsOutLeg
  <2>2. k + 1 \in DOMAIN recs /\ recs[k + 1].type = "in" /\ LegsOf(recs, p) = {k, k + 1}
    BY <2>1, LegsTogether
  <2>3. ~IsOutLeg(recs, k - 1)
    <3>1. IsOutLeg(recs, k - 1) => recs[(k - 1) + 1].type = "in"
      BY LegsTogether
    <3>2. (k - 1) + 1 = k
      BY <1>1
    <3> QED BY <1>5, <3>1, <3>2
  <2>4. Len(out) = k - 1
    BY <1>2, <2>3
  <2>5. k = Min(LegsOf(recs, p))
    <3>1. Ids({k, k + 1})
      BY <1>1, <2>2, IdsOfInterval
    <3>2. \A x \in {k, k + 1} : k <= x
      BY <1>1
    <3>3. Min({k, k + 1}) = k
      <4>1. \E x \in {k, k + 1} : \A y \in {k, k + 1} : x <= y
        BY <3>2
      <4>2. \A y \in {k, k + 1} : Min({k, k + 1}) <= y
        BY <4>1 DEF Min
      <4>3. Min({k, k + 1}) \in {k, k + 1}
        BY <3>1, MinIsMember
      <4> QED BY <1>1, <4>2, <4>3
    <3> QED BY <2>2, <3>3
  <2> DEFINE o == Clean(recs, p, "out", new)
             j == Clean(recs, p, "in", new)
  <2>6. next = out \o <<o, j>>
    BY <1>5, <2>5 DEF NumberNext
  <2>7. PairHolds(recs, p) /\ new \in Nat
      <3>1. p \in Pairs(recs)
      BY <1>5 DEF Pairs
    <3>2. Cardinality(Pairs(out)) \in Nat
      BY <1>2, PairsFinite
    <3> QED BY <3>1, <3>2
  <2>8. o.who = recs[k].who /\ o.debt = None /\ o \in Records
    <3>1. PICK l \in LegsOf(recs, p) :
            recs[l].type = "out" /\ o \in Records
            /\ o = [recs[l] EXCEPT !.pair = new, !.debt = None, !.std = FALSE]
      <4>1. "out" \in {"in", "out"}
        OBVIOUS
      <4> HIDE DEF new, p
      <4>2. \E l \in LegsOf(recs, p) :
               /\ recs[l].type = "out"
               /\ Clean(recs, p, "out", new)
                     = [recs[l] EXCEPT !.pair = new, !.debt = None, !.std = FALSE]
               /\ Clean(recs, p, "out", new) \in Records
        BY <2>7, <4>1, CleanIs
      <4> QED BY <4>2
    <3>2. l = k
      BY <2>2, <3>1
    <3> HIDE DEF o, new
    <3> QED BY <1>1, <3>1, <3>2 DEF Records
  <2>9. j.who = recs[k + 1].who /\ j.debt = None /\ j \in Records
    <3>1. PICK l \in LegsOf(recs, p) :
            recs[l].type = "in" /\ j \in Records
            /\ j = [recs[l] EXCEPT !.pair = new, !.debt = None, !.std = FALSE]
      <4>1. "in" \in {"in", "out"}
        OBVIOUS
      <4> HIDE DEF new, p
      <4>2. \E l \in LegsOf(recs, p) :
               /\ recs[l].type = "in"
               /\ Clean(recs, p, "in", new)
                     = [recs[l] EXCEPT !.pair = new, !.debt = None, !.std = FALSE]
               /\ Clean(recs, p, "in", new) \in Records
        BY <2>7, <4>1, CleanIs
      <4> QED BY <4>2
    <3>2. l = k + 1
      BY <1>5, <2>2, <3>1
    <3>3. recs[k + 1] \in Records
      BY <2>2
    <3> HIDE DEF j, new
    <3> QED BY <3>1, <3>2, <3>3 DEF Records
  <2> HIDE DEF o, j
  <2>10. /\ Len(next) = k + 1 /\ DOMAIN next = 1 .. k + 1 /\ next[k] = o /\ next[k + 1] = j
         /\ \A i \in 1 .. k - 1 : next[i] = out[i]
    <3> HIDE DEF next, p
    <3>1. <<o, j>> \in Seq(Records) /\ Len(<<o, j>>) = 2 /\ <<o, j>>[1] = o /\ <<o, j>>[2] = j
      BY <2>8, <2>9
    <3>2. Len(next) = k + 1 /\ DOMAIN next = 1 .. k + 1
      BY <1>1, <1>2, <1>3, <2>4, <2>6, <3>1
    <3>3. next[k] = o /\ next[k + 1] = j
      BY <1>1, <1>2, <2>4, <2>6, <3>1
    <3>4. \A i \in 1 .. k - 1 : next[i] = out[i]
      BY <1>1, <1>2, <2>4, <2>6, <3>1
    <3> QED BY <3>2, <3>3, <3>4
  <2>11. \A i \in 1 .. k + 1 : next[i].who = recs[i].who /\ next[i].debt \in {None, recs[i].debt}
    <3>1. \A i \in 1 .. k + 1 : i = k \/ i = k + 1 \/ (i \in DOMAIN out /\ i \in 1 .. k - 1)
      BY <1>1, <1>2, <2>4
    <3> HIDE DEF next, p
    <3> QED BY <1>2, <2>8, <2>9, <2>10, <3>1
  <2> HIDE DEF next, p
  <2> QED BY <1>3, <2>1, <2>10, <2>11 DEF Placed, next
<1>6. CASE p # None /\ recs[k].type # "out"
  <2>1. IsOutLeg(recs, k - 1)
    BY <1>6, InLegFollows
  <2>2. (k - 1) + 1 = k
    BY <1>1
  <2>3. recs[k].pair = recs[k - 1].pair /\ LegsOf(recs, recs[k - 1].pair) = {k - 1, k}
    BY <2>1, <2>2, LegsTogether
  <2>4. k - 1 \in LegsOf(recs, p) /\ Ids(LegsOf(recs, p))
    <3>1. LegsOf(recs, p) \in SUBSET (1 .. Len(recs))
      BY <1>1 DEF LegsOf
    <3> QED BY <1>1, <2>3, <3>1, IdsOfInterval
  <2>5. k # Min(LegsOf(recs, p))
    <3>1. \A x \in LegsOf(recs, p) : k - 1 <= x
      BY <1>1, <2>3
    <3>2. \A y \in LegsOf(recs, p) : Min(LegsOf(recs, p)) <= y
      <4>1. \E x \in LegsOf(recs, p) : \A y \in LegsOf(recs, p) : x <= y
        BY <2>4, <3>1
      <4> QED BY <4>1 DEF Min
    <3>3. Min(LegsOf(recs, p)) <= k - 1
      BY <2>4, <3>2
    <3> QED BY <1>1, <3>3
  <2>6. next = out
    BY <1>6, <2>5 DEF NumberNext
  <2>7. ~IsOutLeg(recs, k)
    BY <1>6 DEF IsOutLeg
  <2>8. Len(next) = k
    BY <1>2, <2>1, <2>2, <2>6
  <2> HIDE DEF next, p
  <2> QED BY <1>2, <1>3, <2>6, <2>7, <2>8 DEF Placed, next
<1> QED BY <1>4, <1>5, <1>6


\* Every operation stands where it stood.
LEMMA NumberedPlaced ==
    ASSUME NEW recs \in Seq(Records), \A p \in Pairs(recs) : PairHolds(recs, p), Together(recs)
    PROVE  LET new == Numbered(recs)
           IN  /\ new \in Seq(Records) /\ DOMAIN new = DOMAIN recs
               /\ \A i \in DOMAIN recs :
                     new[i].who = recs[i].who /\ new[i].debt \in {None, recs[i].debt}
<1> DEFINE n == Len(recs)
<1>1. n \in Nat /\ DOMAIN recs = 1 .. n
  OBVIOUS
<1>2. PICK f \in [0 .. n -> Seq(Records)] :
        /\ f[0] = <<>>
        /\ \A k \in 1 .. n : f[k] = NumberNext(recs, f[k - 1], k)
        /\ Numbered(recs) = f[n]
  BY NumberedIs
<1> DEFINE M == {k \in 0 .. n : Placed(recs, f[k], k)}
<1>3. 0 \in M
  <2>1. ~IsOutLeg(recs, 0)
    BY <1>1 DEF IsOutLeg
  <2>2. Placed(recs, <<>>, 0)
    BY <2>1 DEF Placed
  <2>3. 0 \in 0 .. n
    BY <1>1
  <2> QED BY <1>2, <2>2, <2>3
<1>4. \A k \in 1 .. n : k - 1 \in M => k \in M
  <2> SUFFICES ASSUME NEW k \in 1 .. n, k - 1 \in M PROVE k \in M
    OBVIOUS
  <2>1. Placed(recs, f[k - 1], k - 1) /\ k \in DOMAIN recs /\ k \in 0 .. n
    BY <1>1
  <2>2. Placed(recs, NumberNext(recs, f[k - 1], k), k)
    BY <2>1, PlacedNext
  <2>3. f[k] = NumberNext(recs, f[k - 1], k)
    BY <1>2
  <2> QED BY <2>1, <2>2, <2>3
<1>5. n \in M
  <2>1. n \in 0 .. n
    BY <1>1
  <2> HIDE DEF M, n
  <2> QED BY <1>1, <1>3, <1>4, <2>1, UpToInduction
<1>6. Placed(recs, Numbered(recs), n)
  BY <1>2, <1>5
<1>7. ~IsOutLeg(recs, n)
  <2>1. IsOutLeg(recs, n) => n + 1 \in DOMAIN recs
    BY LegsTogether
  <2>2. n + 1 \notin 1 .. n
    BY <1>1
  <2> QED BY <1>1, <2>1, <2>2
<1> DEFINE new == Numbered(recs)
<1>8. /\ new \in Seq(Records) /\ Len(new) = n
      /\ \A i \in DOMAIN new : new[i].who = recs[i].who /\ new[i].debt \in {None, recs[i].debt}
  BY <1>6, <1>7 DEF Placed
<1> HIDE DEF new
<1>9. DOMAIN new = DOMAIN recs
  BY <1>1, <1>8
<1> QED BY <1>8, <1>9 DEF new

\* A backup of which no row is skipped is read row by row.
LEMMA ParsedWhole ==
    ASSUME ImportAssumption, DatabaseOK(database), NEW f, OpenFile(f),
           WholeBackup(f), AsWritten(f)
    PROVE  LET recs == ParsedRecords(f)
           IN  /\ recs \in Seq(Records) /\ DOMAIN recs = DOMAIN f.rows /\ Together(recs)
               /\ \A i \in DOMAIN recs :
                     recs[i].who = f.rows[i].who /\ recs[i].debt \in {None, f.rows[i].debt}
<1> DEFINE n == Len(f.rows)
           recs == ParsedRecords(f)
<1>1. f.rows \in Seq(FileRows) /\ n \in Nat /\ DOMAIN f.rows = 1 .. n
  BY DEF OpenFile
<1>2. Kept(f) = 1 .. n
  BY <1>1 DEF WholeBackup
<1> HIDE DEF n
<1>3. /\ Cardinality(1 .. n) = n /\ Ids(1 .. n)
      /\ \A i \in 1 .. n : Rank(1 .. n, i) = i
  BY <1>1, DenseRanks
<1>4. \A i \in 1 .. n : Nth(1 .. n, i) = i
  BY <1>3, NthOfRank
<1>5. /\ recs \in Seq(Records) /\ DOMAIN recs = 1 .. n
      /\ \A i \in 1 .. n :
            recs[i] = [who |-> f.rows[i].who, key |-> f.rows[i].key, type |-> f.rows[i].type,
                       std |-> f.rows[i].std, pair |-> f.rows[i].pair,
                       debt |-> IF f.rows[i].debt \in Allowed(f) THEN f.rows[i].debt ELSE None]
  BY <1>2, <1>3, <1>4, ParsedAre
<1> HIDE DEF recs
<1>6. \A i \in 1 .. n :
         /\ recs[i].who = f.rows[i].who /\ recs[i].pair = f.rows[i].pair
         /\ recs[i].type = f.rows[i].type /\ recs[i].debt \in {None, f.rows[i].debt}
  BY <1>5
<1>7. Together(recs)
  <2> SUFFICES ASSUME NEW i \in 1 .. n, recs[i].pair # None, recs[i].type = "in"
               PROVE  i - 1 \in 1 .. n /\ recs[i - 1].pair = recs[i].pair
    BY <1>5 DEF Together
  <2>1. i - 1 \in 1 .. n /\ f.rows[i - 1].pair = f.rows[i].pair
    BY <1>1, <1>6 DEF AsWritten
  <2> QED BY <1>6, <2>1
<1> QED BY <1>1, <1>5, <1>6, <1>7 DEF recs

-----------------------------------------------------------------------------
(* What holds of the payments of a backup between the steps. *)

\* Each payment of the backup that had a record has one of the same name, and no payment has a
\* record of another debt.
SameRecords(f, d) ==
    /\ DOMAIN d.pays = DOMAIN f.pays
    /\ WellLinked(d.recs, d.pays)
    /\ \A k \in DOMAIN f.pays : f.pays[k].rec # None =>
          /\ d.pays[k].rec # None
          /\ d.recs[d.pays[k].rec].who = f.rows[f.pays[k].rec].who

\* Only backups take the bulk path, and after it their payments have their records.
LinksKept ==
    /\ session.at \in Steps /\ WholeBackup(session.file) => AsWritten(session.file)
    /\ session.at \in {"reset", "relax", "create", "templates"} => session.file.type # "json"
    /\ session.at \in {"sections", "number"} /\ WholeBackup(session.file) =>
          SameRecords(session.file, database)

\* A step that ends the import of a backup leaves the payments with their records.
EndsLinked ==
    LET f == session.file
    IN  Ends("done") /\ WholeBackup(f) =>
          \A k \in DOMAIN f.pays : f.pays[k].rec # None =>
             database'.recs[database'.pays[k].rec].who = f.rows[f.pays[k].rec].who

\* A backup is read, and its tables replace those that are there.
LEMMA ReplaceLinked ==
    ASSUME ImportAssumption, IInv, WInv, LinksKept, Replace, WholeBackup(session.file)
    PROVE  SameRecords(session.file, database')
<1> DEFINE f == session.file
           parsed == ParsedRecords(f)
           recs == Numbered(parsed)
           pays == Restored(recs, f.pays)
<1>1. session.at = "replace"
  BY DEF Replace, InStep
<1>2. /\ OpenFile(f) /\ RecordsApart(f.pays) /\ DatabaseOK(database) /\ AsWritten(f)
  BY <1>1, WholeHolds DEF Steps, LinksKept
<1>3. /\ \A p \in Pairs(parsed) : PairHolds(parsed, p)
      /\ \E debts, templates :
            database' = [database EXCEPT !.recs = recs, !.pays = pays, !.debts = debts,
                                         !.templates = templates]
  BY <1>2 DEF Replace, Prepared, WholeBackup, AsWritten
<1>4. /\ parsed \in Seq(Records) /\ DOMAIN parsed = DOMAIN f.rows /\ Together(parsed)
      /\ \A i \in DOMAIN parsed :
            parsed[i].who = f.rows[i].who /\ parsed[i].debt \in {None, f.rows[i].debt}
  BY <1>2, ParsedWhole
<1> HIDE DEF parsed
<1>5. /\ recs \in Seq(Records) /\ DOMAIN recs = DOMAIN parsed
      /\ \A i \in DOMAIN parsed :
            recs[i].who = parsed[i].who /\ recs[i].debt \in {None, parsed[i].debt}
  BY <1>3, <1>4, NumberedPlaced
<1> HIDE DEF recs
<1>6. /\ f.pays \in Seq(Payments)
      /\ \A k \in DOMAIN f.pays : f.pays[k].debt \in f.debts /\ f.debts \subseteq Debts
  <2> DEFINE good == GoodPayments(f)
  <2>1. good \in Seq(Payments) /\ \A k \in DOMAIN good : good[k].debt \in f.debts
    BY <1>2, GoodPaymentsAre
  <2>2. good = f.pays
    BY <1>2 DEF AsWritten
  <2>3. f.debts \subseteq Debts
    <3> HIDE DEF f
    <3> QED BY <1>2 DEF OpenFile
  <2> HIDE DEF good, f
  <2> QED BY <2>1, <2>2, <2>3
<1>7. /\ pays \in Seq(Payments) /\ DOMAIN pays = DOMAIN f.pays
      /\ \A k \in DOMAIN f.pays : SameButRecord(recs, f.pays[k], pays[k])
  <2> DEFINE old == f.pays
  <2>1. old \in Seq(Payments) /\ \A k \in DOMAIN old : old[k].debt \in Debts
    BY <1>6
  <2> HIDE DEF old
  <2>2. /\ Restored(recs, old) \in Seq(Payments) /\ DOMAIN Restored(recs, old) = DOMAIN old
        /\ \A k \in DOMAIN old : SameButRecord(recs, old[k], Restored(recs, old)[k])
    BY <1>5, <2>1, RestoredPays
  <2> QED BY <2>2 DEF old
<1> HIDE DEF pays
\* A payment of the backup has no record or one of the rows.
<1>8. \A k \in DOMAIN f.pays : f.pays[k].rec \in DOMAIN f.rows \cup {None}
  <2> DEFINE T == {k \in DOMAIN f.pays :
                     f.pays[k].debt \in f.debts /\ f.pays[k].rec \in Kept(f) \cup {None}}
  <2>1. /\ RowsAt(f.pays, T) = f.pays /\ T \in SUBSET DOMAIN f.pays
    BY <1>2 DEF AsWritten, GoodPayments
  <2>2. \A k \in T : f.pays[k].rec \in DOMAIN f.rows \cup {None}
    BY DEF WholeBackup
  <2> DEFINE r == RowsAt(f.pays, T)
  <2> HIDE DEF T
  <2>3. \A k \in DOMAIN r : Nth(T, k) \in T /\ r[k] = f.pays[Nth(T, k)]
    BY <1>6, <2>1, RowsAtPlaces
  <2> HIDE DEF r
  <2>4. \A k \in DOMAIN r : r[k].rec \in DOMAIN f.rows \cup {None}
    BY <2>2, <2>3
  <2> QED BY <2>1, <2>4 DEF r
<1> HIDE DEF f
<1>9. \A k \in DOMAIN f.pays : f.pays[k].rec # None =>
         /\ pays[k].rec = f.pays[k].rec /\ pays[k].rec \in DOMAIN recs
         /\ recs[pays[k].rec].who = f.rows[f.pays[k].rec].who
         /\ recs[pays[k].rec].debt \in {None, f.rows[f.pays[k].rec].debt}
  <2> SUFFICES ASSUME NEW k \in DOMAIN f.pays, f.pays[k].rec # None
               PROVE  /\ pays[k].rec = f.pays[k].rec /\ pays[k].rec \in DOMAIN recs
                      /\ recs[pays[k].rec].who = f.rows[f.pays[k].rec].who
                      /\ recs[pays[k].rec].debt \in {None, f.rows[f.pays[k].rec].debt}
    OBVIOUS
  <2>1. f.pays[k].rec \in DOMAIN recs /\ f.pays[k].rec \in DOMAIN parsed
    BY <1>4, <1>5, <1>8
  <2>2. pays[k].rec = f.pays[k].rec
    BY <1>7, <2>1 DEF SameButRecord
  <2>3. recs[f.pays[k].rec].who = f.rows[f.pays[k].rec].who
    BY <1>4, <1>5, <2>1
  <2>4. recs[f.pays[k].rec].debt \in {None, f.rows[f.pays[k].rec].debt}
    BY <1>4, <1>5, <2>1
  <2> QED BY <2>1, <2>2, <2>3, <2>4
<1>10. \A k \in DOMAIN pays : pays[k].rec # None => recs[pays[k].rec].debt \in {None, pays[k].debt}
  <2> SUFFICES ASSUME NEW k \in DOMAIN f.pays, pays[k].rec # None
               PROVE  recs[pays[k].rec].debt \in {None, pays[k].debt}
    BY <1>7
  <2>1. pays[k].debt = f.pays[k].debt
    BY <1>7 DEF SameButRecord
  <2>2. CASE f.pays[k].rec # None
    <3>1. f.rows[f.pays[k].rec].debt \in {None, f.pays[k].debt}
      BY <1>2, <2>2 DEF AsWritten
    <3> QED BY <1>9, <2>1, <2>2, <3>1
  <2>3. CASE f.pays[k].rec = None
    <3>1. f.pays[k].rec \notin DOMAIN recs
      BY <1>5, <2>3 DEF None
    <3>2. recs[pays[k].rec].debt = f.pays[k].debt
      BY <1>7, <3>1 DEF SameButRecord
    <3> QED BY <2>1, <3>2
  <2> QED BY <2>2, <2>3
<1>11. database'.recs = recs /\ database'.pays = pays
  <2>1. database \in [recs: Seq(Records), pays: Seq(Payments), debts: SUBSET Debts,
                      templates: Seq(STRING), relaxed: BOOLEAN, extra: BOOLEAN]
    BY <1>2 DEF DatabaseOK
  <2> QED BY <1>3, <2>1
<1>12. SameRecords(f, database')
  BY <1>7, <1>9, <1>10, <1>11 DEF SameRecords, WellLinked
<1> QED BY <1>12 DEF f

\* Each payment of a backup that had a record has one of the same name.
SameNames(f, d) ==
    \A k \in DOMAIN f.pays : f.pays[k].rec # None =>
       d.recs[d.pays[k].rec].who = f.rows[f.pays[k].rec].who

\* The numbering leaves the records of payments as they are when they belong to their debts.
LEMMA NumberLinked ==
    ASSUME ImportAssumption, NEW d, DatabaseOK(d), RecordsApart(d.pays), NEW f,
           f.pays \in Seq(Payments), SameRecords(f, d), NEW e,
           e = [Relinked(d) EXCEPT !.pays = Restored(Relinked(d).recs, Relinked(d).pays)]
    PROVE  SameNames(f, e)
<1> DEFINE link == Relinking(d)
           n == Len(d.pays)
           m == Len(d.recs)
           recs == Relinked(d).recs
           pays == Restored(recs, link.pays)
<1>1. /\ Numbering(d, n, m) /\ link \in Joins(n, m) /\ Joining(d, link, n)
      /\ Relinked(d) = [d EXCEPT !.recs = recs, !.pays = link.pays]
      /\ recs \in Seq(Records) /\ Len(recs) = m
      /\ \A i \in DOMAIN d.recs :
            recs[i] = [link.recs[i] EXCEPT !.pair = ByDate(d.recs, d.recs[i].pair)]
  BY RelinkedIs
<1> HIDE DEF link, recs, pays
<1>2. /\ n \in Nat /\ m \in Nat /\ DOMAIN d.pays = 1 .. n /\ DOMAIN d.recs = 1 .. m
      /\ link.pays \in [1 .. n -> LinkedPays(m)] /\ link.recs \in [1 .. m -> Records]
      /\ d.pays \in [1 .. n -> LinkedPays(m)] /\ d.recs \in [1 .. m -> Records]
      /\ DOMAIN recs = 1 .. m
  <2>1. /\ d.recs \in Seq(Records) /\ d.pays \in Seq(Payments)
    BY DEF DatabaseOK
  <2> QED BY <1>1, <2>1 DEF Numbering, Joins
<1> HIDE DEF n, m
<1>3. /\ link.pays \in Seq(Payments) /\ DOMAIN link.pays = 1 .. n
      /\ \A k \in 1 .. n : link.pays[k].debt \in Debts
  <2>1. \A k \in 1 .. n : link.pays[k] \in Payments /\ link.pays[k].debt \in Debts
    BY <1>2 DEF LinkedPays
  <2>2. link.pays \in [1 .. n -> Payments]
    BY <1>2, <2>1
  <2>3. link.pays \in Seq(Payments)
    BY <1>2, <2>2, SeqOfFunction
  <2> QED BY <1>2, <2>1, <2>3
<1>4. \A k \in 1 .. n : SameButRecord(recs, link.pays[k], pays[k])
  BY <1>1, <1>3, RestoredPays DEF pays
<1>5. e.recs = recs /\ e.pays = pays
  <2>1. d \in [recs: Seq(Records), pays: Seq(Payments), debts: SUBSET Debts,
               templates: Seq(STRING), relaxed: BOOLEAN, extra: BOOLEAN]
    BY DEF DatabaseOK
  <2>2. Relinked(d).pays = link.pays /\ Relinked(d).recs = recs
    BY <1>1, <2>1
  <2> QED BY <1>1, <2>1, <2>2 DEF pays
<1> SUFFICES ASSUME NEW k \in DOMAIN f.pays, f.pays[k].rec # None
             PROVE  recs[pays[k].rec].who = f.rows[f.pays[k].rec].who
  BY <1>5 DEF SameNames
<1>6. k \in 1 .. n /\ d.pays[k].rec # None
      /\ d.recs[d.pays[k].rec].who = f.rows[f.pays[k].rec].who /\ WellLinked(d.recs, d.pays)
  BY <1>2 DEF SameRecords
<1>7. d.pays[k].rec \in 1 .. m
  <2>1. d.pays[k] \in LinkedPays(m)
    BY <1>2, <1>6
  <2> QED BY <1>2, <1>6, <2>1 DEF LinkedPays, None
<1>8. link.pays[k].rec = d.pays[k].rec
  BY <1>1, <1>2, <1>6 DEF Joining
<1>9. pays[k].rec = d.pays[k].rec
  BY <1>2, <1>4, <1>6, <1>7, <1>8 DEF SameButRecord
<1> DEFINE i == d.pays[k].rec
<1>10. recs[i].who = d.recs[i].who
  <2> HIDE DEF i
  <2>1. i \in 1 .. m
    BY <1>7 DEF i
  <2>2. link.recs[i] = [d.recs[i] EXCEPT !.debt = link.recs[i].debt]
    BY <1>1, <1>2, <2>1 DEF Joining
  <2>3. recs[i] = [link.recs[i] EXCEPT !.pair = ByDate(d.recs, d.recs[i].pair)]
    BY <1>1, <1>2, <2>1
  <2>4. d.recs[i] \in Records /\ link.recs[i] \in Records
    BY <1>2, <2>1
  <2> QED BY <2>2, <2>3, <2>4 DEF Records
<1> QED BY <1>6, <1>9, <1>10

-----------------------------------------------------------------------------
\* At the beginning nothing is under way.
LEMMA InitLinked == ASSUME ImportInit PROVE LinksKept
BY DEF ImportInit, LinksKept, Idle, Steps

\* A step that ends the import leaves nothing to keep.
LEMMA OverLinked ==
    ASSUME NEW result, session' = Idle(result) PROVE LinksKept'
<1>1. session'.at = "idle"
  BY DEF Idle
<1> QED BY <1>1 DEF LinksKept, Steps

\* A step that keeps the file, and is not at its end.
LEMMA OnLinked ==
    ASSUME LinksKept, session.at \in Steps, session'.file = session.file,
           session'.at \in {"reset", "relax", "create", "templates"} =>
               session.file.type # "json",
           session'.at \in {"sections", "number"} /\ WholeBackup(session.file) =>
               SameRecords(session.file, database')
    PROVE  LinksKept'
BY DEF LinksKept

\* A file is chosen or read again.
LEMMA BeginLinked ==
    ASSUME ImportAssumption, BackupsAsWritten, Session, NEW f \in Files, NEW policy,
           Choose(f, policy) \/ Confirm(f) \/ ImportMandatory(f)
    PROVE  LinksKept'
<1>1. CASE session' = Idle("failed")
  BY <1>1, OverLinked
<1>2. CASE session' # Idle("failed")
  <2>1. /\ session'.at \in {"preview", "open"}
        /\ session'.file = f \/ session'.file = [f EXCEPT !.type = "templates"]
    <3>1. CASE Choose(f, policy)
      BY <1>2, <3>1 DEF Choose
    <3>2. CASE Confirm(f)
      <4>1. session.at = "preview" /\ session' = [session EXCEPT !.at = "open", !.file = f]
        BY <1>2, <3>2 DEF Confirm, InStep
      <4>2. PICK old, g, q, todo :
              session = [at |-> old, file |-> g, policy |-> q, todo |-> todo]
        BY <4>1 DEF Session, Idle
      <4> QED BY <4>1, <4>2
    <3>3. CASE ImportMandatory(f)
      BY <3>3 DEF ImportMandatory
    <3> QED BY <3>1, <3>2, <3>3
  <2> DEFINE g == [f EXCEPT !.type = "templates"]
  <2>2. g.type = "templates"
    BY DEF ImportAssumption, FileOK
  <2> HIDE DEF g
  <2>3. ~WholeBackup(g)
    BY <2>2 DEF WholeBackup
  <2>4. WholeBackup(session'.file) => AsWritten(session'.file)
    BY <2>1, <2>3 DEF BackupsAsWritten, g
  <2> QED BY <2>1, <2>4 DEF LinksKept
<1> QED BY <1>1, <1>2

\* Every step keeps the payments with their records.
LEMMA NextLinked ==
    ASSUME ImportAssumption, RecordsApartAtFirst, BackupsAsWritten, IInv, WInv, LinksKept,
           [ImportNext]_importVars
    PROVE  LinksKept' /\ [EndsLinked]_importVars
<1>1. CASE UNCHANGED importVars
  BY <1>1 DEF importVars, LinksKept
<1>2. ASSUME ~Ends("done") PROVE EndsLinked
  BY <1>2 DEF EndsLinked
<1>3. ASSUME NEW f \in Files,
             (\E policy \in Policies : Choose(f, policy)) \/ Confirm(f) \/ ImportMandatory(f)
      PROVE  LinksKept' /\ EndsLinked
  <2>1. LinksKept'
    BY <1>3, BeginLinked DEF IInv
  <2>2. ~InTransaction
    BY <1>3 DEF Choose, Confirm, ImportMandatory, InStep, InTransaction
  <2> QED BY <1>2, <2>1, <2>2 DEF Ends
<1>4. CASE Open
  <2>1. session.at = "open" /\ session.at \in Steps
    BY <1>4 DEF Open, InStep, Steps
  <2>2. CASE session' = Idle("done")
    <3>1. LinksKept'
      BY <2>2, OverLinked
    <3>2. session.file.type # "json" \/ GoodPayments(session.file) = <<>>
      <4>1. \A step \in {"reset", "replace"} : ~(session' = [session EXCEPT !.at = step])
        BY <2>1, <2>2, UnderWay DEF Idle, IInv
      <4> QED BY <1>4, <4>1 DEF Open, Proceeds, NothingIn, Prepared
    <3>3. WholeBackup(session.file) => DOMAIN session.file.pays = {}
      BY <2>1, <3>2 DEF LinksKept, WholeBackup, AsWritten
    <3> QED BY <3>1, <3>3 DEF EndsLinked
  <2>3. CASE session' # Idle("done")
    <3>1. \/ session.file.type # "json" /\ session' = [session EXCEPT !.at = "reset"]
          \/ session' = [session EXCEPT !.at = "replace"]
      BY <1>4, <2>3 DEF Open, Proceeds
    <3>2. /\ session'.file = session.file /\ session'.at \in {"reset", "replace"}
          /\ session'.at = "reset" => session.file.type # "json"
      BY <2>1, <3>1, UnderWay DEF IInv
    <3>3. LinksKept'
      BY <2>1, <3>2, OnLinked
    <3>4. ~Ends("done")
      BY <3>2 DEF Ends
    <3> QED BY <1>2, <3>3, <3>4
  <2> QED BY <2>2, <2>3
<1>5. CASE Replace
  <2>1. session.at = "replace" /\ session' = [session EXCEPT !.at = "sections"]
    BY <1>5 DEF Replace, InStep, Proceeds
  <2>2. session'.at = "sections" /\ session'.file = session.file
    BY <2>1, UnderWay DEF IInv, Steps
  <2>3. LinksKept'
    BY <1>5, <2>1, <2>2, ReplaceLinked, OnLinked DEF Steps
  <2> QED BY <1>2, <2>2, <2>3 DEF Ends
<1>6. CASE Sections
  <2>1. session.at = "sections" /\ session' = [session EXCEPT !.at = "number"]
        /\ database' = [database EXCEPT !.extra = @ \/ session.file.extra]
    BY <1>6 DEF Sections, InStep, Proceeds
  <2>2. session'.at = "number" /\ session'.file = session.file
    BY <2>1, UnderWay DEF IInv, Steps
  <2>3. database'.pays = database.pays /\ database'.recs = database.recs
    <3>1. DatabaseOK(database)
      BY WholeHolds
    <3> QED BY <2>1, <3>1 DEF DatabaseOK
  <2>4. SameRecords(session.file, database) => SameRecords(session.file, database')
    BY <2>3 DEF SameRecords
  <2>5. LinksKept'
    BY <2>1, <2>2, <2>4, OnLinked DEF LinksKept, Steps
  <2> QED BY <1>2, <2>2, <2>5 DEF Ends
<1>7. CASE Reset \/ Relax \/ Create \/ Created
  <2>1. session.at \in {"reset", "relax", "create"} /\ session.at \in Steps
        /\ session.file.type # "json"
    BY <1>7 DEF Reset, Relax, Create, Created, InStep, LinksKept, Steps
  <2>2. \E step \in {"templates", "relax", "create", "number"} : \E todo :
           \/ session' = [session EXCEPT !.at = step]
           \/ session' = [session EXCEPT !.at = step, !.todo = todo]
           \/ session' = [session EXCEPT !.todo = todo]
    BY <1>7 DEF Reset, Relax, Create, Created, Proceeds
  <2>3. session'.file = session.file
        /\ session'.at \in {"templates", "relax", "create", "number", "reset"}
    BY <2>1, <2>2, UnderWay DEF IInv
  <2>4. LinksKept'
    BY <2>1, <2>3, OnLinked DEF WholeBackup
  <2>5. ~Ends("done")
    BY <2>3 DEF Ends
  <2> QED BY <1>2, <2>4, <2>5
<1>8. CASE CreateTemplate
  <2>1. session.at = "templates" /\ session.at \in Steps /\ session.file.type # "json"
    BY <1>8 DEF CreateTemplate, InStep, LinksKept, Steps
  <2>2. CASE session.todo = <<>>
    <3>1. session' = Idle("done")
      BY <1>8, <2>2 DEF CreateTemplate
    <3>2. EndsLinked
      BY <2>1 DEF EndsLinked, WholeBackup
    <3> QED BY <3>1, <3>2, OverLinked
  <2>3. CASE session.todo # <<>>
    <3>1. \E todo : session' = [session EXCEPT !.todo = todo]
      BY <1>8, <2>3 DEF CreateTemplate
    <3>2. session'.file = session.file /\ session'.at = "templates"
      BY <2>1, <3>1, UnderWay DEF IInv
    <3> QED BY <1>2, <2>1, <3>2, OnLinked DEF Ends
  <2> QED BY <2>2, <2>3
<1>9. CASE Number
  <2>1. /\ session.at = "number" /\ session' = Idle("done")
        /\ database' = [Relinked(database) EXCEPT
                          !.pays = Restored(Relinked(database).recs, Relinked(database).pays)]
    BY <1>9 DEF Number, InStep
  <2>2. DatabaseOK(database) /\ RecordsApart(database.pays) /\ OpenFile(session.file)
    BY <2>1, WholeHolds DEF Steps
  <2>3. ASSUME WholeBackup(session.file) PROVE SameNames(session.file, database')
    <3>1. SameRecords(session.file, database)
      BY <2>1, <2>3 DEF LinksKept
    <3>2. session.file.pays \in Seq(Payments)
      BY <2>2 DEF OpenFile
    <3> QED BY <2>1, <2>2, <3>1, <3>2, NumberLinked
  <2>4. EndsLinked
    BY <2>3 DEF EndsLinked, SameNames
  <2> QED BY <2>1, <2>4, OverLinked
<1>10. CASE Raise \/ Cancel \/ CutOff
  <2>1. \E result \in {"failed", "none"} : session' = Idle(result)
    BY <1>10 DEF Raise, Cancel, CutOff
  <2>2. ~Ends("done")
    BY <2>1 DEF Ends, Idle
  <2> QED BY <1>2, <2>1, <2>2, OverLinked
<1> QED BY <1>1, <1>3, <1>4, <1>5, <1>6, <1>7, <1>8, <1>9, <1>10 DEF ImportNext

\* A backup gives every payment the record it had in the backup: for any database, and for any
\* backups in which the legs of a transfer stand together and a payment's record belongs to its
\* debt, as the program writes them.
THEOREM PaymentsKept ==
    ASSUME ImportAssumption, RecordsApartAtFirst, BackupsAsWritten
    PROVE  ImportSpec => PaymentsKeepTheirRecords
<1>1. ImportInit => IInv /\ WInv /\ LinksKept
  BY InitInvariant, InitWhole, InitLinked
<1>2. IInv /\ WInv /\ LinksKept /\ [ImportNext]_importVars
         => (IInv /\ WInv /\ LinksKept)' /\ [EndsLinked]_importVars
  BY NextHarmless, NextWhole, NextLinked
<1>3. ImportSpec => [][EndsLinked]_importVars
  BY <1>1, <1>2, PTL DEF ImportSpec
<1> QED BY <1>3 DEF PaymentsKeepTheirRecords, EndsLinked

=============================================================================
