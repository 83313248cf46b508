------------------------------ MODULE JsonStore ------------------------------
(***************************************************************************)
(* The repository over one JSON file                                       *)
(* (src/infrastructure/repositories.py, JsonFileRecordRepository).         *)
(*                                                                         *)
(* A change reads the file, changes what it read and puts a new file in    *)
(* the old one's place, all of it with the lock of the path.  A read brings *)
(* an old file into the present form and saves it, and has the lock for    *)
(* the reading and for the saving, but not in between.  A save may fail.   *)
(***************************************************************************)
EXTENDS JsonData, Functions

CONSTANTS
    FirstFiles,    \* files to begin with
    Balances,      \* to enter
    Names,         \* of tags
    Colours,
    Given,         \* ids that are handed in
    HighestId,     \* bounds: of ids,
    MaxRows        \* of the rows of all tables together, tags with them

JsonStoreAssumption ==
    Given \subseteq Nat \ {0} /\ HighestId \in Nat /\ MaxRows \in Nat /\ Balances \subseteq Int

VARIABLES
    file,   \* [is, data]: "absent", "damaged" or "json" with what it holds
    seen    \* what a read has found in an old file and is about to save, or none

vars == <<file, seen>>

Json(d) == [is |-> "json", data |-> d]

Absent == [is |-> "absent", data |-> NoData]

Damaged == [is |-> "damaged", data |-> NoData]

NotReading == Absent

Init ==
    /\ file \in {Absent, Damaged} \cup {Json(d) : d \in FirstFiles}
    /\ seen = NotReading

\* A damaged file is copied away and stays; the load raises, as it does where the
\* legs of a transfer are missing.
Readable(f) == f.is # "damaged" /\ (f.is = "json" => ValidTransfers(Normalized(f.data)))

Loaded(f) == IF f.is = "json" THEN Normalized(f.data) ELSE f.data

\* What a change loads.
Loads == IF Readable(file) THEN {Loaded(file)} ELSE {}

-----------------------------------------------------------------------------
(* Reading. *)

Read ==
    /\ seen = NotReading /\ Readable(file)
    /\ file.is = "json" /\ Loaded(file) # file.data
    /\ seen' = file
    /\ UNCHANGED file

Upgrade(saved) ==
    /\ seen # NotReading
    /\ file' = IF saved THEN Json(Loaded(seen)) ELSE file
    /\ seen' = NotReading

-----------------------------------------------------------------------------
(* Changes. *)

Size(d) ==
    Len(d.wallets) + Len(d.records) + Len(d.transfers) + Len(d.templates) + Len(d.debts)
    + Len(d.payments) + Len(d.tags)
    + Cardinality(UNION {{i} \X d.records[i].key.tags : i \in DOMAIN d.records})

Put(d) ==
    /\ Size(d) <= MaxRows
    /\ \A id \in Ids(d.wallets) \cup Ids(d.records) \cup Ids(d.templates) : id <= HighestId
    /\ file' = Json(d)
    /\ UNCHANGED seen

\* The load of a change saves an old file in its new form, the change saves again: the
\* second save fails, or the process ends before it.  If the first fails nothing
\* happens.
ChangeFails ==
    /\ Readable(file) /\ file.is = "json"
    /\ file' = Json(Loaded(file))
    /\ UNCHANGED seen

\* Replaces the first row of that id, or appends it.
Saved(rows, row) ==
    IF Named(row.id, rows) THEN [rows EXCEPT ![First(row.id, rows)] = row]
    ELSE Append(rows, row)

WithoutId(rows, id) == SelectSeq(rows, LAMBDA r : r.id # id)

Row(id, key, refs) == [id |-> id, key |-> key, refs |-> refs]

Links(transfer, debt) == [transfers |-> transfer, debts |-> debt]

CreateWallet(d) ==
    \E b \in Balances :
        Put([d EXCEPT !.wallets = Append(@, Row(NextId(@), b, <<>>))])

SaveWallet(d) ==
    \E id \in Given, b \in Balances :
        Put([d EXCEPT !.wallets = Saved(@, Row(id, b, <<>>))])

\* Whether a wallet is active is not in its row; the system wallet stays active.
SoftDeleteWallet(d) ==
    \E id \in Ids(d.wallets) \ {SystemWallet} : Put(d)

WithSystemBalance(d, b) ==
    IF Named(SystemWallet, d.wallets)
    THEN [d EXCEPT !.wallets[First(SystemWallet, d.wallets)].key = b]
    ELSE [d EXCEPT !.wallets = <<MainWallet(b)>> \o @]

SaveInitialBalance(d) ==
    \E b \in Balances : Put(WithSystemBalance(d, b))

\* An id that is taken is replaced by the next.
WithRecord(d, r) ==
    LET free == r.id > 0 /\ ~Named(r.id, d.records)
        id == IF free THEN r.id ELSE NextId(d.records)
    IN  [d EXCEPT !.records = Append(@, [r EXCEPT !.id = id])]

\* A leg may be saved by itself; the next load refuses it.
Save(d) ==
    \E id \in Given \cup {0}, debt \in {0} \cup Ids(d.debts),
       transfer \in {0} \cup Ids(d.transfers) :
        Put(WithRecord(d, Row(id, Text(FALSE, FALSE, 0, {}), Links(transfer, debt))))

Replace(d) ==
    \E i \in DOMAIN d.records :
        LET r == d.records[i] IN
        Put([d EXCEPT !.records =
            Saved(@, Row(r.id, Text(~r.key.income, FALSE, r.key.mark, r.key.tags), r.refs))])

DeleteByIndex(d) ==
    \E i \in DOMAIN d.records : Put([d EXCEPT !.records = RemoveAt(@, i)])

\* Transfers stay.
DeleteAll(d) == Put([d EXCEPT !.records = <<>>])

ReplaceRecords(d) ==
    \E b \in Balances : Put([WithSystemBalance(d, b) EXCEPT !.records = <<>>])

SaveTransfer(d) ==
    \E id \in Given : Put([d EXCEPT !.transfers = Saved(@, Row(id, "", <<>>))])

BothLegs(t) ==
    <<Row(1, Text(FALSE, FALSE, 0, {}), Links(t, 0)), Row(2, Text(TRUE, FALSE, 0, {}), Links(t, 0))>>

\* What is handed over is checked before it is saved.
ReplaceRecordsAndTransfers(d) ==
    \E t \in Given, legs \in {<<>>, BothLegs(1)} :
        LET new == [d EXCEPT !.records = legs, !.transfers = <<Row(t, "", <<>>)>>]
        IN  ValidTransfers(new) /\ Put(new)

\* Nothing is loaded: this replaces a damaged file, too.
ReplaceAllData ==
    \E b \in Balances, wallets \in {<<>>, <<Row(2, 0, <<>>)>>} :
        Put([NoData EXCEPT !.wallets = IF wallets = <<>> THEN <<MainWallet(b)>> ELSE wallets])

SaveDebt(d) ==
    \E id \in Given : Put([d EXCEPT !.debts = Saved(@, Row(id, "", <<>>))])

DeleteDebt(d) ==
    \E id \in Ids(d.debts) :
        Put([d EXCEPT
            !.debts = WithoutId(@, id),
            !.payments = SelectSeq(@, LAMBDA p : p.refs.debts # id),
            !.records = [i \in DOMAIN @ |->
                IF @[i].refs.debts = id THEN [@[i] EXCEPT !.refs.debts = 0] ELSE @[i]]])

ReplaceDebts(d) == Put([d EXCEPT !.debts = <<Row(1, "", <<>>)>>, !.payments = <<>>])

\* The debt is not looked for.
SaveDebtPayment(d) ==
    \E id, debt \in Given :
        Put([d EXCEPT !.payments = Saved(@, Row(id, "", [debts |-> debt]))])

DeleteDebtPayment(d) ==
    \E id \in Ids(d.payments) : Put([d EXCEPT !.payments = WithoutId(@, id)])

SaveMandatoryExpense(d) ==
    Put([d EXCEPT !.templates = Append(@, Row(NextId(@), "", <<>>))])

\* Nothing changes but what is in no row.
UpdateMandatoryExpense(d) == d.templates # <<>> /\ Put(d)

\* The ids of the others stay until the next load.
DeleteMandatoryExpenseByIndex(d) ==
    \E i \in DOMAIN d.templates : Put([d EXCEPT !.templates = RemoveAt(@, i)])

DeleteAllMandatoryExpenses(d) == Put([d EXCEPT !.templates = <<>>])

ReplaceMandatoryExpenses(d) ==
    Put([d EXCEPT !.templates = Renumbered(Append(<<>>, Row(7, "", <<>>)))])

-----------------------------------------------------------------------------
(* Tags: each record has its names, colours stand beside. *)

ReplaceRecordTags(d) ==
    \E i \in DOMAIN d.records, names \in SUBSET Names :
        Put([d EXCEPT !.records[First(d.records[i].id, d.records)].key.tags = names])

OnTags(records, Op(_)) ==
    [i \in DOMAIN records |-> [records[i] EXCEPT !.key.tags = Op(@)]]

\* Where the new name has a colour as well, there are two rows of that name.
RenameTag(d) ==
    \E old, new \in Names :
        Put([d EXCEPT
            !.records = OnTags(@, LAMBDA ts : {IF t = old THEN new ELSE t : t \in ts}),
            !.tags = [i \in DOMAIN @ |->
                IF @[i].id = old THEN [@[i] EXCEPT !.id = new] ELSE @[i]]])

DeleteTag(d) ==
    \E name \in Names :
        Put([d EXCEPT !.records = OnTags(@, LAMBDA ts : ts \ {name}),
                            !.tags = WithoutId(@, name)])

SetTagColor(d) ==
    \E name \in Names, colour \in Colours :
        Put([d EXCEPT !.tags = Saved(@, Row(name, colour, <<>>))])

-----------------------------------------------------------------------------
SetsBalances ==
    \/ ReplaceAllData
    \/ \E d \in Loads : SaveWallet(d) \/ SaveInitialBalance(d) \/ ReplaceRecords(d)

Next ==
    \/ Read \/ \E saved \in BOOLEAN : Upgrade(saved)
    \/ ChangeFails \/ ReplaceAllData
    \/ \E d \in Loads :
          \/ CreateWallet(d) \/ SaveWallet(d) \/ SoftDeleteWallet(d) \/ SaveInitialBalance(d)
          \/ Save(d) \/ Replace(d) \/ DeleteByIndex(d) \/ DeleteAll(d) \/ ReplaceRecords(d)
          \/ SaveTransfer(d) \/ ReplaceRecordsAndTransfers(d)
          \/ SaveDebt(d) \/ DeleteDebt(d) \/ ReplaceDebts(d)
          \/ SaveDebtPayment(d) \/ DeleteDebtPayment(d)
          \/ SaveMandatoryExpense(d) \/ UpdateMandatoryExpense(d)
          \/ DeleteMandatoryExpenseByIndex(d) \/ DeleteAllMandatoryExpenses(d)
          \/ ReplaceMandatoryExpenses(d)
          \/ ReplaceRecordTags(d) \/ RenameTag(d) \/ DeleteTag(d) \/ SetTagColor(d)

Spec == Init /\ [][Next]_vars

-----------------------------------------------------------------------------
(* Properties. *)

TypeOK ==
    /\ file.is \in {"absent", "damaged", "json"}
    /\ file.is # "json" => file.data = NoData
    /\ seen # NotReading => seen.is = "json" /\ Loaded(seen) # seen.data

Openings(f) ==
    LET wallets == IF f.is = "json" THEN NormalizedWallets(f.data) ELSE f.data.wallets
    IN  [id \in Ids(wallets) |-> wallets[First(id, wallets)].key]

\* What stands in a file of the old form beside the wallets is counted once, however
\* often the file is read, whatever is changed meanwhile and wherever a save fails: the
\* opening balance of a wallet stays but for what sets it, and for a reader that saves
\* what it read before another change.
OpeningBalancesStay ==
    [][file' # file =>
          \/ LET before == Openings(file)
                 after == Openings(file')
             IN  DOMAIN before \subseteq DOMAIN after /\ before = Restrict(after, DOMAIN before)
          \/ seen # NotReading /\ seen' = NotReading /\ file # seen
          \/ SetsBalances]_vars
=============================================================================
