------------------------------ MODULE MCParts ------------------------------
(***************************************************************************)
(* The instances of the modules that stand for themselves, checked in one  *)
(* run: in a behaviour one part of the application moves, and the others   *)
(* stay as they began.  Parts that act on each other are composed within   *)
(* their module.  The payments, the rates, the import, the backups and the *)
(* update are extended rather than instantiated: their properties are      *)
(* those that PartsProofs and ImportProofs prove.                          *)
(***************************************************************************)
EXTENDS Rates, Import, Backup, AppUpdate, Mandatory, Tags, TLC

VARIABLE part
VARIABLES file, seen
VARIABLES source, target, draft, maps, at, result

storeVars == <<file, seen>>
migrationVars == <<source, target, draft, maps, at, result>>

partsVars == <<part, mandatoryVars, tagsVars, importVars, appUpdateVars, backupVars,
               vars, storeVars, migrationVars>>

-----------------------------------------------------------------------------
\* Two years of two months; all but one have a single day.
YearLengths == <<1, 2, 1, 1>>

\* Both names of tags have one colour by their hash.
TagHashes == 1 :> "red" @@ 2 :> "red"

-----------------------------------------------------------------------------
(* Files to import: rows named by letters, debts 1 and 2, of which 2 is a loan. *)

Record(who, key, type, debt) ==
    [who |-> who, key |-> key, type |-> type, debt |-> debt, pair |-> 0, std |-> debt # 0]

Row(who, key, type, debt) == Record(who, key, type, debt) @@ [bad |-> FALSE]

Leg(who, type) == [Row(who, 1, type, 0) EXCEPT !.pair = 5]

Pay(debt, rec, key, off) == [debt |-> debt, rec |-> rec, key |-> key, off |-> off]

Table(content) ==
    [type |-> "csv", rows |-> content, pays |-> <<>>, debts |-> {}, hasDebts |-> FALSE,
     wallets |-> FALSE, templates |-> <<>>, extra |-> FALSE]

RecordsOnly == [Table(<<[Row("e", 1, "out", 0) EXCEPT !.bad = TRUE],
                        Row("f", 1, "out", 2), Row("g", 1, "in", 2)>>) EXCEPT !.type = "json"]

\* Wallets and nothing else: all operations go.
WalletsOnly == [Table(<<>>) EXCEPT !.type = "json", !.wallets = TRUE]

\* A transfer, a payment with its record, one that was written off, a plain record
\* that looks like it.
FullBackup ==
    [type |-> "json",
     rows |-> <<Leg("a", "out"), Leg("b", "in"), Row("d", 1, "out", 0), Row("c", 1, "out", 1)>>,
     pays |-> <<Pay(1, 4, 1, FALSE), Pay(1, 0, 1, TRUE)>>, debts |-> {1}, hasDebts |-> TRUE,
     wallets |-> TRUE, templates |-> <<"m">>, extra |-> TRUE]

\* Two payments that read alike; the record of one cannot be read.
BrokenBackup ==
    [FullBackup EXCEPT
        !.rows = <<Row("e", 1, "out", 0), Row("f", 1, "in", 2),
                   [Row("g", 1, "in", 2) EXCEPT !.bad = TRUE]>>,
        !.pays = <<Pay(2, 2, 1, FALSE), Pay(2, 3, 1, FALSE)>>, !.debts = {2},
        !.wallets = FALSE, !.templates = <<>>, !.extra = FALSE]

ImportFiles ==
    {FullBackup, BrokenBackup, RecordsOnly, WalletsOnly, Table(<<>>),
     Table(<<Row("d", 1, "out", 0), Leg("a", "out"), Leg("b", "in"), Row("h", 1, "out", 0)>>),
     [Table(<<Leg("a", "out")>>) EXCEPT !.templates = <<"n">>]}

ImportDatabase ==
    [recs |-> <<Record("x", 1, "out", 1), Record("y", 2, "in", 2)>>,
     pays |-> <<Pay(1, 1, 1, FALSE), Pay(2, 2, 2, FALSE)>>,
     debts |-> {1, 2}, templates |-> <<"t">>, relaxed |-> FALSE, extra |-> FALSE]

-----------------------------------------------------------------------------
Version(core, pre) == [core |-> core, pre |-> pre]

Released(version) == [version |-> version, asset |-> TRUE]

UpdateVersions ==
    {Version(1, 0), Version(2, 1), Version(2, 2), Version(2, 0), Version(3, 0)}

UpdateFirst == Version(2, 1)

UpdateReleases ==
    {<<Released(Version(2, 2))>>,
     <<Released(Version(2, 0)), Released(Version(2, 2))>>,
     <<[Released(Version(3, 0)) EXCEPT !.asset = FALSE], Released(Version(2, 0))>>,
     <<Released(Version(3, 0)), Released(Version(1, 0))>>}

-----------------------------------------------------------------------------
(* Files of the JSON format. *)

JsonRow(id, key, refs) == [id |-> id, key |-> key, refs |-> refs]

JsonRecord(id, income, commission, tags, wallet, transfer, debt) ==
    JsonRow(id, [income |-> income, commission |-> commission, mark |-> 0, tags |-> tags],
            [wallets |-> wallet, transfers |-> transfer, debts |-> debt])

NoRows ==
    [wallets |-> <<>>, legacy |-> {}, records |-> <<>>, transfers |-> <<>>,
     templates |-> <<>>, debts |-> <<>>, payments |-> <<>>, tags |-> <<>>]

\* One balance and no wallets; wallets without the system wallet; all of it, with a
\* commission that is linked to its transfer.
FirstFiles ==
    {[NoRows EXCEPT !.legacy = {5},
                    !.records = <<JsonRecord(0, FALSE, FALSE, {}, 1, 0, 0)>>],
     [NoRows EXCEPT !.wallets = <<JsonRow(2, 3, <<>>)>>,
                    !.templates = <<JsonRow(3, "", <<>>)>>],
     [NoRows EXCEPT !.wallets = <<JsonRow(1, 3, <<>>), JsonRow(0, 3, <<>>)>>, !.legacy = {5},
                    !.transfers = <<JsonRow(1, "", <<>>)>>,
                    !.records = <<JsonRecord(2, FALSE, FALSE, {}, 1, 1, 0),
                                  JsonRecord(2, TRUE, FALSE, {}, 1, 1, 0),
                                  JsonRecord(4, FALSE, TRUE, {}, 1, 1, 0)>>]}

JsonStore == INSTANCE JsonStore WITH
    Names <- {"a", "b"}, Colours <- {"red"}, Given <- {1}, Balances <- {3},
    HighestId <- 2, MaxRows <- 4

EmptyFile ==
    NoRows @@ [t \in {"budgets", "assets", "snapshots", "goals", "items", "subitems", "months"}
                  |-> <<>>]

\* A row in every table; ids that are not from 1, records that share one, a tag that
\* only a record names.
WholeFile ==
    [EmptyFile EXCEPT
        !.wallets = <<JsonRow(1, 3, <<>>), JsonRow(4, 0, <<>>)>>, !.legacy = {5},
        !.transfers = <<JsonRow(3, "", [from |-> 1, to |-> 4])>>,
        !.records = <<JsonRecord(7, FALSE, FALSE, {}, 1, 3, 0),
                      JsonRecord(2, TRUE, FALSE, {"b"}, 4, 3, 0),
                      JsonRecord(2, FALSE, FALSE, {"a", "c"}, 1, 0, 5)>>,
        !.debts = <<JsonRow(5, "", <<>>)>>,
        !.payments = <<JsonRow(6, "", [debts |-> 5, records |-> 2]),
                       JsonRow(7, "", [debts |-> 5, records |-> 0])>>,
        !.tags = <<JsonRow(4, "a", <<>>)>>,
        !.templates = <<JsonRow(9, "", [wallets |-> 4])>>,
        !.budgets = <<JsonRow(2, "", <<>>)>>, !.assets = <<JsonRow(3, "", <<>>)>>,
        !.snapshots = <<JsonRow(2, "", [assets |-> 3])>>, !.goals = <<JsonRow(2, "", <<>>)>>,
        !.items = <<JsonRow(2, "", <<>>)>>,
        !.subitems = <<JsonRow(2, "", [items |-> 2])>>,
        !.months = <<JsonRow(11, "", <<>>)>>]

\* Nothing; all of it; only what records do not need; with an id that comes twice, is
\* negative or 0; with a payment of no debt.
Sources ==
    {EmptyFile, WholeFile,
     [WholeFile EXCEPT !.wallets = <<>>, !.transfers = <<>>, !.records = <<>>,
                       !.debts = <<>>, !.payments = <<>>, !.templates = <<>>, !.tags = <<>>],
     [WholeFile EXCEPT !.wallets = Append(@, JsonRow(4, 1, <<>>))],
     [WholeFile EXCEPT !.transfers = Append(@, JsonRow(3, "", [from |-> 4, to |-> 1]))],
     [WholeFile EXCEPT !.budgets = @ \o @],
     [WholeFile EXCEPT !.debts = <<JsonRow(-1, "", <<>>)>>, !.records = SubSeq(@, 1, 2),
                       !.payments = <<JsonRow(6, "", [debts |-> -1, records |-> 2])>>],
     [WholeFile EXCEPT !.payments = <<JsonRow(0, "", [debts |-> 5, records |-> 2])>>],
     [WholeFile EXCEPT !.payments = <<JsonRow(6, "", [debts |-> 9, records |-> 2])>>]}

Migration == INSTANCE Migration

ASSUME PartsAssumption ==
    /\ MandatoryAssumption /\ TagsAssumption
    /\ ImportAssumption /\ RecordsApartAtFirst /\ BackupsAsWritten
    /\ AppUpdateAssumption /\ BackupAssumption /\ RatesAssumption /\ JsonStore!JsonStoreAssumption

-----------------------------------------------------------------------------
Parts == {"mandatory", "tags", "import", "update", "backup", "rates", "store", "migration"}

PartsInit ==
    /\ part \in Parts
    /\ MandatoryInit /\ TagsInit /\ ImportInit /\ AppUpdateInit /\ BackupInit
    /\ Init /\ JsonStore!Init /\ Migration!Init
    /\ part # "store" => file = JsonStore!Absent
    /\ part # "migration" => source = EmptyFile

Others(p) ==
    /\ UNCHANGED part
    /\ p # "mandatory"    => UNCHANGED mandatoryVars
    /\ p # "tags"         => UNCHANGED tagsVars
    /\ p # "import"       => UNCHANGED importVars
    /\ p # "update"       => UNCHANGED appUpdateVars
    /\ p # "backup"       => UNCHANGED backupVars
    /\ p # "rates"        => UNCHANGED vars
    /\ p # "store"        => UNCHANGED storeVars
    /\ p # "migration"    => UNCHANGED migrationVars

PartsNext ==
    \/ part = "mandatory"    /\ MandatoryNext     /\ Others("mandatory")
    \/ part = "tags"         /\ TagsNext          /\ Others("tags")
    \/ part = "import"       /\ ImportNext        /\ Others("import")
    \/ part = "update"       /\ AppUpdateNext     /\ Others("update")
    \/ part = "backup"       /\ BackupNext        /\ Others("backup")
    \/ part = "rates"        /\ Next              /\ Others("rates")
    \/ part = "store"        /\ JsonStore!Next    /\ Others("store")
    \/ part = "migration"    /\ Migration!Next    /\ Others("migration")

PartsSpec == PartsInit /\ [][PartsNext]_partsVars

OnlyImportSpec == PartsInit /\ part = "import" /\ [][PartsNext]_partsVars

OnlyRatesSpec == PartsInit /\ part = "rates" /\ [][PartsNext]_partsVars

-----------------------------------------------------------------------------
(* Properties: those of the modules, each for its part.  Those of the        *)
(* modules extended are there by name: in a behaviour of another part they   *)
(* hold of what stays.                                                       *)

\* Types of every part.
PartsTypeOK ==
    /\ part = "mandatory"    => MandatoryTypeOK
    /\ part = "tags"         => TagsTypeOK
    /\ part = "import"       => ImportTypeOK
    /\ part = "update"       => AppUpdateTypeOK
    /\ part = "backup"       => BackupTypeOK
    /\ part = "rates"        => TypeOK
    /\ part = "store"        => JsonStore!TypeOK
    /\ part = "migration"    => Migration!TypeOK

\* A balance of an old file is counted once.
OpeningBalancesStay == JsonStore!OpeningBalancesStay

\* A migration brings all of a file or nothing.
ArrivesWholeOrNotAtAll == Migration!ArrivesWholeOrNotAtAll
=============================================================================
