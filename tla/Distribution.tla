---------------------------- MODULE Distribution ----------------------------
(***************************************************************************)
(* The distribution of a month's net income over items and subitems, and   *)
(* the months that are fixed (src/services/planning/distribution/).        *)
(*                                                                         *)
(* An item, or a subitem of one, gets a part of the income in hundredths   *)
(* of a percent, rounded for itself.  A month that is fixed keeps its row  *)
(* as it was: by hand until it is toggled back, or for good when the       *)
(* maintenance after a start finds it closed.                              *)
(*                                                                         *)
(* Items and subitems are "lines", numbered by one counter; a line without *)
(* a parent is an item.  Transfers take no part and are left out; so is    *)
(* the order of the columns.                                               *)
(***************************************************************************)
EXTENDS Tables, FiniteSetsExt, SequencesExt

CONSTANTS
    LastMonth,     \* bound: the last month
    Amounts,       \* the signed amounts of records, in minor units
    LineNames,     \* names of lines
    Percents,      \* percentages a user enters
    FullPct,       \* one hundred percent
    FirstLines,    \* the lines at first
    LineBackups,   \* backups to import: their lines and fixed rows
    MaxPerMonth,   \* bound: records in a month
    MaxLines       \* bound: lines ever created

Months == 1 .. LastMonth

NoParent == 0

\* Each line has its id, and a subitem has an item.
LinesOK(some) ==
    /\ IsFiniteSet(some)
    /\ some \subseteq [id : Nat \ {0}, parent : Nat, name : LineNames, pct : Int, active : BOOLEAN]
    /\ \A k, l \in some : k.id = l.id => k = l
    /\ \A l \in some :
          l.parent = NoParent \/ \E i \in some : i.id = l.parent /\ i.parent = NoParent

FixedOK(rows) ==
    /\ rows = [m \in Months |-> rows[m]]
    /\ \A m \in Months :
          /\ rows[m].auto \in BOOLEAN /\ rows[m].live \in BOOLEAN /\ rows[m].net \in Int
          /\ \A id \in DOMAIN rows[m].share : rows[m].share[id] \in Int

DistributionAssumption ==
    /\ LastMonth \in Nat \ {0} /\ Amounts \subseteq Int
    /\ FullPct \in Nat \ {0} /\ Percents \subseteq 0 .. FullPct
    /\ LinesOK(FirstLines) /\ \A l \in FirstLines : l.id <= Cardinality(FirstLines)
    /\ \A backup \in LineBackups : LinesOK(backup.lines) /\ FixedOK(backup.fixed)

VARIABLES
    now,      \* the month of today
    entries,  \* month -> the amounts of its records
    lines,    \* the items and subitems
    lineIds,  \* the ids ever given to lines
    fixed,    \* month -> its row, if it is fixed
    freezing  \* the months the maintenance still has to look at

distributionVars == <<now, entries, lines, lineIds, fixed, freezing>>

NotFixed == [auto |-> FALSE, net |-> 0, share |-> <<>>, live |-> TRUE]

IsFixed(m) == ~fixed[m].live

-----------------------------------------------------------------------------
(* The distribution. *)

Items == {l \in lines : l.parent = NoParent /\ l.active}

SubitemsOf(item) == {l \in lines : l.parent = item.id /\ l.active}

SumOver(column, some) == LET Value(x) == column[x] IN MapThenSumSet(Value, some)

SumOfPercents(some) == SumOver([l \in some |-> l.pct], some)

\* validate
AddUpToFull ==
    /\ SumOfPercents(Items) = FullPct
    /\ \A item \in Items :
          SubitemsOf(item) # {} => SumOfPercents(SubitemsOf(item)) = FullPct

NetIncome(m) == SumOver(entries[m], DOMAIN entries[m])

Magnitude(x) == IF x < 0 THEN -x ELSE x

\* Rounded half away from zero.
ApplyPct(amount, pct) ==
    LET whole   == amount * pct
        rounded == (2 * Magnitude(whole) + FullPct) \div (2 * FullPct)
    IN  IF whole < 0 THEN -rounded ELSE rounded

Shown == Items \cup UNION {SubitemsOf(item) : item \in Items}

ItemShare(m, item) == ApplyPct(NetIncome(m), item.pct)

\* (Mutant of MonthlyDistribution: a subitem gets its part of the income.)
MonthlyDistributionOfNet(m) ==
    [net |-> NetIncome(m),
     share |-> [id \in {l.id : l \in Shown} |->
         ItemShare(m, CHOOSE l \in Shown : l.id = id)]]

\* The live row: what every line gets of the month.
MonthlyDistribution(m) ==
    [net |-> NetIncome(m),
     share |-> [id \in {l.id : l \in Shown} |->
         LET line == CHOOSE l \in Shown : l.id = id
         IN  IF line.parent = NoParent THEN ItemShare(m, line)
             ELSE ApplyPct(ItemShare(m, CHOOSE i \in Items : i.id = line.parent), line.pct)]]

FrozenRow(m, auto) ==
    LET row == MonthlyDistribution(m)
    IN  [auto |-> auto, net |-> row.net, share |-> row.share, live |-> FALSE]

-----------------------------------------------------------------------------
(* Initial states. *)

DistributionInit ==
    /\ now = 1
    /\ entries = [m \in Months |-> <<>>]
    /\ lines = FirstLines
    /\ lineIds = Cardinality(FirstLines)
    /\ fixed = [m \in Months |-> NotFixed]
    /\ freezing = <<>>

\* The window is locked while the maintenance runs.
Idle == freezing = <<>>

-----------------------------------------------------------------------------
(* Records, as far as the distribution sees them. *)

AddEntry(m, amount) ==
    /\ Idle /\ m <= now /\ Len(entries[m]) < MaxPerMonth
    /\ entries' = [entries EXCEPT ![m] = Append(@, amount)]
    /\ UNCHANGED <<now, lines, lineIds, fixed, freezing>>

DeleteEntry(m, n) ==
    /\ Idle /\ n \in DOMAIN entries[m]
    /\ entries' = [entries EXCEPT ![m] = RemoveAt(@, n)]
    /\ UNCHANGED <<now, lines, lineIds, fixed, freezing>>

NextMonth ==
    /\ now < LastMonth
    /\ now' = now + 1
    /\ UNCHANGED <<entries, lines, lineIds, fixed, freezing>>

-----------------------------------------------------------------------------
(* Lines. *)

Taken(parent, name) == \E l \in lines : l.parent = parent /\ l.name = name

\* create_item and create_subitem
CreateLine(parent, name, pct) ==
    /\ Idle /\ lineIds < MaxLines
    /\ parent \in {l.id : l \in {i \in lines : i.parent = NoParent}} \cup {NoParent}
    /\ ~Taken(parent, name)
    /\ lineIds' = lineIds + 1
    /\ lines' = lines \cup {[id |-> lineIds', parent |-> parent, name |-> name,
                             pct |-> pct, active |-> TRUE]}
    /\ UNCHANGED <<now, entries, fixed, freezing>>

Changed(line, to) == lines' = (lines \ {line}) \cup {to}

UpdatePct(line, pct) ==
    /\ Idle
    /\ Changed(line, [line EXCEPT !.pct = pct])
    /\ UNCHANGED <<now, entries, lineIds, fixed, freezing>>

UpdateName(line, name) ==
    /\ Idle /\ (name = line.name \/ ~Taken(line.parent, name))
    /\ Changed(line, [line EXCEPT !.name = name])
    /\ UNCHANGED <<now, entries, lineIds, fixed, freezing>>

\* An item takes its subitems with it.
DeleteLine(line) ==
    /\ Idle
    /\ lines' = {l \in lines : l # line /\ l.parent # line.id}
    /\ UNCHANGED <<now, entries, lineIds, fixed, freezing>>

-----------------------------------------------------------------------------
(* Fixed months. *)

\* The user may toggle any month that the table shows.
InTable(m) == entries[m] # <<>> \/ IsFixed(m)

Freeze(m) ==
    /\ Idle /\ InTable(m) /\ ~IsFixed(m)
    /\ fixed' = [fixed EXCEPT ![m] = FrozenRow(m, FALSE)]
    /\ UNCHANGED <<now, entries, lines, lineIds, freezing>>

Unfreeze(m) ==
    /\ Idle /\ IsFixed(m) /\ ~fixed[m].auto
    /\ fixed' = [fixed EXCEPT ![m] = NotFixed]
    /\ UNCHANGED <<now, entries, lines, lineIds, freezing>>

\* The maintenance after a start reads which closed months have records ...
FreezeClosedMonths ==
    /\ Idle
    /\ freezing' = Reinserted([m \in {i \in 1 .. now - 1 : entries[i] # <<>>} |-> m])
    /\ UNCHANGED <<now, entries, lines, lineIds, fixed>>

\* (Mutant of FreezeNext: a month that is fixed is fixed again.)
FreezeNextAgain ==
    /\ ~Idle
    /\ fixed' = [fixed EXCEPT ![Head(freezing)] = FrozenRow(Head(freezing), TRUE)]
    /\ freezing' = Tail(freezing)
    /\ UNCHANGED <<now, entries, lines, lineIds>>

\* ... and fixes them, a commit for each, unless they are fixed.
FreezeNext ==
    /\ ~Idle
    /\ fixed' = IF IsFixed(Head(freezing)) THEN fixed
                ELSE [fixed EXCEPT ![Head(freezing)] = FrozenRow(Head(freezing), TRUE)]
    /\ freezing' = Tail(freezing)
    /\ UNCHANGED <<now, entries, lines, lineIds>>

\* The process ends during the maintenance.
FreezingEnds ==
    /\ ~Idle
    /\ freezing' = <<>>
    /\ UNCHANGED <<now, entries, lines, lineIds, fixed>>

\* replace_structure and replace_frozen_rows: an import takes both from a backup.
\* Ids go on from the highest in it, or as before.
ImportDistribution(backup) ==
    /\ Idle
    /\ lines' = backup.lines
    /\ lineIds' = IF backup.lines = {} THEN lineIds ELSE Max({l.id : l \in backup.lines})
    /\ fixed' = backup.fixed
    /\ UNCHANGED <<now, entries, freezing>>

DistributionNext ==
    \/ \E m \in Months :
          \/ \E amount \in Amounts : AddEntry(m, amount)
          \/ \E n \in 1 .. MaxPerMonth : DeleteEntry(m, n)
          \/ Freeze(m)
          \/ Unfreeze(m)
    \/ NextMonth
    \/ \E parent \in {l.id : l \in lines} \cup {NoParent}, name \in LineNames, pct \in Percents :
          CreateLine(parent, name, pct)
    \/ \E line \in lines :
          \/ \E pct \in Percents : UpdatePct(line, pct)
          \/ \E name \in LineNames : UpdateName(line, name)
          \/ DeleteLine(line)
    \/ FreezeClosedMonths \/ FreezeNext \/ FreezingEnds
    \/ \E backup \in LineBackups : ImportDistribution(backup)

DistributionSpec == DistributionInit /\ [][DistributionNext]_distributionVars

-----------------------------------------------------------------------------
(* Properties. *)

DistributionTypeOK ==
    /\ now \in Months
    /\ entries \in [Months -> Seq(Amounts)]
    /\ LinesOK(lines) /\ lineIds \in Nat
    /\ \A l \in lines : l.id <= lineIds
    /\ FixedOK(fixed)
    /\ freezing \in Seq(Months)

\* A fixed row stays whatever happens to the records, the items and the names, and
\* however often maintenance runs: until the user toggles a row that was fixed by
\* hand, or a backup is imported.
FixedRowsStay ==
    [][\A m \in Months :
        IsFixed(m) /\ fixed'[m] # fixed[m] =>
            \/ fixed'[m] = NotFixed /\ ~fixed[m].auto
            \/ \E backup \in LineBackups : ImportDistribution(backup)]_distributionVars

\* Items that make up one hundred percent share out the whole net income, and
\* subitems the whole share of their item, within half a minor unit for each.
SharesAddUp ==
    LET near(sum, whole, parts) == 2 * Magnitude(sum - whole) <= Cardinality(parts)
        sumOf(row, parts) == SumOver([l \in parts |-> row.share[l.id]], parts)
    IN  AddUpToFull => \A m \in Months :
            LET row == MonthlyDistribution(m)
            IN  /\ near(sumOf(row, Items), row.net, Items)
                /\ \A item \in Items : SubitemsOf(item) # {} =>
                      near(sumOf(row, SubitemsOf(item)), row.share[item.id], SubitemsOf(item))
=============================================================================
