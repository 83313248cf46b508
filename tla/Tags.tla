-------------------------------- MODULE Tags --------------------------------
(***************************************************************************)
(* The tags of records: table tags with a colour, a usage count and the    *)
(* date of last use of every name, and table record_tags                   *)
(* (src/infrastructure/sqlite_repository.py, sqlite/bulk_replace.py).      *)
(*                                                                         *)
(* Every save counts the uses again, drops the tags nobody uses and        *)
(* numbers the rest from 1.  A deletion of a record is committed before    *)
(* the tables are rewritten, and the rewrite drops all tags and makes them *)
(* again from the records, so the colours chosen for them are lost.  The   *)
(* records are a sequence in the order of their ids; names are numbers, in *)
(* the order in which the code sorts them.                                 *)
(***************************************************************************)
EXTENDS Tables, Sequences, FiniteSetsExt
Audit == INSTANCE Audit

CONSTANTS
    Labels,     \* the names of tags, as their ranks in sorted order
    Colours,      \* the colours a user may choose
    Hashed,       \* the colour color_for_tag gives to a name
    TagDates,     \* the dates of records
    MaxPerRecord, \* MAX_TAGS_PER_RECORD
    MaxTagged,    \* bound: records at a time
    MaxTagId      \* bound: the ids of tags a user makes by choosing colours

TagsAssumption ==
    /\ Labels \subseteq Nat \ {0} /\ TagDates \subseteq Nat \ {0}
    /\ Hashed \in [Labels -> Colours]
    /\ MaxPerRecord \in Nat /\ MaxTagged \in Nat /\ MaxTagId \in Nat

VARIABLES
    db,      \* [tags: the rows by id, counter: their AUTOINCREMENT counter,
             \*  records: sequence of their date and tag ids]
    pending, \* the deletion whose rewrite is due: "no", "gap" or "tail"
    cut      \* has a deletion been cut off since the uses were last counted?

tagsVars == <<db, pending, cut>>

\* The tag id of a name.
IdOf(tags, n) == CHOOSE t \in DOMAIN tags : tags[t].name = n

NamesIn(tags) == {tags[t].name : t \in DOMAIN tags}

NamesOf(d, i) == {d.tags[t].name : t \in d.records[i].tags \cap DOMAIN d.tags}

Users(d, t) == {i \in DOMAIN d.records : t \in d.records[i].tags}

\* _refresh_tag_metrics: uses and date of last use, counted in record_tags.
Refreshed(d) ==
    [d EXCEPT !.tags = [t \in DOMAIN d.tags |->
        [d.tags[t] EXCEPT
            !.uses = Cardinality(Users(d, t)),
            !.last = Max({0} \cup {d.records[i].date : i \in Users(d, t)})]]]

\* _normalize_tag_ids: ids 1..n in order; record_tags follows by its foreign key.
Normalized(d) ==
    [tags |-> Reinserted(d.tags),
     counter |-> Cardinality(DOMAIN d.tags),
     records |-> [i \in DOMAIN d.records |->
        [d.records[i] EXCEPT !.tags = {Rank(DOMAIN d.tags, t) : t \in @}]]]

\* _prune_orphan_tags
Pruned(d) ==
    Normalized([d EXCEPT !.tags = Without(d.tags, {t \in DOMAIN d.tags : Users(d, t) = {}})])

Unused(n) == [name |-> n, colour |-> Hashed[n], uses |-> 0, last |-> 0]

\* _ensure_tag_id, for one name after the other: those that are not known get a row
\* each, in the colour of its hash.
Ensured(d, ns) ==
    LET new == ns \ NamesIn(d.tags)
        last == d.counter + Cardinality(new)
    IN  [tags |-> [t \in DOMAIN d.tags \cup (d.counter + 1 .. last) |->
                      IF t \in DOMAIN d.tags THEN d.tags[t]
                      ELSE Unused(Nth(new, t - d.counter))],
         counter |-> last,
         records |-> d.records]

\* Record i gets exactly the tags of the names ns.
Labelled(d, i, ns) ==
    LET e        == Ensured(d, ns)
        labelled == [e.records[i] EXCEPT !.tags = {IdOf(e.tags, n) : n \in ns}]
    IN  [e EXCEPT !.records = [e.records EXCEPT ![i] = labelled]]

\* (Mutant of Counted: the orphans go first and the uses are counted from the last time.)
CountedBefore(d) == Pruned(d)

\* The end of _replace_record_tags_many.
Counted(d) == Pruned(Refreshed(d))

\* replace_all_data without tags: all tags are dropped and made again, record after
\* record, so that a name comes where the first record has it.
Rebuilt(d) ==
    LET names == UNION {NamesOf(d, i) : i \in DOMAIN d.records}
        first(n) == Min({i \in DOMAIN d.records : n \in NamesOf(d, i)})
        place(n) == Cardinality({m \in names :
            first(m) < first(n) \/ (first(m) = first(n) /\ m <= n)})
    IN  Counted([tags |-> [t \in 1 .. Cardinality(names) |->
                              Unused(CHOOSE n \in names : place(n) = t)],
                 counter |-> Cardinality(names),
                 records |-> [i \in DOMAIN d.records |-> [d.records[i] EXCEPT
                    !.tags = {place(n) : n \in NamesOf(d, i)}]]])

TagsInit ==
    /\ db = [tags |-> <<>>, counter |-> 0, records |-> <<>>]
    /\ pending = "no"
    /\ cut = FALSE

CountsUses == cut' = FALSE

NameSets == {ns \in SUBSET Labels : IsFiniteSet(ns) /\ Cardinality(ns) <= MaxPerRecord}

-----------------------------------------------------------------------------
SaveRecord(ns, date) ==
    /\ pending = "no"
    /\ Len(db.records) < MaxTagged
    /\ LET added == [db EXCEPT !.records = Append(@, [date |-> date, tags |-> {}])]
       IN  db' = Counted(Labelled(added, Len(added.records), ns))
    /\ CountsUses
    /\ UNCHANGED pending

\* replace and replace_record_tags
ReplaceRecord(i, ns, date) ==
    /\ pending = "no"
    /\ LET dated == [db.records[i] EXCEPT !.date = date]
       IN  db' = Counted(Labelled(
                     [db EXCEPT !.records = [db.records EXCEPT ![i] = dated]], i, ns))
    /\ CountsUses
    /\ UNCHANGED pending

\* delete_by_index, up to its commit; record_tags follows.
DeleteRecord(i) ==
    /\ pending = "no"
    /\ db' = [db EXCEPT !.records = SubSeq(@, 1, i - 1) \o SubSeq(@, i + 1, Len(@))]
    /\ pending' = IF i = Len(db.records) THEN "tail" ELSE "gap"
    /\ UNCHANGED cut

\* _renormalize_current_ids
Renumber ==
    /\ pending # "no"
    /\ db' = Rebuilt(db)
    /\ pending' = "no"
    /\ CountsUses

DeleteAllRecords ==
    /\ pending = "no"
    /\ db' = Pruned([db EXCEPT !.records = <<>>])
    /\ CountsUses
    /\ UNCHANGED pending

\* rename_tag: a name that is known takes the records of the old one.
RenameTag(old, new) ==
    /\ pending = "no"
    /\ old \in NamesIn(db.tags)
    /\ LET o       == IdOf(db.tags, old)
           n       == IdOf(db.tags, new)
           renamed == [db.tags[o] EXCEPT !.name = new]
       IN  db' = Counted(
               IF new \in NamesIn(db.tags) \ {old}
               THEN [tags |-> Without(db.tags, {o}),
                     counter |-> db.counter,
                     records |-> [i \in DOMAIN db.records |-> [db.records[i] EXCEPT
                        !.tags = IF o \in @ THEN (@ \ {o}) \cup {n} ELSE @]]]
               ELSE [db EXCEPT !.tags = [db.tags EXCEPT ![o] = renamed]])
    /\ CountsUses
    /\ UNCHANGED pending

\* delete_tag counts the uses again, but numbers nothing.
DeleteTag(n) ==
    /\ pending = "no"
    /\ n \in NamesIn(db.tags)
    /\ LET gone == IdOf(db.tags, n)
       IN  db' = Refreshed([tags |-> Without(db.tags, {gone}),
                            counter |-> db.counter,
                            records |-> [i \in DOMAIN db.records |->
                                [db.records[i] EXCEPT !.tags = @ \ {gone}]]])
    /\ CountsUses
    /\ UNCHANGED pending

\* set_tag_color: a name that is not known gets a row that nobody uses.
SetColour(n, c) ==
    /\ pending = "no"
    /\ LET e        == Ensured(db, {n})
           t        == IdOf(e.tags, n)
           coloured == [e.tags[t] EXCEPT !.colour = c]
       IN  /\ e.counter <= MaxTagId
           /\ db' = [e EXCEPT !.tags = [e.tags EXCEPT ![t] = coloured]]
    /\ UNCHANGED <<pending, cut>>

\* The process ends and starts again: gaps in the ids of records or tags are closed.
RestartTags ==
    LET gap == pending = "gap" \/ DOMAIN db.tags # 1 .. Cardinality(DOMAIN db.tags)
    IN  /\ db' = IF gap THEN Rebuilt(db) ELSE db
        /\ pending' = "no"
        /\ cut' = IF gap THEN FALSE ELSE cut \/ pending # "no"

TagsNext ==
    \/ \E ns \in NameSets, date \in TagDates :
          \/ SaveRecord(ns, date)
          \/ \E i \in DOMAIN db.records : ReplaceRecord(i, ns, date)
    \/ \E i \in DOMAIN db.records : DeleteRecord(i)
    \/ Renumber \/ DeleteAllRecords
    \/ \E n, m \in Labels : RenameTag(n, m)
    \/ \E n \in Labels : DeleteTag(n)
    \/ \E n \in Labels, c \in Colours : SetColour(n, c)
    \/ RestartTags

TagsSpec == TagsInit /\ [][TagsNext]_tagsVars

-----------------------------------------------------------------------------
(* Properties. *)

\* What the audit finds of tags (check_tag_integrity).
Findings ==
    Audit!TagFindings(db.tags,
        {l \in (DOMAIN db.records) \X (DOMAIN db.tags) : l[2] \in db.records[l[1]].tags},
        DOMAIN db.records)

\* The uses and the date of last use that the tag list is sorted by are those of
\* the records, and the audit has no finding.
UsesAreCounted ==
    /\ Findings = {}
    /\ \A t \in DOMAIN db.tags :
          Users(db, t) # {} =>
              db.tags[t].last = Max({db.records[i].date : i \in Users(db, t)})

\* Types; no two rows of a name, and every tag of a record is there (the unique index
\* and the foreign key of the schema), through the renumbering.
TagsTypeOK ==
    /\ \A t \in DOMAIN db.tags :
          db.tags[t] \in [name : Labels, colour : Colours, uses : Nat, last : TagDates \cup {0}]
    /\ \A t, u \in DOMAIN db.tags : db.tags[t].name = db.tags[u].name => t = u
    /\ \A i \in DOMAIN db.records : db.records[i].tags \subseteq DOMAIN db.tags
    /\ pending \in {"no", "gap", "tail"} /\ cut \in BOOLEAN

\* Renumbering, pruning and rewriting change the names of no record.  Saving a record
\* again gives it its names and changes no other; a renamed tag has the new name in all
\* its records, which lose no other by it; a deleted tag is gone from all of them.
KeepsTags ==
    LET both    == DOMAIN db.records \cap DOMAIN db'.records
        changed == {i \in both : NamesOf(db', i) # NamesOf(db, i)}
    IN  \/ changed = {}
        \/ \E i \in changed, date \in TagDates :
              changed = {i} /\ ReplaceRecord(i, NamesOf(db', i), date)
        \/ \E n, m \in Labels :
              /\ \A i \in both :
                    NamesOf(db', i) = {IF x = n THEN m ELSE x : x \in NamesOf(db, i)}
              /\ RenameTag(n, m)
        \/ \E n \in Labels :
              /\ \A i \in both : NamesOf(db', i) = NamesOf(db, i) \ {n}
              /\ DeleteTag(n)
        \/ \E i \in DOMAIN db.records : DeleteRecord(i)

RecordsKeepTheirTags == [][KeepsTags]_tagsVars

\* A chosen colour stays until another is chosen: saves, renames and deletions of
\* other tags leave it.  Only the rewrite after a deletion takes it away.
KeepsColours ==
    pending = "no" /\ DOMAIN db.tags = 1 .. Cardinality(DOMAIN db.tags) =>
        \A t \in DOMAIN db.tags, u \in DOMAIN db'.tags :
            /\ db.tags[t].name = db'.tags[u].name
            /\ db.tags[t].colour # db'.tags[u].colour
            => \E c \in Colours : SetColour(db.tags[t].name, c)

ColoursStay == [][KeepsColours]_tagsVars

\* Renumbering changes the tags of no record, and chosen colours stay.  Uses are
\* counted through renames, merges and rewrites; except after a deletion whose
\* rewrite a crash cut off, until the next save.
TagsSurviveRenumbering ==
    /\ [](pending = "no" /\ ~cut => UsesAreCounted)
    /\ RecordsKeepTheirTags
    /\ ColoursStay
=============================================================================
