-------------------------- MODULE BookImportProofs --------------------------
(***************************************************************************)
(* BookImport keeps its types and its invariant for any number of imports, *)
(* books and editions: a book is created once, its lists are those of one  *)
(* import, and once it was imported it can be read.                        *)
(***************************************************************************)
EXTENDS BookImportInvariant, TLAPS

Tables == <<books, lists, languages, creations, last, whole>>

-----------------------------------------------------------------------------
(* An import takes a step and commits nothing.  It suffices that the       *)
(* record it leaves behind satisfies the parts of the invariant that speak *)
(* of one import, and disagrees with no other import.                      *)

\* What an import knows of the row and the lists, of its record alone.
Sound(i) ==
    /\ RowOf(i)
    /\ SeesCurrent(i)
    /\ \A table \in Table : i.at \in After[table] => HoldsList(i, table)
    /\ i.at \in After["book_languages"] => BringsLanguages(i)

\* No other import has the lock or the list that this one has.
Apart(t, i) ==
    \A u \in Task \ {t} : Working(u) /\ task[u].ext.book = i.ext.book =>
        /\ i.lock = "exclusive" => task[u].lock # "exclusive"
        /\ \A table \in Table : i.at \in After[table] => ~ Past(u, table)

LEMMA ImportWorks == \A i \in Import : i.at # "idle"
  BY DEF Import

LEMMA TablesStay ==
    ASSUME IInv, UNCHANGED Tables
    PROVE  CreatedOnce' /\ ListsOfLastImport' /\ AloneIsWhole' /\ LanguagesListed'
  BY DEF IInv, Tables, CreatedOnce, ListsOfLastImport, AloneIsWhole, LanguagesListed, Asked

LEMMA StepKeepsInvariant ==
    ASSUME IInv, NEW t \in Task, NEW i \in Import,
           task' = [task EXCEPT ![t] = i], UNCHANGED Tables,
           Sound(i), Apart(t, i)
    PROVE  IInv'
<1>1. task \in [Task -> {Idle} \cup Import]
  BY DEF IInv, TypeOK
<1>2. /\ \A u \in Task : task'[u] = IF u = t THEN i ELSE task[u]
      /\ \A u \in Task \ {t} : Working(u)' <=> Working(u)
  BY <1>1 DEF Working
<1>3. TypeOK'
  BY <1>1 DEF IInv, TypeOK, Tables
<1>4. RowWritten'
  BY <1>2 DEF IInv, RowWritten, RowOf, Sound, Tables, Changed
<1>5. OneWriter'
  BY <1>2 DEF IInv, OneWriter, Apart
<1>6. OneReplaces'
  BY <1>2 DEF IInv, OneReplaces, Apart, Past
<1>7. SeenIsCurrent'
  BY <1>2 DEF IInv, SeenIsCurrent, SeesCurrent, Sound, Tables
<1>8. ListsHeld'
  BY <1>2 DEF IInv, ListsHeld, HoldsList, Sound, Past, Tables, Asked
<1>9. LanguagesComing'
  BY <1>2 DEF IInv, LanguagesComing, BringsLanguages, Sound, Past, Tables
<1> QED
  BY <1>3, <1>4, <1>5, <1>6, <1>7, <1>8, <1>9, TablesStay DEF IInv

-----------------------------------------------------------------------------
(* The steps of an import before its commit.                               *)

LEMMA ImportFields ==
    ASSUME IInv, NEW t \in Task, Working(t)
    PROVE  /\ task[t] \in Import
           /\ task[t].ext \in External /\ task[t].ext \in ExternalBook
           /\ task[t].ext.book \in Book
           /\ books[task[t].ext.book] \in BookRow \cup {None}
           /\ lists[task[t].ext.book] \in Lists
  BY BookImportAssumption DEF IInv, TypeOK, Working, Idle, Import, ExternalBook

LEMMA FindKeeps ==
    ASSUME IInv, NEW t \in Task, FindBook(t)
    PROVE  IInv'
<1>1. PICK ext \in External : task' = [task EXCEPT ![t] = Begun(ext)]
  BY DEF FindBook
<1> DEFINE i == Begun(ext)
<1>2. ext.book \in Book
  BY BookImportAssumption DEF ExternalBook
<1>3. books[ext.book] \in BookRow \cup {None} /\ lists[ext.book] \in Lists
  BY <1>2 DEF IInv, TypeOK
<1>4. NoLists \in Lists
  BY DEF NoLists, Lists
<1>5. i \in Import
  BY <1>3, <1>4 DEF Import, Begun
<1>6. i.at \in {"insert", "save"}
  BY DEF Begun
<1>7. \A table \in Table : i.at \notin After[table]
  BY <1>6 DEF Table, After
<1>8. Sound(i)
  BY <1>7 DEF Sound, RowOf, SeesCurrent, Table, Begun
<1>9. Apart(t, i)
  BY <1>7 DEF Apart, Begun
<1> HIDE DEF i
<1> QED
  BY <1>1, <1>5, <1>8, <1>9, StepKeepsInvariant DEF FindBook, Tables, i

\* The columns not written are as the provider answered them.
LEMMA SaveKeeps ==
    ASSUME IInv, NEW t \in Task, SaveBook(t)
    PROVE  IInv'
<1> DEFINE changed == Changed(task[t])
           i == [task[t] EXCEPT !.at = "authors",
                                !.status = "updated",
                                !.lock = IF changed # {} THEN "exclusive" ELSE "none",
                                !.wrote = changed]
<1>1. Working(t) /\ task[t].at = "save"
  BY DEF SaveBook, Working
<1>2. task[t] \in Import
  BY <1>1, ImportFields
<1>3. /\ i.at = "authors" /\ i.status = "updated" /\ i.wrote = changed
      /\ i.lock = IF changed # {} THEN "exclusive" ELSE "none"
      /\ i.ext = task[t].ext /\ i.seen = task[t].seen
      /\ i.seenLists = task[t].seenLists /\ i.alone = task[t].alone
  BY <1>2 DEF Import
<1>4. i \in Import
  BY <1>2 DEF Import, Changed
<1>5. task' = [task EXCEPT ![t] = i] /\ UNCHANGED Tables
  BY DEF SaveBook, Tables
<1>6. changed # {} => ~ Exclusive(t, task[t].ext.book)
  BY DEF SaveBook
<1> HIDE DEF i
<1>7. \A table \in Table : i.at \notin After[table]
  BY <1>3 DEF Table, After
<1>8. books[i.ext.book] # None
  BY <1>1, <1>3 DEF IInv, RowWritten, RowOf
<1>9. Sound(i)
  BY <1>1, <1>3, <1>7, <1>8
     DEF Sound, RowOf, SeesCurrent, IInv, SeenIsCurrent, Changed, Table
<1>10. Apart(t, i)
  BY <1>3, <1>6, <1>7 DEF Apart, Exclusive, On
<1> QED
  BY <1>4, <1>5, <1>9, <1>10, StepKeepsInvariant

\* The unique key: nobody has the row, and nobody is about to.
LEMMA InsertKeeps ==
    ASSUME IInv, NEW t \in Task, InsertBook(t)
    PROVE  IInv'
<1> DEFINE i == [task[t] EXCEPT !.at = "authors",
                                !.status = "created",
                                !.lock = "exclusive",
                                !.wrote = Column]
<1>1. Working(t) /\ task[t].at = "insert"
  BY DEF InsertBook, Working
<1>2. task[t] \in Import
  BY <1>1, ImportFields
<1>3. /\ i.at = "authors" /\ i.status = "created" /\ i.wrote = Column
      /\ i.lock = "exclusive"
      /\ i.ext = task[t].ext /\ i.seen = task[t].seen
      /\ i.seenLists = task[t].seenLists /\ i.alone = task[t].alone
  BY <1>2 DEF Import
<1>4. i \in Import
  BY <1>2 DEF Import
<1>5. task' = [task EXCEPT ![t] = i] /\ UNCHANGED Tables
  BY DEF InsertBook, Tables
<1>6. ~ Exclusive(t, task[t].ext.book) /\ books[task[t].ext.book] = None
  BY DEF InsertBook
<1> HIDE DEF i
<1>7. \A table \in Table : i.at \notin After[table]
  BY <1>3 DEF Table, After
<1>8. task[t].seen = None
  BY <1>1 DEF IInv, RowWritten, RowOf
<1>9. Sound(i)
  BY <1>1, <1>3, <1>6, <1>7, <1>8
     DEF Sound, RowOf, SeesCurrent, IInv, SeenIsCurrent, Table
<1>10. Apart(t, i)
  BY <1>3, <1>6, <1>7 DEF Apart, Exclusive, On
<1> QED
  BY <1>4, <1>5, <1>9, <1>10, StepKeepsInvariant

\* The row is there though the snapshot has none, so another import committed.
LEMMA RereadKeeps ==
    ASSUME IInv, NEW t \in Task, RereadBook(t)
    PROVE  IInv'
<1> DEFINE i == [task[t] EXCEPT !.at = "authors",
                                !.status = "updated",
                                !.lock = "shared"]
<1>1. Working(t) /\ task[t].at = "insert"
  BY DEF RereadBook, Working
<1>2. task[t] \in Import
  BY <1>1, ImportFields
<1>3. /\ i.at = "authors" /\ i.status = "updated" /\ i.lock = "shared"
      /\ i.ext = task[t].ext /\ i.seen = task[t].seen
      /\ i.seenLists = task[t].seenLists /\ i.alone = task[t].alone
  BY <1>2 DEF Import
<1>4. i \in Import
  BY <1>2 DEF Import
<1>5. task' = [task EXCEPT ![t] = i] /\ UNCHANGED Tables
  BY DEF RereadBook, Tables
<1>6. books[task[t].ext.book] # None
  BY DEF RereadBook
<1> HIDE DEF i
<1>7. \A table \in Table : i.at \notin After[table]
  BY <1>3 DEF Table, After
<1>8. task[t].seen = None
  BY <1>1 DEF IInv, RowWritten, RowOf
<1>9. Sound(i)
  BY <1>1, <1>3, <1>6, <1>7, <1>8
     DEF Sound, RowOf, SeesCurrent, IInv, SeenIsCurrent, Table
<1>10. Apart(t, i)
  BY <1>3, <1>7 DEF Apart
<1> QED
  BY <1>4, <1>5, <1>9, <1>10, StepKeepsInvariant

LEMMA AskedLists ==
    ASSUME NEW e \in ExternalBook, NEW table \in Table
    PROVE  /\ Asked(e)[table] = IF table = "book_categories"
                                THEN Linked(e.lists[table]) ELSE e.lists[table]
           /\ Asked(e)[table] \subseteq Entry
           /\ Asked(e) \in Lists
  BY DEF Asked, Linked, ExternalBook, Lists

LEMMA FailKeeps ==
    ASSUME IInv, NEW t \in Task, Fail(t)
    PROVE  IInv'
<1>1. task \in [Task -> {Idle} \cup Import]
  BY DEF IInv, TypeOK
<1>2. /\ \A u \in Task : task'[u] = IF u = t THEN Idle ELSE task[u]
      /\ \A u \in Task : Working(u)' => Working(u) /\ u # t
      /\ UNCHANGED Tables
  BY <1>1 DEF Working, Fail, Idle, Tables
<1>3. TypeOK'
  BY <1>1, <1>2 DEF IInv, TypeOK, Tables, Fail
<1>4. RowWritten'
  BY <1>2 DEF IInv, RowWritten, RowOf, Tables, Changed
<1>5. OneWriter' /\ OneReplaces'
  BY <1>2 DEF IInv, OneWriter, OneReplaces, Past
<1>6. SeenIsCurrent'
  BY <1>2 DEF IInv, SeenIsCurrent, SeesCurrent, Tables
<1>7. ListsHeld' /\ LanguagesComing'
  BY <1>2 DEF IInv, ListsHeld, HoldsList, LanguagesComing, BringsLanguages, Past, Tables, Asked
<1> QED
  BY <1>2, <1>3, <1>4, <1>5, <1>6, <1>7, TablesStay DEF IInv

\* While no other import has committed, the keys save() finds are those it has
\* just deleted, which its own snapshot does not show: everything is inserted.
LEMMA SavedRows ==
    ASSUME IInv, NEW t \in Task, Working(t), NEW table \in Table, NEW wanted
    PROVE  /\ Saved(t, table, wanted) \subseteq wanted
           /\ task[t].alone => Saved(t, table, wanted) = wanted
  BY DEF Saved, Found, IInv, SeenIsCurrent, SeesCurrent

LEMMA ReplaceKeeps ==
    ASSUME IInv, NEW t \in Task, Working(t), task[t].status # "none",
           NEW table \in Table, NEW wanted, NEW new \in SUBSET Keys(Entry),
           NEW next \in {"languages", "categories", "commit"},
           Replace(t, table, wanted, new, next),
           wanted = Asked(task[t].ext)[table],
           \A other \in Table :
               next \in After[other] => other = table \/ Past(t, other),
           next \in After["book_languages"] =>
               Keys(task[t].ext.lists["book_languages"]) \subseteq languages \cup new
    PROVE  IInv'
<1> DEFINE b == task[t].ext.book
           saved == Saved(t, table, wanted)
           i == [task[t] EXCEPT
                   !.at = next,
                   !.removed = [task[t].removed EXCEPT ![table] = lists[b][table]],
                   !.rows = [task[t].rows EXCEPT ![table] = saved],
                   !.newLanguages = new,
                   !.lock = IF task[t].lock = "none" /\ saved # {}
                            THEN "shared" ELSE task[t].lock]
<1>1. /\ task[t] \in Import /\ task[t].ext \in ExternalBook /\ lists[b] \in Lists
  BY ImportFields
<1>2. /\ i.at = next /\ i.newLanguages = new
      /\ i.removed = [task[t].removed EXCEPT ![table] = lists[b][table]]
      /\ i.rows = [task[t].rows EXCEPT ![table] = saved]
      /\ i.lock = "exclusive" <=> task[t].lock = "exclusive"
      /\ i.status = task[t].status /\ i.wrote = task[t].wrote
      /\ i.ext = task[t].ext /\ i.seen = task[t].seen
      /\ i.seenLists = task[t].seenLists /\ i.alone = task[t].alone
  BY <1>1 DEF Import
<1>3. saved \subseteq wanted /\ (task[t].alone => saved = wanted)
  BY SavedRows
<1>4. saved \in SUBSET Entry /\ lists[b][table] \in SUBSET Entry
  BY <1>1, <1>3, AskedLists DEF Lists
<1>5. task[t].removed \in Lists /\ task[t].rows \in Lists
  BY <1>1 DEF Import
<1>6. i.removed \in Lists /\ i.rows \in Lists
  BY <1>2, <1>4, <1>5 DEF Lists
<1>7. /\ \A other \in Table :
           /\ i.removed[other] = IF other = table THEN lists[b][table]
                                 ELSE task[t].removed[other]
           /\ i.rows[other] = IF other = table THEN saved ELSE task[t].rows[other]
  BY <1>2, <1>5 DEF Lists
<1>8. i \in Import
  BY <1>1, <1>6 DEF Import
<1>9. task' = [task EXCEPT ![t] = i] /\ UNCHANGED Tables
  BY DEF Replace, Tables
<1>10. ~ Replacing(t, b, table)
  BY DEF Replace
<1>11. task[t].ext.book = b
  OBVIOUS
<1> HIDE DEF i, saved, b
<1>12. RowOf(i)
  <2>1. RowOf(task[t])
    BY DEF IInv, RowWritten
  <2>2. i.status # "none" /\ i.at \notin {"insert", "save"}
    BY <1>2
  <2>3. Changed(i) = Changed(task[t])
    BY <1>2 DEF Changed
  <2> QED
    BY <1>2, <2>1, <2>2, <2>3 DEF RowOf
<1>13. SeesCurrent(i)
  BY <1>2 DEF IInv, SeenIsCurrent, SeesCurrent
<1>14. ASSUME NEW other \in Table, i.at \in After[other]
       PROVE  HoldsList(i, other)
  <2>1. CASE other = table
    BY <1>2, <1>3, <1>7, <1>11, <2>1 DEF HoldsList
  <2>2. CASE other # table
    BY <1>2, <1>7, <1>14, <2>2 DEF HoldsList, IInv, ListsHeld
  <2> QED
    BY <2>1, <2>2
<1>15. i.at \in After["book_languages"] => BringsLanguages(i)
  BY <1>2 DEF BringsLanguages
<1>16. Sound(i)
  BY <1>12, <1>13, <1>14, <1>15 DEF Sound
<1>17. Apart(t, i)
  <2> SUFFICES ASSUME NEW u \in Task \ {t}, Working(u), task[u].ext.book = i.ext.book
               PROVE  /\ i.lock = "exclusive" => task[u].lock # "exclusive"
                      /\ \A other \in Table : i.at \in After[other] => ~ Past(u, other)
    BY DEF Apart
  <2>1. i.lock = "exclusive" => task[u].lock # "exclusive"
    BY <1>2 DEF IInv, OneWriter
  <2>2. ASSUME NEW other \in Table, i.at \in After[other]
        PROVE  ~ Past(u, other)
    <3>1. CASE other = table
      BY <1>2, <1>10, <1>11, <3>1 DEF Replacing, On
    <3>2. CASE Past(t, other)
      BY <1>2, <3>2 DEF IInv, OneReplaces
    <3> QED
      BY <1>2, <2>2, <3>1, <3>2
  <2> QED
    BY <2>1, <2>2
<1> QED
  BY <1>8, <1>9, <1>16, <1>17, StepKeepsInvariant

LEMMA ReplacesKeep ==
    ASSUME IInv, NEW t \in Task,
           ReplaceAuthors(t) \/ ReplaceLanguages(t) \/ ReplaceCategories(t)
    PROVE  IInv'
<1>1. Working(t) /\ task[t].at \in {"authors", "languages", "categories"}
  BY DEF ReplaceAuthors, ReplaceLanguages, ReplaceCategories, Working
<1>2. task[t].status # "none"
  BY <1>1 DEF IInv, RowWritten, RowOf
<1>3. task[t].ext \in ExternalBook /\ task[t] \in Import
  BY <1>1, ImportFields
<1>4. /\ "book_authors" \in Table /\ "book_languages" \in Table
      /\ "book_categories" \in Table
  BY DEF Table
<1>5. CASE ReplaceAuthors(t)
  <2>1. \A other \in Table : "languages" \in After[other] => other = "book_authors"
    BY DEF Table, After
  <2>2. "languages" \notin After["book_languages"]
    BY DEF After
  <2>3. Asked(task[t].ext)["book_authors"] = task[t].ext.lists["book_authors"]
    BY <1>3, <1>4, AskedLists
  <2>4. {} \in SUBSET Keys(Entry)
    OBVIOUS
  <2>5. Replace(t, "book_authors", task[t].ext.lists["book_authors"], {}, "languages")
    BY <1>5 DEF ReplaceAuthors
  <2> QED
    BY <1>1, <1>2, <1>4, <2>1, <2>2, <2>3, <2>4, <2>5, ReplaceKeeps
<1>6. CASE ReplaceLanguages(t)
  <2> DEFINE wanted == task[t].ext.lists["book_languages"]
             new == Keys(wanted) \ languages
  <2>1. \A other \in Table : "categories" \in After[other] =>
           other = "book_languages" \/ Past(t, other)
    BY <1>6 DEF ReplaceLanguages, Table, After, Past
  <2>2. Keys(wanted) \subseteq languages \cup new
    OBVIOUS
  <2>3. Asked(task[t].ext)["book_languages"] = wanted
    BY <1>3, <1>4, AskedLists
  <2>4. new \in SUBSET Keys(Entry)
    BY <1>3, <1>4 DEF Keys, ExternalBook
  <2>5. Replace(t, "book_languages", wanted, new, "categories")
    BY <1>6 DEF ReplaceLanguages
  <2> QED
    BY <1>1, <1>2, <1>4, <2>1, <2>2, <2>3, <2>4, <2>5, ReplaceKeeps
<1>7. CASE ReplaceCategories(t)
  <2> DEFINE wanted == Linked(task[t].ext.lists["book_categories"])
  <2>1. \A other \in Table : "commit" \in After[other] =>
           other = "book_categories" \/ Past(t, other)
    BY <1>7 DEF ReplaceCategories, Table, After, Past
  <2>2. Keys(task[t].ext.lists["book_languages"])
            \subseteq languages \cup task[t].newLanguages
    BY <1>1, <1>7 DEF ReplaceCategories, After, Past, IInv, LanguagesComing, BringsLanguages
  <2>3. Asked(task[t].ext)["book_categories"] = wanted
    BY <1>3, <1>4, AskedLists
  <2>4. task[t].newLanguages \in SUBSET Keys(Entry)
    BY <1>3 DEF Import
  <2>5. Replace(t, "book_categories", wanted, task[t].newLanguages, "commit")
    BY <1>7 DEF ReplaceCategories
  <2> QED
    BY <1>1, <1>2, <1>4, <2>1, <2>2, <2>3, <2>4, <2>5, ReplaceKeeps
<1> QED
  BY <1>5, <1>6, <1>7

-----------------------------------------------------------------------------
(* The commit.                                                             *)

\* What a committing import leaves: a row that is a row, of which the columns it
\* did not write are those it found; and, list by list, what it inserted.
LEMMA CommitLeaves ==
    ASSUME IInv, NEW t \in Task, task[t].at = "commit"
    PROVE  /\ Written(t) \in BookRow
           /\ \A table \in Table : Listed(t, table) = task[t].rows[table]
           /\ task[t].alone => /\ \A c \in Column : Written(t)[c] = task[t].ext[c]
                               /\ [table \in Table |-> Listed(t, table)] = Asked(task[t].ext)
<1> DEFINE b == task[t].ext.book
           i == task[t]
<1>1. Working(t) /\ i \in Import /\ i.ext \in ExternalBook
      /\ b \in Book /\ books[b] \in BookRow \cup {None} /\ lists[b] \in Lists
  BY ImportFields DEF Working
<1>2. RowOf(i) /\ SeesCurrent(i)
  BY <1>1 DEF IInv, RowWritten, SeenIsCurrent
<1>3. i.status \in {"created", "updated"}
  BY <1>1, <1>2 DEF RowOf, Import
<1>4. books[b] # None \/ i.wrote = Column
  BY <1>2, <1>3 DEF RowOf
<1>5. /\ i.ext.title \in Title /\ i.ext.content \in Reference \cup {None}
      /\ i.ext.format \in Format \cup {None}
  BY <1>1 DEF ExternalBook
<1>6. Written(t) \in BookRow
  BY <1>1, <1>4, <1>5 DEF Written, NewValue, BookRow, Column
<1>7. \A table \in Table : Past(t, table)
  BY DEF Past, After, Table
<1>8. \A table \in Table : HoldsList(i, table)
  BY <1>1, <1>7 DEF IInv, ListsHeld
<1>9. \A table \in Table : Listed(t, table) = i.rows[table]
  BY <1>8 DEF HoldsList, Listed
<1>10. ASSUME i.alone
       PROVE  /\ \A c \in Column : Written(t)[c] = i.ext[c]
              /\ [table \in Table |-> Listed(t, table)] = Asked(i.ext)
  <2>1. i.seen = books[b]
    BY <1>2, <1>10 DEF SeesCurrent
  <2>2. \A c \in Column : NewValue(t, c) = i.ext[c]
    <3>1. CASE i.status = "created"
      BY <1>2, <3>1 DEF RowOf, NewValue
    <3>2. CASE i.status = "updated"
      BY <1>2, <2>1, <3>2 DEF RowOf, NewValue, Changed
    <3> QED
      BY <1>3, <3>1, <3>2
  <2>3. \A c \in Column : Written(t)[c] = NewValue(t, c)
    BY DEF Written, Column
  <2>4. \A table \in Table : Listed(t, table) = Asked(i.ext)[table]
    BY <1>8, <1>9, <1>10 DEF HoldsList
  <2>5. [table \in Table |-> Listed(t, table)] = Asked(i.ext)
    BY <2>4 DEF Asked
  <2> QED
    BY <2>2, <2>3, <2>5
<1> QED
  BY <1>6, <1>9, <1>10

LEMMA CommitKeeps ==
    ASSUME IInv, NEW t \in Task, Commit(t)
    PROVE  IInv'
<1> DEFINE b == task[t].ext.book
           i == task[t]
           ext == task[t].ext
           row == Written(t)
           left == [table \in Table |-> Listed(t, table)]
<1>1. i.at = "commit" /\ Working(t)
  BY DEF Commit, Working
<1>2. i \in Import /\ ext \in ExternalBook /\ ext \in External
      /\ b \in Book /\ books[b] \in BookRow \cup {None} /\ lists[b] \in Lists
  BY <1>1, ImportFields
<1>3. /\ row \in BookRow /\ row # None
      /\ \A table \in Table : left[table] = i.rows[table]
      /\ i.alone => (\A c \in Column : row[c] = ext[c]) /\ left = Asked(ext)
  BY <1>1, CommitLeaves, BookImportAssumption
<1>4. left \in Lists
  BY <1>2, <1>3 DEF Import, Lists
<1>5. /\ books' = [books EXCEPT ![b] = row]
      /\ lists' = [lists EXCEPT ![b] = left]
      /\ languages' = languages \cup i.newLanguages
      /\ creations' = [creations EXCEPT ![b] =
                         IF i.status = "created" THEN creations[b] + 1 ELSE creations[b]]
      /\ last' = [last EXCEPT ![b] = ext]
      /\ whole' = IF i.alone THEN whole \cup {b} ELSE whole \ {b}
  BY DEF Commit
<1>6. task' = [u \in Task |-> IF u = t THEN Idle
                     ELSE IF On(u, b) THEN [task[u] EXCEPT !.alone = FALSE]
                     ELSE task[u]]
  BY DEF Commit
<1>7. ASSUME NEW u \in Task, Working(u)'
      PROVE  /\ u # t /\ Working(u) /\ task[u] \in Import /\ task'[u] \in Import
             /\ task'[u].at = task[u].at /\ task'[u].ext = task[u].ext
             /\ task'[u].seen = task[u].seen /\ task'[u].seenLists = task[u].seenLists
             /\ task'[u].lock = task[u].lock /\ task'[u].status = task[u].status
             /\ task'[u].wrote = task[u].wrote /\ task'[u].rows = task[u].rows
             /\ task'[u].removed = task[u].removed
             /\ task'[u].newLanguages = task[u].newLanguages
             /\ task'[u].alone => task[u].alone /\ task[u].ext.book # b
  <2>1. u # t
    BY <1>6, <1>7 DEF Working, Idle
  <2>2. CASE On(u, b)
    <3>1. Working(u)
      BY <2>2 DEF On
    <3>2. task[u] \in Import
      BY <3>1, ImportFields
    <3>3. task'[u] = [task[u] EXCEPT !.alone = FALSE]
      BY <1>6, <2>1, <2>2
    <3> QED
      BY <2>1, <3>1, <3>2, <3>3 DEF Import
  <2>3. CASE ~ On(u, b)
    <3>1. task'[u] = task[u]
      BY <1>6, <2>1, <2>3
    <3>2. Working(u)
      BY <1>7, <3>1 DEF Working
    <3>3. task[u] \in Import
      BY <3>2, ImportFields
    <3> QED
      BY <2>1, <2>3, <3>1, <3>2, <3>3 DEF On
  <2> QED
    BY <2>2, <2>3
<1>8. RowOf(i) /\ i.status \in {"created", "updated"}
  BY <1>1, <1>2 DEF IInv, RowWritten, RowOf, Import
<1> HIDE DEF row, left
<1>9. /\ \A c \in Book : books'[c] = IF c = b THEN row ELSE books[c]
      /\ \A c \in Book : lists'[c] = IF c = b THEN left ELSE lists[c]
      /\ \A c \in Book : last'[c] = IF c = b THEN ext ELSE last[c]
  BY <1>2, <1>5 DEF IInv, TypeOK
<1> HIDE DEF b, ext, i
<1>10. TypeOK'
  <2>1. task' \in [Task -> {Idle} \cup Import]
    <3>1. \A u \in Task : task'[u] = Idle \/ Working(u)'
      BY <1>6 DEF IInv, TypeOK, Working, Import, On
    <3> QED
      BY <1>6, <1>7, <3>1
  <2>2. books' \in [Book -> BookRow \cup {None}]
    BY <1>2, <1>3, <1>5 DEF IInv, TypeOK
  <2>3. lists' \in [Book -> Lists]
    BY <1>2, <1>4, <1>5 DEF IInv, TypeOK
  <2>4. languages' \subseteq Keys(Entry)
    BY <1>2, <1>5 DEF IInv, TypeOK, Import
  <2>5. creations' \in [Book -> Nat]
    BY <1>2, <1>5 DEF IInv, TypeOK
  <2>6. last' \in [Book -> External \cup {None}] /\ whole' \subseteq Book
    BY <1>2, <1>5 DEF IInv, TypeOK
  <2> QED
    BY <2>1, <2>2, <2>3, <2>4, <2>5, <2>6 DEF TypeOK
\* No other import is where only one may be.
<1>11. ASSUME NEW u \in Task, u # t, Working(u), task[u].ext.book = b
       PROVE  /\ task[u].status # "created"
              /\ \A table \in Table : ~ Past(u, table)
  <2>1. b = task[t].ext.book /\ i = task[t]
    BY DEF b, i
  <2>2. \A table \in Table : Past(t, table)
    BY <1>1, <2>1 DEF Past, After, Table
  <2>3. \A table \in Table : ~ Past(u, table)
    BY <1>1, <1>11, <2>1, <2>2 DEF IInv, OneReplaces
  <2>4. RowOf(task[u])
    BY <1>11 DEF IInv, RowWritten
  <2>5. ASSUME task[u].status = "created"
        PROVE  FALSE
    <3>1. task[u].lock = "exclusive" /\ books[b] = None
      BY <1>11, <2>4, <2>5 DEF RowOf
    <3>2. i.lock = "exclusive"
      BY <1>8, <2>1, <3>1 DEF RowOf
    <3> QED
      BY <1>1, <1>11, <2>1, <3>1, <3>2 DEF IInv, OneWriter
  <2> QED
    BY <2>3, <2>5
<1>12. RowWritten'
  <2> SUFFICES ASSUME NEW u \in Task, Working(u)'
               PROVE  RowOf(task[u])'
    BY DEF RowWritten
  <2>1. RowOf(task[u]) /\ Working(u) /\ u # t /\ task[u].ext.book \in Book
    BY <1>7, ImportFields DEF IInv, RowWritten
  <2>2. Changed(task'[u]) = Changed(task[u])
    BY <1>7 DEF Changed
  <2>3. CASE task[u].ext.book = b
    <3>1. task[u].status # "created" /\ books'[b] # None
      BY <1>2, <1>3, <1>9, <1>11, <2>1, <2>3
    <3> QED
      BY <1>7, <2>1, <2>2, <2>3, <3>1 DEF RowOf
  <2>4. CASE task[u].ext.book # b
    <3>1. books'[task[u].ext.book] = books[task[u].ext.book]
      BY <1>9, <2>1, <2>4
    <3> QED
      BY <1>7, <2>1, <2>2, <3>1 DEF RowOf
  <2> QED
    BY <2>3, <2>4
<1>13. OneWriter'
  BY <1>7 DEF IInv, OneWriter
<1>14. OneReplaces'
  BY <1>7 DEF IInv, OneReplaces, Past
<1>15. SeenIsCurrent'
  <2> SUFFICES ASSUME NEW u \in Task, Working(u)', task'[u].alone
               PROVE  /\ task'[u].seen = books'[task'[u].ext.book]
                      /\ task'[u].seenLists = lists'[task'[u].ext.book]
    BY DEF SeenIsCurrent, SeesCurrent
  <2>1. task[u].alone /\ task[u].ext.book # b /\ Working(u) /\ task[u].ext.book \in Book
    BY <1>7, ImportFields
  <2>2. SeesCurrent(task[u])
    BY <2>1 DEF IInv, SeenIsCurrent
  <2> QED
    BY <1>7, <1>9, <2>1, <2>2 DEF SeesCurrent
<1>16. ListsHeld'
  <2> SUFFICES ASSUME NEW u \in Task, Working(u)', NEW table \in Table, Past(u, table)'
               PROVE  HoldsList(task[u], table)'
    BY DEF ListsHeld
  <2>1. Past(u, table) /\ u # t /\ Working(u) /\ task[u].ext.book \in Book
    BY <1>7, ImportFields DEF Past
  <2>2. task[u].ext.book # b
    BY <1>11, <2>1
  <2>3. HoldsList(task[u], table)
    BY <2>1 DEF IInv, ListsHeld
  <2>4. lists'[task[u].ext.book] = lists[task[u].ext.book]
    BY <1>9, <2>1, <2>2
  <2> QED
    BY <1>7, <2>3, <2>4 DEF HoldsList, Asked
<1>17. LanguagesComing'
  BY <1>5, <1>7 DEF IInv, LanguagesComing, BringsLanguages, Past
<1>18. CreatedOnce'
  <2> SUFFICES ASSUME NEW c \in Book
               PROVE  creations'[c] = IF books'[c] = None THEN 0 ELSE 1
    BY DEF CreatedOnce
  <2>1. creations[c] = IF books[c] = None THEN 0 ELSE 1
    BY DEF IInv, CreatedOnce
  <2>2. CASE c = b
    <3>1. creations'[b] = IF i.status = "created" THEN creations[b] + 1 ELSE creations[b]
      BY <1>2, <1>5 DEF IInv, TypeOK
    <3>2. IF i.status = "created" THEN books[b] = None ELSE books[b] # None
      BY <1>8 DEF RowOf, b, i
    <3> QED
      BY <1>3, <1>9, <2>1, <2>2, <3>1, <3>2
  <2>3. CASE c # b
    BY <1>2, <1>5, <1>9, <2>1, <2>3 DEF IInv, TypeOK
  <2> QED
    BY <2>2, <2>3
<1>19. \A table \in Table : left[table] \subseteq Asked(ext)[table]
  BY <1>1, <1>3 DEF IInv, ListsHeld, HoldsList, Past, After, Table, i, ext
<1>20. ListsOfLastImport'
  BY <1>9, <1>19 DEF IInv, ListsOfLastImport, Asked
<1>21. AloneIsWhole'
  <2> SUFFICES ASSUME NEW c \in whole'
               PROVE  /\ \A d \in Column : books'[c][d] = last'[c][d]
                      /\ lists'[c] = Asked(last'[c])
    BY DEF AloneIsWhole, Asked
  <2>1. CASE c = b
    BY <1>2, <1>3, <1>5, <1>9, <2>1
  <2>2. CASE c # b
    <3>1. c \in whole /\ c \in Book
      BY <1>5, <2>2 DEF IInv, TypeOK
    <3> QED
      BY <1>9, <2>2, <3>1 DEF IInv, AloneIsWhole
  <2> QED
    BY <2>1, <2>2
<1>22. LanguagesListed'
  <2>1. "book_languages" \in Table
    BY DEF Table
  <2>2. Past(t, "book_languages")
    BY <1>1 DEF Past, After, i
  <2>3. BringsLanguages(i)
    BY <1>1, <2>2 DEF IInv, LanguagesComing, i
  <2>4. Asked(ext)["book_languages"] = ext.lists["book_languages"]
    BY <1>2, <2>1, AskedLists
  <2>5. left["book_languages"] \subseteq ext.lists["book_languages"]
    BY <1>19, <2>1, <2>4
  <2>6. Keys(left["book_languages"]) \subseteq languages'
    BY <1>5, <2>3, <2>5 DEF BringsLanguages, Keys, ext, i
  <2>7. languages \subseteq languages'
    BY <1>5
  <2> QED
    BY <1>9, <2>6, <2>7 DEF IInv, LanguagesListed, Keys
<1> QED
  BY <1>10, <1>12, <1>13, <1>14, <1>15, <1>16, <1>17, <1>18, <1>20, <1>21, <1>22 DEF IInv

-----------------------------------------------------------------------------
(* The theorems.                                                           *)

LEMMA InitHolds ==
    ASSUME Init
    PROVE  IInv
<1>1. \A t \in Task : task[t] = Idle /\ ~ Working(t)
  BY DEF Init, Working, Idle
<1>2. \A e \in External : Asked(e) \in Lists
  BY AskedLists, BookImportAssumption DEF Asked, Linked, ExternalBook, Lists
<1>3. NoLists \in Lists
  BY DEF NoLists, Lists
<1>4. lists \in [Book -> Lists]
  BY <1>2, <1>3 DEF Init
<1>5. \A b \in Book : Keys(lists[b]["book_languages"]) \subseteq Keys(Entry)
  <2> SUFFICES ASSUME NEW b \in Book
               PROVE  Keys(lists[b]["book_languages"]) \subseteq Keys(Entry)
    OBVIOUS
  <2>1. lists[b]["book_languages"] \in SUBSET Entry
    BY <1>4 DEF Lists, Table
  <2> QED
    BY <2>1 DEF Keys
<1>6. TypeOK
  <2>1. books \in [Book -> BookRow \cup {None}]
    BY BookImportAssumption DEF Init
  <2>2. languages \subseteq Keys(Entry)
    BY <1>5 DEF Init
  <2>3. creations \in [Book -> Nat] /\ last \in [Book -> External \cup {None}]
    BY DEF Init
  <2>4. task \in [Task -> {Idle} \cup Import] /\ whole \subseteq Book
    BY DEF Init
  <2> QED
    BY <1>4, <2>1, <2>2, <2>3, <2>4 DEF TypeOK
<1>7. CreatedOnce /\ ListsOfLastImport /\ AloneIsWhole
  BY DEF Init, CreatedOnce, ListsOfLastImport, AloneIsWhole
<1>8. LanguagesListed
  BY DEF Init, LanguagesListed
<1> QED
  BY <1>1, <1>6, <1>7, <1>8
     DEF IInv, RowWritten, OneWriter, OneReplaces, SeenIsCurrent, ListsHeld, LanguagesComing

LEMMA NextKeeps ==
    ASSUME IInv, [Next]_vars
    PROVE  IInv'
<1>1. ASSUME NEW t \in Task, UpsertFromExternalBook(t)
      PROVE  IInv'
  BY <1>1, FindKeeps, SaveKeeps, InsertKeeps, RereadKeeps, ReplacesKeep, CommitKeeps, FailKeeps
     DEF UpsertFromExternalBook
<1>2. CASE UNCHANGED vars
  BY <1>2 DEF vars, IInv, TypeOK, RowWritten, RowOf, OneWriter, OneReplaces, SeenIsCurrent,
     SeesCurrent, ListsHeld, HoldsList, LanguagesComing, BringsLanguages, CreatedOnce,
     ListsOfLastImport, AloneIsWhole, LanguagesListed, Working, Past, Asked, Changed
<1> QED
  BY <1>1, <1>2 DEF Next

\* The inductive invariant, for any number of imports, books and editions.
THEOREM InvariantHolds == Spec => []IInv
<1>1. Init => IInv
  BY InitHolds
<1>2. IInv /\ [Next]_vars => IInv'
  BY NextKeeps
<1> QED
  BY <1>1, <1>2, PTL DEF Spec

\* One import of a book is answered 'created'.
THEOREM CreatedOnceHolds == Spec => []CreatedOnce
<1>1. IInv => CreatedOnce
  BY DEF IInv
<1> QED
  BY <1>1, InvariantHolds, PTL

\* The lists of a book are never a mixture of two imports.
THEOREM ListsOfLastImportHolds == Spec => []ListsOfLastImport
<1>1. IInv => ListsOfLastImport
  BY DEF IInv
<1> QED
  BY <1>1, InvariantHolds, PTL

\* An import no other one overtakes leaves all that the provider answered.
THEOREM AloneIsWholeHolds == Spec => []AloneIsWhole
<1>1. IInv => AloneIsWhole
  BY DEF IInv
<1> QED
  BY <1>1, InvariantHolds, PTL

\* Every language of a book is in the table of languages.
THEOREM LanguagesListedHolds == Spec => []LanguagesListed
<1>1. IInv => LanguagesListed
  BY DEF IInv
<1> QED
  BY <1>1, InvariantHolds, PTL

-----------------------------------------------------------------------------
(* A book can be read once it was imported.  An import writes the columns  *)
(* in which it differs from its snapshot; the others are as good in the    *)
(* row it is committed to as they were in the snapshot.                    *)

LEMMA CommitIsReadable ==
    ASSUME IInv, ReadableInv, NEW t \in Task, Commit(t)
    PROVE  Written(t) # None /\ isReadableContent(Written(t))
<1> DEFINE i == task[t]
           row == books[task[t].ext.book]
<1>1. i.at = "commit" /\ Working(t) /\ i \in Import
  BY ImportFields DEF Commit, Working
<1>2. RowOf(i) /\ i.status \in {"created", "updated"}
  BY <1>1 DEF IInv, RowWritten, RowOf, Import
<1>3. isReadableContent(i.ext) /\ AsReadable(i.seen, row)
  BY <1>1 DEF ReadableInv
<1>4. /\ Written(t).content = NewValue(t, "content")
      /\ Written(t).format = NewValue(t, "format")
      /\ Written(t) # None
  BY <1>1, CommitLeaves, BookImportAssumption DEF Written
<1>5. /\ NewValue(t, "content") = IF "content" \in i.wrote THEN i.ext.content ELSE row.content
      /\ NewValue(t, "format") = IF "format" \in i.wrote THEN i.ext.format ELSE row.format
  BY DEF NewValue
<1>6. CASE i.status = "created"
  BY <1>2, <1>3, <1>4, <1>5, <1>6 DEF RowOf, Column, isReadableContent
<1>7. CASE i.status = "updated"
  <2>1. row # None /\ (i.seen # None => i.wrote = Changed(i))
    BY <1>2, <1>7 DEF RowOf
  <2>2. \/ "content" \in i.wrote
        \/ i.seen = None \/ i.seen.content = i.ext.content
    BY <2>1 DEF Changed, Column
  <2>3. \/ "format" \in i.wrote
        \/ i.seen = None \/ i.seen.format = i.ext.format
    BY <2>1 DEF Changed, Column
  <2>4. NewValue(t, "content") # None
    BY <1>3, <1>5, <2>1, <2>2 DEF AsReadable, isReadableContent
  <2>5. NewValue(t, "format") \in Readable
    BY <1>3, <1>5, <2>1, <2>3 DEF AsReadable, isReadableContent
  <2> QED
    BY <1>4, <2>4, <2>5 DEF isReadableContent
<1> QED
  BY <1>2, <1>6, <1>7

LEMMA ReadableAtCommit ==
    ASSUME IInv, ReadableInv, NEW t \in Task, Commit(t)
    PROVE  ReadableInv'
<1> DEFINE b == task[t].ext.book
           row == Written(t)
<1>1. row # None /\ isReadableContent(row)
  BY CommitIsReadable
<1>2. Working(t) /\ b \in Book
  BY ImportFields DEF Commit, Working
<1>3. books' = [books EXCEPT ![b] = row] /\ last' = [last EXCEPT ![b] = task[t].ext]
  BY DEF Commit
<1> HIDE DEF row
<1>4. /\ \A c \in Book : books'[c] = IF c = b THEN row ELSE books[c]
      /\ \A c \in Book : c # b => last'[c] = last[c]
  BY <1>2, <1>3 DEF IInv, TypeOK
<1>5. ReadableOnceImported'
  BY <1>1, <1>4 DEF ReadableInv, ReadableOnceImported, isReadableContent
<1>6. ASSUME NEW u \in Task, Working(u)'
      PROVE  /\ isReadableContent(task'[u].ext)
             /\ AsReadable(task'[u].seen, books'[task'[u].ext.book])
  <2>1. /\ u # t /\ Working(u)
        /\ task'[u].ext = task[u].ext /\ task'[u].seen = task[u].seen
    <3>1. task' = [v \in Task |-> IF v = t THEN Idle
                     ELSE IF On(v, b) THEN [task[v] EXCEPT !.alone = FALSE]
                     ELSE task[v]]
      BY DEF Commit
    <3>2. u # t
      BY <1>6, <3>1 DEF Working, Idle
    <3>3. CASE On(u, b)
      <4>1. Working(u) /\ task[u] \in Import
        BY <3>3, ImportFields DEF On
      <4> QED
        BY <3>1, <3>2, <3>3, <4>1 DEF Import
    <3>4. CASE ~ On(u, b)
      BY <1>6, <3>1, <3>2, <3>4 DEF Working
    <3> QED
      BY <3>2, <3>3, <3>4
  <2>2. isReadableContent(task[u].ext) /\ AsReadable(task[u].seen, books[task[u].ext.book])
    BY <2>1 DEF ReadableInv
  <2>3. task[u].ext.book \in Book
    BY <2>1, ImportFields
  <2>4. AsReadable(task[u].seen, books'[task[u].ext.book])
    BY <1>1, <1>4, <2>2, <2>3 DEF AsReadable, isReadableContent
  <2> QED
    BY <2>1, <2>2, <2>4 DEF isReadableContent
<1> QED
  BY <1>5, <1>6 DEF ReadableInv, isReadableContent, AsReadable

LEMMA ReadableAtFind ==
    ASSUME IInv, ReadableInv, NEW t \in Task, FindBook(t)
    PROVE  ReadableInv'
<1>1. PICK ext \in External :
        isReadableContent(ext) /\ task' = [task EXCEPT ![t] = Begun(ext)]
  BY DEF FindBook
<1>2. UNCHANGED <<books, last>>
  BY DEF FindBook
<1>3. Begun(ext).ext = ext /\ Begun(ext).seen = books[ext.book]
  BY DEF Begun
<1>4. AsReadable(books[ext.book], books[ext.book])
  BY DEF AsReadable
<1>5. \A u \in Task : task'[u] = IF u = t THEN Begun(ext) ELSE task[u]
  BY <1>1 DEF IInv, TypeOK
<1>6. \A u \in Task : Working(u)' =>
        /\ isReadableContent(task'[u].ext)
        /\ AsReadable(task'[u].seen, books[task'[u].ext.book])
  BY <1>1, <1>3, <1>4, <1>5 DEF ReadableInv, Working
<1> QED
  BY <1>2, <1>6 DEF ReadableInv, ReadableOnceImported, isReadableContent, AsReadable

LEMMA ReadableKeeps ==
    ASSUME IInv, ReadableInv, [Next]_vars
    PROVE  ReadableInv'
<1>1. CASE UNCHANGED vars
  BY <1>1 DEF vars, ReadableInv, ReadableOnceImported, isReadableContent, AsReadable, Working
<1>2. ASSUME NEW t \in Task, UpsertFromExternalBook(t), ~ Commit(t), ~ FindBook(t)
      PROVE  ReadableInv'
  <2>1. UNCHANGED <<books, last>>
    BY <1>2 DEF UpsertFromExternalBook, SaveBook, InsertBook, RereadBook,
       ReplaceAuthors, ReplaceLanguages, ReplaceCategories, Replace, Fail
  <2>2. Working(t)
    BY <1>2 DEF UpsertFromExternalBook, SaveBook, InsertBook, RereadBook,
       ReplaceAuthors, ReplaceLanguages, ReplaceCategories, Fail, Working
  <2>3. task[t] \in Import
    BY <2>2, ImportFields
  <2>4. \A u \in Task \ {t} : task'[u] = task[u]
    BY <1>2 DEF UpsertFromExternalBook, SaveBook, InsertBook, RereadBook,
       ReplaceAuthors, ReplaceLanguages, ReplaceCategories, Replace, Fail, IInv, TypeOK
  <2>5. Working(t)' => task'[t].ext = task[t].ext /\ task'[t].seen = task[t].seen
    <3>1. task \in [Task -> {Idle} \cup Import]
      BY DEF IInv, TypeOK
    <3>2. CASE SaveBook(t)
      BY <2>3, <3>1, <3>2 DEF SaveBook, Import
    <3>3. CASE InsertBook(t)
      BY <2>3, <3>1, <3>3 DEF InsertBook, Import
    <3>4. CASE RereadBook(t)
      BY <2>3, <3>1, <3>4 DEF RereadBook, Import
    <3>5. ASSUME NEW table, NEW wanted, NEW new, NEW next, Replace(t, table, wanted, new, next)
          PROVE  task'[t].ext = task[t].ext /\ task'[t].seen = task[t].seen
      BY <2>3, <3>1, <3>5 DEF Replace, Import
    <3>6. CASE ReplaceAuthors(t) \/ ReplaceLanguages(t) \/ ReplaceCategories(t)
      BY <3>6, <3>5, Zenon DEF ReplaceAuthors, ReplaceLanguages, ReplaceCategories
    <3>7. CASE Fail(t)
      BY <3>1, <3>7 DEF Fail, Working, Idle
    <3> QED
      BY <1>2, <3>2, <3>3, <3>4, <3>6, <3>7 DEF UpsertFromExternalBook
  <2>6. \A u \in Task : Working(u)' =>
          /\ isReadableContent(task'[u].ext)
          /\ AsReadable(task'[u].seen, books[task'[u].ext.book])
    BY <2>2, <2>4, <2>5 DEF ReadableInv, Working
  <2> QED
    BY <2>1, <2>6 DEF ReadableInv, ReadableOnceImported, isReadableContent, AsReadable
<1> QED
  BY <1>1, <1>2, ReadableAtCommit, ReadableAtFind DEF Next

\* A book that an import was committed to can be read, in whatever columns it is
\* a mixture of two.
THEOREM ReadableOnceImportedHolds == Spec => []ReadableOnceImported
<1>1. Init => ReadableInv
  BY DEF Init, ReadableInv, ReadableOnceImported, Working, Idle
<1>2. IInv /\ ReadableInv /\ [Next]_vars => ReadableInv'
  BY ReadableKeeps
<1>3. ReadableInv => ReadableOnceImported
  BY DEF ReadableInv
<1> QED
  BY <1>1, <1>2, <1>3, InvariantHolds, PTL DEF Spec
=============================================================================
