------------------------ MODULE BookImportInvariant ------------------------
(***************************************************************************)
(* The inductive invariant of BookImport.                                  *)
(***************************************************************************)
EXTENDS BookImport

\* What an import has done to the row of its book, by its status.
RowOf(i) ==
    /\ i.at \in {"insert", "save"} <=> i.status = "none"
    /\ i.at = "insert" => i.seen = None
    /\ i.at = "save" => i.seen # None
    /\ i.seen # None => books[i.ext.book] # None
    /\ i.status = "none" => i.lock = "none"
    /\ i.status = "created" => /\ i.lock = "exclusive"
                               /\ i.wrote = Column
                               /\ books[i.ext.book] = None
    /\ i.status = "updated" => /\ books[i.ext.book] # None
                               /\ i.seen # None => i.wrote = Changed(i)
RowWritten == \A t \in Task : Working(t) => RowOf(task[t])

\* One import at a time has written the row of a book and not committed.
OneWriter ==
    \A t, u \in Task : t # u /\ Working(t) /\ Working(u)
                         /\ task[t].ext.book = task[u].ext.book
        => ~ (task[t].lock = "exclusive" /\ task[u].lock = "exclusive")

\* One import at a time has replaced a list of a book and not committed.
OneReplaces ==
    \A t, u \in Task : t # u /\ Working(t) /\ Working(u)
                         /\ task[t].ext.book = task[u].ext.book
        => \A table \in Table : ~ (Past(t, table) /\ Past(u, table))

\* The snapshot of an import is the table until another one commits.
SeesCurrent(i) ==
    i.alone => i.seen = books[i.ext.book] /\ i.seenLists = lists[i.ext.book]
SeenIsCurrent == \A t \in Task : Working(t) => SeesCurrent(task[t])

\* A list that was replaced is still the one that was deleted, and what was
\* inserted is what was asked for - all of it while no other import committed.
HoldsList(i, table) ==
    /\ i.removed[table] = lists[i.ext.book][table]
    /\ i.rows[table] \subseteq Asked(i.ext)[table]
    /\ i.alone => i.rows[table] = Asked(i.ext)[table]
ListsHeld ==
    \A t \in Task : Working(t) =>
        \A table \in Table : Past(t, table) => HoldsList(task[t], table)

\* The languages of a book are in the table or come with the commit.
BringsLanguages(i) ==
    Keys(i.ext.lists["book_languages"]) \subseteq languages \cup i.newLanguages
LanguagesComing ==
    \A t \in Task : Working(t) /\ Past(t, "book_languages") =>
        BringsLanguages(task[t])

IInv ==
    /\ TypeOK
    /\ RowWritten
    /\ OneWriter
    /\ OneReplaces
    /\ SeenIsCurrent
    /\ ListsHeld
    /\ LanguagesComing
    /\ CreatedOnce
    /\ ListsOfLastImport
    /\ AloneIsWhole
    /\ LanguagesListed

\* The row of an import's book is as readable as it was in its snapshot, or
\* when there was none.  Beside IInv, for ReadableOnceImported.
AsReadable(seen, row) ==
    row # None =>
        /\ seen = None \/ seen.content # None => row.content # None
        /\ seen = None \/ seen.format \in Readable => row.format \in Readable
ReadableInv ==
    /\ ReadableOnceImported
    /\ \A t \in Task : Working(t) =>
         /\ isReadableContent(task[t].ext)
         /\ AsReadable(task[t].seen, books[task[t].ext.book])
=============================================================================
