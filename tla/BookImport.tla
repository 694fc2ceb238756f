----------------------------- MODULE BookImport -----------------------------
(***************************************************************************)
(* upsertFromExternalBook of BooksService: a book that a provider answered *)
(* is written to books, book_authors, book_languages and book_categories   *)
(* in one transaction.  Imports of one book run at the same time: two      *)
(* readers, or a bulk load and a reader, ask for it.                       *)
(*                                                                         *)
(* InnoDB runs the transaction at REPEATABLE READ.  Its plain SELECTs see  *)
(* the tables as they were at the first of them, and what it wrote itself; *)
(* UPDATE, DELETE, INSERT and locking reads see what is committed, once    *)
(* they hold the lock.  TypeORM's save() reads before it writes, with a    *)
(* plain SELECT.                                                           *)
(***************************************************************************)
EXTENDS Naturals, FiniteSets

CONSTANTS
    Task,             \* imports in flight
    Book,             \* provider and external reference: the unique key of books
    Title,            \* title, description and cover together
    Reference,        \* links to content
    Format,           \* formats of content
    Readable,         \* READABLE_CONTENT_FORMATS
    Entry,            \* rows of the list tables: <<key, value>>
    External,         \* what providers answer for a book, from time to time
    KnownCategories,  \* keys that have a row in categories
    Stored,           \* the rows books may have before the first import
    None

Table == {"book_authors", "book_languages", "book_categories"}
Column == {"title", "content", "format"}

\* A link and its format may both be missing, and not every format is read here.
ExternalBook == [book: Book, title: Title, content: Reference \cup {None},
                 format: Format \cup {None}, lists: [Table -> SUBSET Entry]]

BookRow == [title: Title, content: Reference \cup {None},
            format: Format \cup {None}]

isReadableContent(book) == book.content # None /\ book.format \in Readable

ASSUME BookImportAssumption ==
    /\ External \subseteq ExternalBook
    /\ Stored \subseteq BookRow
    /\ Readable \subseteq Format
    /\ None \notin Reference \cup Format \cup BookRow \cup ExternalBook

Lists == [Table -> SUBSET Entry]
Key(e) == e[1]
Keys(entries) == {Key(e) : e \in entries}

VARIABLES
    books,      \* table books: a row or None
    lists,      \* the three list tables, by book
    languages,  \* table languages
    task,       \* imports in flight
    creations,  \* history: imports answered 'created', of each book
    last,       \* history: the last import committed, of each book
    whole       \* history: books whose last import ran beside no other

vars == <<books, lists, languages, task, creations, last, whole>>

NoLists == [table \in Table |-> {}]
Idle == [at |-> "idle"]

\* Categories are linked, never created: a code without a row is left out.
Linked(entries) == {e \in entries : Key(e) \in KnownCategories}

\* The lists an import asks for, as far as there are categories.
Asked(ext) ==
    [table \in Table |-> IF table = "book_categories"
                         THEN Linked(ext.lists[table]) ELSE ext.lists[table]]

Working(t) == task[t].at # "idle"
On(t, b) == Working(t) /\ task[t].ext.book = b

\* Where an import is once it has replaced a list.
After == [book_authors |-> {"languages", "categories", "commit"},
          book_languages |-> {"categories", "commit"},
          book_categories |-> {"commit"}]
Past(t, table) == task[t].at \in After[table]

(***************************************************************************)
(* Locks.  An UPDATE or INSERT locks the row of books exclusively, the     *)
(* locking reread and the foreign keys of inserted list rows share it.     *)
(* The DELETE locks the rows of the book and the gap they lie in, so       *)
(* another import's DELETE or INSERT there waits.                          *)
(***************************************************************************)
Exclusive(t, b) == \E u \in Task \ {t} : On(u, b) /\ task[u].lock = "exclusive"
Shared(t, b) == \E u \in Task \ {t} : On(u, b) /\ task[u].lock = "shared"
NothingLocked(t, b, table) == FALSE

Replacing(t, b, table) == \E u \in Task \ {t} : On(u, b) /\ Past(u, table)

-----------------------------------------------------------------------------
Init ==
    /\ books \in [Book -> Stored \cup {None}]
    /\ lists \in [Book -> {NoLists} \cup {Asked(e) : e \in External}]
    /\ \A b \in Book : IF books[b] = None THEN lists[b] = NoLists
                       ELSE \E e \in External : /\ e.book = b /\ isReadableContent(e)
                                                  /\ lists[b] = Asked(e)
    /\ languages = UNION {Keys(lists[b]["book_languages"]) : b \in Book}
    /\ task = [t \in Task |-> Idle]
    /\ creations = [b \in Book |-> IF books[b] = None THEN 0 ELSE 1]
    /\ last = [b \in Book |-> None]
    /\ whole = {}

Begun(ext) ==
    [at |-> IF books[ext.book] = None THEN "insert" ELSE "save",
     ext |-> ext,
     seen |-> books[ext.book],
     seenLists |-> lists[ext.book],
     alone |-> TRUE,
     lock |-> "none",
     status |-> "none",
     wrote |-> {},
     removed |-> NoLists,
     rows |-> NoLists,
     newLanguages |-> {}]

FindAnyBook(t) ==
    /\ ~ Working(t)
    /\ \E ext \in External : task' = [task EXCEPT ![t] = Begun(ext)]
    /\ UNCHANGED <<books, lists, languages, creations, last, whole>>

\* What cannot be read is refused before the transaction, which begins with
\* findOne and takes its snapshot there.
FindBook(t) ==
    /\ ~ Working(t)
    /\ \E ext \in External :
         /\ isReadableContent(ext)
         /\ task' = [task EXCEPT ![t] = Begun(ext)]
    /\ UNCHANGED <<books, lists, languages, creations, last, whole>>

FormatForgotten(i) == {c \in Column \ {"format"} : i.ext[c] # i.seen[c]}

\* The columns save() writes: those in which the entity differs from the row
\* it reads again, in the same snapshot.
Changed(i) == {c \in Column : i.ext[c] # i.seen[c]}

\* The book was there.  When nothing differs there is no UPDATE and no lock.
SaveBook(t) ==
    LET b == task[t].ext.book
        changed == Changed(task[t])
    IN /\ task[t].at = "save"
       /\ changed # {} => ~ Exclusive(t, b) /\ ~ Shared(t, b)
       /\ task' = [task EXCEPT ![t] =
                     [@ EXCEPT !.at = "authors",
                               !.status = "updated",
                               !.lock = IF changed # {} THEN "exclusive" ELSE "none",
                               !.wrote = changed]]
       /\ UNCHANGED <<books, lists, languages, creations, last, whole>>

\* The book was not there, and the unique key accepts it.
InsertBook(t) ==
    LET b == task[t].ext.book
    IN /\ task[t].at = "insert"
       /\ ~ Exclusive(t, b) /\ ~ Shared(t, b)
       /\ books[b] = None
       /\ task' = [task EXCEPT ![t] =
                     [@ EXCEPT !.at = "authors",
                               !.status = "created",
                               !.lock = "exclusive",
                               !.wrote = Column]]
       /\ UNCHANGED <<books, lists, languages, creations, last, whole>>

RereadAsCreated(t) ==
    LET b == task[t].ext.book
    IN /\ task[t].at = "insert"
       /\ ~ Exclusive(t, b)
       /\ books[b] # None
       /\ task' = [task EXCEPT ![t] =
                     [@ EXCEPT !.at = "authors",
                               !.status = "created",
                               !.lock = "shared"]]
       /\ UNCHANGED <<books, lists, languages, creations, last, whole>>

\* Another import created it meanwhile: duplicate key, then the locking reread,
\* which leaves the row as the other one wrote it.
RereadBook(t) ==
    LET b == task[t].ext.book
    IN /\ task[t].at = "insert"
       /\ ~ Exclusive(t, b)
       /\ books[b] # None
       /\ task' = [task EXCEPT ![t] =
                     [@ EXCEPT !.at = "authors",
                               !.status = "updated",
                               !.lock = "shared"]]
       /\ UNCHANGED <<books, lists, languages, creations, last, whole>>

(***************************************************************************)
(* DELETE the book's rows, then save() the new ones.  save() looks for     *)
(* their keys first.  The rows this transaction deleted are gone for it,   *)
(* but a row of its snapshot that another import deleted and committed is  *)
(* still in the snapshot: save() finds that key, and updates a row that    *)
(* does not exist instead of inserting one.                                *)
(***************************************************************************)
Found(t, table) ==
    Keys(task[t].seenLists[table]) \ Keys(lists[task[t].ext.book][table])

Saved(t, table, wanted) == {e \in wanted : Key(e) \notin Found(t, table)}

Replace(t, table, wanted, new, next) ==
    LET i == task[t]
        b == i.ext.book
        saved == Saved(t, table, wanted)
    IN /\ ~ Replacing(t, b, table)
       /\ saved # {} => ~ Exclusive(t, b)
       /\ task' = [task EXCEPT ![t] =
                     [i EXCEPT !.at = next,
                               !.removed = [i.removed EXCEPT ![table] = lists[b][table]],
                               !.rows = [i.rows EXCEPT ![table] = saved],
                               !.newLanguages = new,
                               !.lock = IF i.lock = "none" /\ saved # {}
                                        THEN "shared" ELSE i.lock]]
       /\ UNCHANGED <<books, lists, languages, creations, last, whole>>

ReplaceAuthors(t) ==
    /\ task[t].at = "authors"
    /\ Replace(t, "book_authors", task[t].ext.lists["book_authors"],
               {}, "languages")

\* ensureLanguageExists: insert the codes languages does not have.  A code
\* another import has inserted and not committed is waited for: it is there, and
\* the duplicate ignored, or the other one rolled back and this one inserts it.
Inserting(t, codes) ==
    \E u \in Task \ {t} : Working(u) /\ task[u].newLanguages \cap codes # {}

InsertedByAnother(t) ==
    UNION {task[u].newLanguages : u \in {v \in Task \ {t} : Working(v)}}

LanguagesTrusted(t) ==
    LET wanted == task[t].ext.lists["book_languages"]
        new == Keys(wanted) \ (languages \cup InsertedByAnother(t))
    IN /\ task[t].at = "languages"
       /\ Replace(t, "book_languages", wanted, new, "categories")

ReplaceLanguages(t) ==
    LET wanted == task[t].ext.lists["book_languages"]
        new == Keys(wanted) \ languages
    IN /\ task[t].at = "languages"
       /\ ~ Inserting(t, new)
       /\ Replace(t, "book_languages", wanted, new, "categories")

ReplaceCategories(t) ==
    /\ task[t].at = "categories"
    /\ Replace(t, "book_categories",
               Linked(task[t].ext.lists["book_categories"]),
               task[t].newLanguages, "commit")

NewValue(t, c) ==
    IF c \in task[t].wrote THEN task[t].ext[c] ELSE books[task[t].ext.book][c]

Written(t) == [title |-> NewValue(t, "title"), content |-> NewValue(t, "content"),
               format |-> NewValue(t, "format")]

NothingDeleted(t, table) ==
    lists[task[t].ext.book][table] \cup task[t].rows[table]

Listed(t, table) ==
    (lists[task[t].ext.book][table] \ task[t].removed[table]) \cup task[t].rows[table]

Commit(t) ==
    LET ext == task[t].ext
        b == ext.book
    IN /\ task[t].at = "commit"
       /\ books' = [books EXCEPT ![b] = Written(t)]
       /\ lists' = [lists EXCEPT ![b] = [table \in Table |-> Listed(t, table)]]
       /\ languages' = languages \cup task[t].newLanguages
       /\ creations' = [creations EXCEPT ![b] =
                          IF task[t].status = "created" THEN @ + 1 ELSE @]
       /\ last' = [last EXCEPT ![b] = ext]
       /\ whole' = IF task[t].alone THEN whole \cup {b} ELSE whole \ {b}
       /\ task' = [u \in Task |->
                     IF u = t THEN Idle
                     ELSE IF On(u, b) THEN [task[u] EXCEPT !.alone = FALSE]
                     ELSE task[u]]

\* A deadlock InnoDB breaks, a database error, the process stops: rolled back.
Fail(t) ==
    /\ Working(t)
    /\ task' = [task EXCEPT ![t] = Idle]
    /\ UNCHANGED <<books, lists, languages, creations, last, whole>>

UpsertFromExternalBook(t) ==
    \/ FindBook(t)
    \/ SaveBook(t)
    \/ InsertBook(t)
    \/ RereadBook(t)
    \/ ReplaceAuthors(t)
    \/ ReplaceLanguages(t)
    \/ ReplaceCategories(t)
    \/ Commit(t)
    \/ Fail(t)

Next == \E t \in Task : UpsertFromExternalBook(t)

Spec == Init /\ [][Next]_vars

-----------------------------------------------------------------------------
Import == [at: {"save", "insert", "authors", "languages", "categories", "commit"},
           ext: External, seen: BookRow \cup {None}, seenLists: Lists,
           alone: BOOLEAN, lock: {"none", "shared", "exclusive"},
           status: {"none", "created", "updated"}, wrote: SUBSET Column,
           removed: Lists, rows: Lists, newLanguages: SUBSET Keys(Entry)]

\* Types of the tables, of the imports in flight and of the histories.
TypeOK ==
    /\ books \in [Book -> BookRow \cup {None}]
    /\ lists \in [Book -> Lists]
    /\ languages \subseteq Keys(Entry)
    /\ task \in [Task -> {Idle} \cup Import]
    /\ creations \in [Book -> Nat]
    /\ last \in [Book -> External \cup {None}]
    /\ whole \subseteq Book

\* A book is created once: one import of it is answered 'created', however many
\* found no row and inserted it.
CreatedOnce ==
    \A b \in Book : creations[b] = IF books[b] = None THEN 0 ELSE 1

\* The lists of a book never mix two imports: every row is one the last committed
\* import asked for, though imports delete and insert beside each other.
ListsOfLastImport ==
    \A b \in Book : \A table \in Table :
        last[b] # None => lists[b][table] \subseteq Asked(last[b])[table]

\* An import during which no other one of the same book committed leaves exactly
\* what the provider answered, in the row and in the three lists.
AloneIsWhole ==
    \A b \in whole :
        /\ \A c \in Column : books[b][c] = last[b][c]
        /\ lists[b] = Asked(last[b])

\* Every language of a book has its row in languages, also when the import that
\* was inserting it rolled back: the foreign key never fails an import.
LanguagesListed ==
    \A b \in Book : Keys(lists[b]["book_languages"]) \subseteq languages

\* Once a book has been imported it can be read, whatever the row was before
\* and whatever columns two imports beside each other leave of it: the readers
\* of books show nothing else, and Favorites counts nothing else.
ReadableOnceImported ==
    \A b \in Book : last[b] # None => books[b] # None /\ isReadableContent(books[b])

\* What its comment on the two columns says: the format travels with its link,
\* and both are updated together.  Refuted: save() writes the columns that differ
\* from the snapshot, which may be one of the two, beside another import that
\* writes both.
FormatTravelsWithLink ==
    \A b \in Book : last[b] # None =>
        \E ext \in External : /\ ext.book = b
                              /\ ext.content = books[b].content
                              /\ ext.format = books[b].format

\* What the comments of upsertFromExternalBook say: the lists of a book are
\* replaced whole.  Refuted: a row that another import has removed and this one
\* would bring back is not inserted.
ListsReplacedWhole ==
    \A b \in Book : last[b] # None => lists[b] = Asked(last[b])
=============================================================================
