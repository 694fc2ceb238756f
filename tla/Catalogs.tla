------------------------------ MODULE Catalogs ------------------------------
(***************************************************************************)
(* CatalogsService, its four providers and the imports of BooksService     *)
(* that rest on them: one external book, the page of a search, every page  *)
(* of one provider, every page of every active provider.                   *)
(*                                                                         *)
(* The providers are consulted over the network and any of them may fail.  *)
(* Requests to arXiv wait in a queue of the process, shared by everything  *)
(* that consults arXiv, and keep a distance from the end of the last one.  *)
(* The table book_providers is read anew for every page.                   *)
(*                                                                         *)
(* The result set of a query is of a size that stays; what each position   *)
(* holds is chosen when it is answered.  That a book is written is one     *)
(* step here (BookImport has it in full): it succeeds or it fails.         *)
(***************************************************************************)
EXTENDS ExternalBooks, FiniteSets

Provider == {"GUTENDEX", "STANDARD_EBOOKS", "ARXIV", "OPENALEX"}

\* Their places in CatalogsModule, and in the table's list by name.
Registered == [GUTENDEX |-> 1, STANDARD_EBOOKS |-> 2, ARXIV |-> 3, OPENALEX |-> 4]
ByName == [ARXIV |-> 1, OPENALEX |-> 2, GUTENDEX |-> 3, STANDARD_EBOOKS |-> 4]

CONSTANTS
    Reader,            \* requests of clients that use the catalogue
    Asks,              \* what a request may ask: <<reader, job, provider>>
    ItemsOf,           \* what the providers' result sets may hold
    PageSize,          \* of the search
    GutendexPageSize,  \* of Gutendex, which does not let it be set
    MaxPages,          \* of a bulk load
    MaxTotal,          \* bound: size of a result set, of one provider's load
    Many,              \* bound: where several are consulted, those that have one
    Interval,          \* ARXIV_MIN_REQUEST_INTERVAL_MS
    Administered       \* bound: providers an administrator turns off and on

ASSUME CatalogAssumption ==
    /\ Interval \in Nat /\ MaxTotal \in Nat
    /\ PageSize \in Nat \ {0} /\ GutendexPageSize \in Nat \ {0} /\ MaxPages \in Nat \ {0}
    /\ \A p \in Provider : \A item \in ItemsOf[p] : item \in Item

VARIABLES
    stored,   \* table book_providers: absent, active or disabled
    seeding,  \* what a run of the seed found missing, or None
    load,     \* the requests
    queue,    \* arXiv: requests in the order of their promises
    calling,  \* arXiv: the first of them is under way
    elapsed,  \* arXiv: time since lastRequestAt, as far as it matters
    quiet     \* history: time since arXiv had its last request from here

catalogVars == <<stored, seeding, load, queue, calling, elapsed, quiet>>
table == <<stored, seeding>>
arxiv == <<queue, calling, elapsed, quiet>>

\* Only a row that says so disables a provider.
Active == {p \in Provider : stored[p] = "active"}
Disabled == {p \in Provider : stored[p] = "disabled"}

ResolveActiveProviders == IF Active = {} THEN Provider ELSE Active

\* A load goes through the active providers by name.
FindAllProviders == Active
First(left) == CHOOSE p \in left : \A q \in left : ByName[p] <= ByName[q]

-----------------------------------------------------------------------------
\* The searches.  A response is its items by their positions in the result set;
\* a page is what a provider makes of it: the books, each at its position, and
\* whether there is another page.
Position(i, book) == [pos |-> i, book |-> book]
Place(b) == <<b.book.provider, b.pos>>
BookOf ==
    [p \in Provider |-> [item \in ItemsOf[p] |->
        CASE p = "GUTENDEX" -> GutendexBook(item)
          [] p = "STANDARD_EBOOKS" -> StandardEbooksBook(item)
          [] p = "ARXIV" -> ArxivBook(item)
          [] p = "OPENALEX" -> OpenAlexBook(item)]]
MappedAt(results, p) == {i \in DOMAIN results : BookOf[p][results[i]] # None}
Mapped(results, p) == {Position(i, BookOf[p][results[i]]) : i \in MappedAt(results, p)}

SizeOf(p) == IF p = "GUTENDEX" THEN GutendexPageSize ELSE PageSize

StartAtPage(page) == page * PageSize

\* arXiv takes an offset, the others the number of the page.
ArxivStart(page) == (page - 1) * PageSize

StartOf(p, page) == IF p = "ARXIV" THEN ArxivStart(page) ELSE (page - 1) * SizeOf(p)
Window(p, page, total) ==
    {i \in 1..total : StartOf(p, page) < i /\ i <= StartOf(p, page) + SizeOf(p)}

GutendexSearch(results, page, total, told) ==
    [found |-> Mapped(results, "GUTENDEX"),
     more |-> page * GutendexPageSize < total]

\* The feed tells no total: a full page is taken for one that has a next.
StandardEbooksSearch(results, page, total, told) ==
    LET books == Mapped(results, "STANDARD_EBOOKS")
    IN [found |-> books, more |-> Cardinality(books) = PageSize]

ArxivSearch(results, page, total, told) ==
    LET books == Mapped(results, "ARXIV")
    IN [found |-> books,
        more |-> IF told THEN page * PageSize < total ELSE Cardinality(books) = PageSize]

OpenAlexSearch(results, page, total, told) ==
    LET books == Mapped(results, "OPENALEX")
    IN [found |-> books,
        more |-> IF told THEN page * PageSize < total ELSE Cardinality(books) = PageSize]

SearchOf(p, results, page, total, told) ==
    CASE p = "GUTENDEX" -> GutendexSearch(results, page, total, told)
      [] p = "STANDARD_EBOOKS" -> StandardEbooksSearch(results, page, total, told)
      [] p = "ARXIV" -> ArxivSearch(results, page, total, told)
      [] p = "OPENALEX" -> OpenAlexSearch(results, page, total, told)

\* Without terms arXiv's page is empty: it does not list everything.
EmptyPage == [found |-> {}, more |-> FALSE]

\* One book by its reference, which is position 1.
GutendexFind(results) ==
    IF DOMAIN results = {} THEN None ELSE BookOf["GUTENDEX"][results[1]]
StandardEbooksFind(results) ==
    IF 1 \in DOMAIN results THEN BookOf["STANDARD_EBOOKS"][results[1]] ELSE None
ArxivFind(results) ==
    IF DOMAIN results = {} THEN None ELSE BookOf["ARXIV"][results[1]]
OpenAlexFind(results) ==
    IF DOMAIN results = {} THEN None ELSE BookOf["OPENALEX"][results[1]]
FindOf(p, results) ==
    CASE p = "GUTENDEX" -> GutendexFind(results)
      [] p = "STANDARD_EBOOKS" -> StandardEbooksFind(results)
      [] p = "ARXIV" -> ArxivFind(results)
      [] p = "OPENALEX" -> OpenAlexFind(results)

-----------------------------------------------------------------------------
NoPages == [p \in Provider |-> EmptyPage]

\* A request, once its job is known.  The last line is history: the sizes of
\* the result sets, the positions answered, the readable ones of them, the
\* providers one of whose pages left out an item, and those whose next page
\* was guessed.
Request(job, terms, left) ==
    [at |-> "resolve", job |-> job, terms |-> terms, left |-> left,
     waiting |-> {}, pages |-> NoPages, unavailable |-> {},
     page |-> 1, todo |-> {}, more |-> FALSE,
     imported |-> {}, failed |-> {}, truncated |-> FALSE, down |-> {},
     total |-> [p \in Provider |-> 0], got |-> {}, readable |-> {},
     dropped |-> {}, guessed |-> {}]

NoRequest == [at |-> "idle"]
Loads(l) == l.job \in {"one", "all"}
Everywhere(l) == l.job = "search" /\ l.left = Provider

\* A load goes to its next provider, or is answered.
NextProvider(l) ==
    LET rest == l.left \ {First(l.left)}
    IN IF rest = {} THEN [l EXCEPT !.at = "done"]
       ELSE [l EXCEPT !.left = rest, !.page = 1, !.at = "resolve"]

\* The page is stored: the next one, unless there is none or enough is enough.
AfterPage(l) ==
    IF ~ Loads(l) THEN [l EXCEPT !.at = "done"]
    ELSE IF ~ l.more THEN NextProvider(l)
    ELSE IF l.page = MaxPages THEN NextProvider([l EXCEPT !.truncated = TRUE])
    ELSE [l EXCEPT !.page = l.page + 1, !.at = "resolve"]

Storing(l) == IF l.todo = {} THEN AfterPage(l) ELSE [l EXCEPT !.at = "store"]

\* The pages that were answered, without the books that only lead elsewhere.
ReadableOf(l, p) == {b \in l.pages[p].found : IsReadableContent(b.book)}

\* Every provider consulted has answered or failed.
Settle(l) ==
    LET books == UNION {ReadableOf(l, p) : p \in Provider}
        p == First(l.left)
        result == [l EXCEPT !.todo = books, !.pages = NoPages, !.unavailable = {}]
    IN CASE l.job = "find" -> IF books = {} THEN [result EXCEPT !.at = "refused"]
                              ELSE Storing(result)
         [] l.job = "search" -> Storing([result EXCEPT !.down = l.unavailable])
         [] Loads(l) /\ p \in l.unavailable ->
              NextProvider([result EXCEPT !.down = l.down \cup {p}])
         [] OTHER -> Storing([result EXCEPT !.more = l.pages[p].more])

Answered(l, p, page) ==
    LET rest == [l EXCEPT !.waiting = l.waiting \ {p}, !.pages[p] = page]
    IN IF rest.waiting = {} THEN Settle(rest) ELSE rest

AskAgainIfLoading(l, p) ==
    IF Loads(l) THEN [l EXCEPT !.waiting = {}, !.at = "resolve"]
    ELSE LET rest == [l EXCEPT !.waiting = l.waiting \ {p},
                               !.unavailable = l.unavailable \cup {p}]
         IN IF rest.waiting = {} THEN Settle(rest) ELSE rest

Failed(l, p) ==
    LET rest == [l EXCEPT !.waiting = l.waiting \ {p},
                          !.unavailable = l.unavailable \cup {p}]
    IN IF rest.waiting = {} THEN Settle(rest) ELSE rest

\* What comes of a response to a search, and to a lookup.
AnswerSearch(l, p, results, told) ==
    LET page == SearchOf(p, results, l.page, l.total[p], told)
        readable == {b \in page.found : IsReadableContent(b.book)}
    IN Answered([l EXCEPT
                   !.got = l.got \cup {<<p, i>> : i \in DOMAIN results},
                   !.readable = l.readable \cup {Place(b) : b \in readable},
                   !.dropped = l.dropped \cup
                       (IF MappedAt(results, p) = DOMAIN results THEN {} ELSE {p}),
                   !.guessed = l.guessed \cup (IF told THEN {} ELSE {p})], p, page)

AnswerFind(l, p, results) ==
    LET book == FindOf(p, results)
    IN Answered(l, p, [found |-> IF book = None THEN {} ELSE {Position(1, book)},
                       more |-> FALSE])

-----------------------------------------------------------------------------
CatalogInit ==
    /\ stored = [p \in Provider |-> "absent"]
    /\ seeding = None
    /\ load = [r \in Reader |-> NoRequest]
    /\ queue = <<>>
    /\ calling = FALSE
    /\ elapsed = Interval
    /\ quiet = Interval

\* seedProviders reads the codes there are, and later inserts the others.
FindMissing ==
    /\ seeding = None
    /\ seeding' = {p \in Provider : stored[p] = "absent"}
    /\ seeding' # {}
    /\ UNCHANGED <<stored, load, arxiv>>

SaveMissing ==
    /\ seeding # None
    /\ stored' = [p \in Provider |-> IF p \in seeding THEN "active" ELSE stored[p]]
    /\ seeding' = None
    /\ UNCHANGED <<load, arxiv>>

\* An administrator, in the database: no endpoint does it.
Administer ==
    /\ \E p \in Administered :
         /\ stored[p] # "absent"
         /\ stored' = [stored EXCEPT ![p] = IF @ = "active" THEN "disabled" ELSE "active"]
    /\ UNCHANGED <<seeding, load, arxiv>>

-----------------------------------------------------------------------------
\* importFromExternalReference, importFromSearch and importAllFromProvider,
\* of one provider.
AskOne(r, job) ==
    /\ load[r].at = "idle"
    /\ \E p \in Provider, terms \in BOOLEAN :
         /\ <<r, job, p>> \in Asks
         /\ load' = [load EXCEPT ![r] = Request(job, terms, {p})]
    /\ UNCHANGED <<table, arxiv>>

\* importFromSearch without a provider.
AskSearch(r) ==
    /\ load[r].at = "idle"
    /\ <<r, "search", None>> \in Asks
    /\ \E terms \in BOOLEAN :
         load' = [load EXCEPT ![r] = Request("search", terms, Provider)]
    /\ UNCHANGED <<table, arxiv>>

\* importAllFromAllProviders: the active ones as they are now, one by one.
AskAll(r) ==
    /\ load[r].at = "idle"
    /\ <<r, "all", None>> \in Asks
    /\ \E terms \in BOOLEAN :
         LET active == FindAllProviders
             all == Request("all", terms, active)
         IN load' = [load EXCEPT ![r] = IF active = {} THEN [all EXCEPT !.at = "done"]
                                        ELSE all]
    /\ UNCHANGED <<table, arxiv>>

\* Whom the next search or lookup consults.
Consulted(l) == IF Everywhere(l) THEN ResolveActiveProviders ELSE {First(l.left)}

\* A reference of the wrong form, and arXiv without terms, are answered
\* without a request.
NeedsNoRequest(l, p) == ~ l.terms /\ (l.job = "find" \/ p = "ARXIV")

\* A provider the table disables aborts the request, also in the middle of a
\* load: what it imported stays, the answer is an error.
ProviderDisabled(r) ==
    /\ load[r].at = "resolve"
    /\ ~ Everywhere(load[r])
    /\ First(load[r].left) \in Disabled
    /\ load' = [load EXCEPT ![r].at = "refused"]
    /\ UNCHANGED <<table, arxiv>>

\* The bound of a result set, and whether its size is chosen now.
Totals(l, p) == 0..(IF l.job \notin {"all", "search"} THEN MaxTotal
                   ELSE IF p \in Many THEN 1 ELSE 0)
Sizes(l, consulted) ==
    IF l.page > 1 \/ l.job = "find" THEN {l.total}
    ELSE {n \in [Provider -> 0..MaxTotal] :
             \A p \in Provider : IF p \in consulted THEN n[p] \in Totals(l, p)
                                ELSE n[p] = l.total[p]}

Consult(r) ==
    LET l == load[r]
        consulted == Consulted(l)
        asked == {p \in consulted : ~ NeedsNoRequest(l, p)}
    IN /\ l.at = "resolve"
       /\ ~ Everywhere(l) => consulted \cap Disabled = {}
       /\ queue' = IF "ARXIV" \in asked THEN Append(queue, r) ELSE queue
       /\ UNCHANGED <<table, calling, elapsed, quiet>>
       /\ \E total \in Sizes(l, asked) :
            LET next == [l EXCEPT !.at = "ask", !.waiting = asked, !.total = total]
            IN load' = [load EXCEPT ![r] = IF asked = {} THEN Settle(next) ELSE next]

-----------------------------------------------------------------------------
\* arXiv's queue: the next request goes out when the one before it has ended
\* and the interval has passed.
FetchFeed(r) ==
    /\ queue # <<>> /\ Head(queue) = r
    /\ ~ calling
    /\ elapsed >= Interval
    /\ calling' = TRUE
    /\ UNCHANGED <<table, load, queue, elapsed, quiet>>

\* However it ends, its end is what the next one waits from.
LeaveQueue(r) ==
    /\ queue' = Tail(queue)
    /\ calling' = FALSE
    /\ elapsed' = 0

TimedOnlyWhenAnswered(r) ==
    /\ queue' = Tail(queue)
    /\ calling' = FALSE
    /\ elapsed' = elapsed

\* After a failure too, the queue goes on.
LeaveQueueFailed(r) == LeaveQueue(r)

Later(n) == IF n < Interval THEN n + 1 ELSE n
CatalogTick ==
    /\ elapsed < Interval \/ quiet < Interval
    /\ elapsed' = Later(elapsed)
    /\ quiet' = Later(quiet)
    /\ UNCHANGED <<table, load, queue, calling>>

UnderWay(r, p) ==
    /\ load[r].at = "ask" /\ p \in load[r].waiting
    /\ p = "ARXIV" => calling /\ Head(queue) = r

\* A response.  Only Gutendex always tells whether there is more.
Told(p) == CASE p = "GUTENDEX" -> {TRUE}
             [] p = "STANDARD_EBOOKS" -> {FALSE}
             [] OTHER -> BOOLEAN

SearchAnswers(r, p) ==
    LET l == load[r]
    IN \E results \in [Window(p, l.page, l.total[p]) -> ItemsOf[p]], told \in Told(p) :
         load' = [load EXCEPT ![r] = AnswerSearch(l, p, results, told)]

\* Standard Ebooks searches for the reference, and may find another book.
FindAnswers(r, p) ==
    \E found \in {{}, {1}} \cup (IF p = "STANDARD_EBOOKS" THEN {{2}} ELSE {}) :
       \E results \in [found -> ItemsOf[p]] :
          load' = [load EXCEPT ![r] = AnswerFind(load[r], p, results)]

Answer(r, p) ==
    /\ UnderWay(r, p)
    /\ UNCHANGED table
    /\ IF p = "ARXIV" THEN LeaveQueue(r) /\ quiet' = 0 ELSE UNCHANGED arxiv
    /\ IF load[r].job = "find" THEN FindAnswers(r, p) ELSE SearchAnswers(r, p)

\* A status that is not OK, a body that is not JSON, or the time limit.
Unavailable(r, p) ==
    /\ UnderWay(r, p)
    /\ UNCHANGED table
    /\ IF p = "ARXIV" THEN LeaveQueueFailed(r) /\ quiet' = 0 ELSE UNCHANGED arxiv
    /\ load' = [load EXCEPT ![r] = Failed(load[r], p)]

-----------------------------------------------------------------------------
\* A book is written, or is reported and the others go on, in the order of the
\* pages.
Order(b) == Registered[b.book.provider] * (MaxTotal + 1) + b.pos
NextOf(todo) == CHOOSE b \in todo : \A c \in todo : Order(b) <= Order(c)

Upsert(r) ==
    /\ load[r].at = "store"
    /\ UNCHANGED <<table, arxiv>>
    /\ LET l == load[r]
           b == NextOf(l.todo)
           rest == [l EXCEPT !.todo = l.todo \ {b}]
       IN \/ load' = [load EXCEPT ![r] =
                        Storing([rest EXCEPT !.imported = l.imported \cup {Place(b)}])]
          \/ load' = [load EXCEPT ![r] =
                        IF l.job = "find" THEN [rest EXCEPT !.at = "refused"]
                        ELSE Storing([rest EXCEPT !.failed = l.failed \cup {Place(b)}])]

Ask(r) ==
    \/ \E job \in {"find", "search", "one"} : AskOne(r, job)
    \/ AskSearch(r) \/ AskAll(r)

GoOn(r) ==
    \/ ProviderDisabled(r) \/ Consult(r) \/ FetchFeed(r)
    \/ \E p \in Provider : Unavailable(r, p) \/ Answer(r, p)
    \/ Upsert(r)

CatalogNext ==
    \/ FindMissing \/ SaveMissing \/ Administer
    \/ \E r \in Reader : Ask(r) \/ GoOn(r)
    \/ CatalogTick

\* The server goes on with what it has begun, a request to a provider ends
\* within its time limit, and time passes.
CatalogFairness ==
    /\ WF_catalogVars(CatalogTick)
    /\ \A r \in Reader : WF_catalogVars(GoOn(r))

-----------------------------------------------------------------------------
\* A load or search that was answered has imported, or reported as failed,
\* every readable book of the pages it was given, and no other.  A load that
\* reports neither a provider that failed nor a limit it ran into was given
\* every position of every result set; except where the next page is guessed
\* from a full one (Standard Ebooks, and a response without a total), for
\* then an item that could not be mapped ends it early.  That it ran into the
\* limit means that there was more, but for a guess.
LoadIsComplete ==
    \A r \in Reader : LET l == load[r] IN l.at = "done" =>
        /\ l.job # "find" => l.imported \cup l.failed = l.readable
        /\ l.imported \cap l.failed = {}
        /\ Loads(l) /\ ~ l.truncated =>
             \A p \in Provider \ (l.down \cup (l.guessed \cap l.dropped)) :
                \A i \in 1..l.total[p] : <<p, i>> \in l.got
        /\ l.truncated =>
             \E p \in Provider : \/ l.total[p] > MaxPages * SizeOf(p)
                                \/ /\ p \in l.guessed
                                   /\ l.total[p] = MaxPages * SizeOf(p)

\* What the formats are published as; the others cannot be read here.
Published == {"pdf", "epub", "html", "html other", "plain utf8", "plain", "plain other"}
FormatOf(kind) ==
    CASE kind = "pdf" -> "PDF"
      [] kind = "epub" -> "EPUB"
      [] kind \in {"html", "html other"} -> "HTML"
      [] OTHER -> "TEXT"

\* Nothing twice.
Once(s) == Cardinality(ToSet(s)) = Len(s)

\* The names and the languages an item was answered with.
Names(item) == {raw.name : raw \in ToSet(item.authors)} \ {None}
Tongues(item) == ({raw.tag : raw \in ToSet(item.languages)} \cap LanguageTag) \ {None}

\* The lists of a book are those of an item: an author is left out only when
\* there are more than a book may have, a language never.
ListsAreOf(b, item) ==
    /\ Once(b.authors) /\ Len(b.authors) <= MaxAuthors
    /\ ToSet(b.authors) \subseteq Names(item)
    /\ ToSet(b.authors) # Names(item) => Len(b.authors) = MaxAuthors
    /\ Once(b.languages)
    /\ b.provider # "ARXIV" => ToSet(b.languages) = Tongues(item)
    /\ Once(b.categories) /\ Len(b.categories) <= MaxCategories

\* Every book that is about to be written, from whichever provider and by
\* whichever request, can be read here, has the format of the very link that
\* was chosen, and has the lists of an item of its provider: no language
\* twice, which the key of book_languages would refuse, no author twice, which
\* the key of book_authors, the author's place, would let through and the
\* reader would see, and nobody left out below the limit.
BooksFitTables ==
    \A r \in Reader : load[r].at = "store" =>
        \A b \in {found.book : found \in load[r].todo} :
            /\ b.ref \in Published /\ b.format = FormatOf(b.ref)
            /\ \E item \in ItemsOf[b.provider] : ListsAreOf(b, item)

\* Between the end of one request to arXiv, also one that failed, and the next
\* one lies the interval arXiv asks for, whichever requests they belong to.
IntervalKept == [][calling' /\ ~ calling => quiet >= Interval]_catalogVars

\* Requests that are under way are all answered, also those behind others in
\* arXiv's queue, and whatever fails: no load goes on for ever.  (A reader asks
\* once.)
EveryRequestEnds ==
    (\E r \in Reader : load[r].at \in {"resolve", "ask", "store"})
        ~> (\A r \in Reader : load[r].at \in {"idle", "done", "refused"})
=============================================================================
