--------------------------- MODULE ReadingContent ---------------------------
(***************************************************************************)
(* getPage of ReadingContentService: the content of a book is fetched from *)
(* where it is published, redirect by redirect and chunk by chunk, and the *)
(* processor of its format makes the asked page of it.  Every page of a    *)
(* book is a request of its own, which fetches the whole document again.   *)
(* Requests share nothing, so there is one here.                           *)
(*                                                                         *)
(* The text of a document is abstracted to the places of its characters: a *)
(* paragraph is a length, the places where it has the character ' ', the   *)
(* only one it is cut at, and those of its other white space.  A block of  *)
(* HTML is the length of its text.  A chapter of an EPUB is a name, a page *)
(* of a PDF its size.                                                      *)
(***************************************************************************)
EXTENDS Lists, FiniteSets

CONSTANTS
    Documents,     \* what may be published: see the processors
    LastPage,      \* bound: the pages asked for
    MaxRedirects,  \* MAX_REDIRECTS
    MaxBytes,      \* READING_CONTENT_MAX_BYTES
    Target,        \* TARGET_PAGE_CHARACTERS
    MaxDimension   \* PDF_MAX_CANVAS_DIMENSION, and the area with it

\* A paragraph: spaces, and breaks, which are single line breaks, tabs and the
\* like.  What it begins and ends with is none, for it was trimmed.
Ink(p) == (1..p.length) \ (p.spaces \cup p.breaks)
Paragraphs ==
    {p \in [length : Nat \ {0}, spaces : SUBSET Nat, breaks : SUBSET Nat] :
        {1, p.length} \subseteq Ink(p)}

\* What there is of a document, by its format.  Blocks may have no text.
Packages ==
    [items : Seq([id : STRING, href : STRING, html : BOOLEAN]),
     spine : Seq([idref : STRING, linear : BOOLEAN])]
Texts(format) ==
    CASE format = "TEXT" -> Seq(Paragraphs)
      [] format = "EPUB" -> Packages
      [] OTHER -> Seq(Nat)
Formats == {"TEXT", "HTML", "PDF", "EPUB", "EXTERNAL_PAGE", "UNSUPPORTED"}

ASSUME ContentAssumption ==
    /\ Target \in Nat \ {0} /\ MaxRedirects \in Nat /\ MaxBytes \in Nat /\ LastPage \in Nat
    /\ \A doc \in Documents :
         /\ doc.format \in Formats
         /\ doc.bytes \in Nat
         /\ doc.text \in Texts(doc.format)

VARIABLES
    get,   \* the request
    open   \* what it holds open: body, archive, stream, document, page, canvas

contentVars == <<get, open>>

NoPage == [at |-> "idle"]

-----------------------------------------------------------------------------
\* Plain text.  A page is made of parts, whole paragraphs or a fragment of one,
\* with an empty line between them.
Part(i, from, to) == [paragraph |-> i, from |-> from, to |-> to]
PartLength(part) == part.to - part.from + 1
PageLength(page) ==
    Sum([k \in 1..Len(page) |-> PartLength(page[k])]) + 2 * (Len(page) - 1)

\* Where the text from a place on is cut: at the last ' ' there is up to the
\* length of a page, and without one at that length, whatever is there.
splitAt(p, from) ==
    LET spaces == {s \in p.spaces : from < s /\ s <= from + Target}
    IN IF spaces = {} THEN from + Target ELSE Max(spaces)

\* The paragraph is cut until the rest fits a page.  The white space on both
\* sides of a cut is trimmed.
splitLongParagraph(i, p) ==
    LET remaining[from \in 1..p.length] ==
          IF p.length - from < Target THEN <<Part(i, from, p.length)>>
          ELSE LET at == splitAt(p, from)
               IN <<Part(i, from, Max({c \in Ink(p) : c < at}))>>
                    \o remaining[Min({c \in Ink(p) : c >= at})]
    IN remaining[1]

NothingMade == [pages |-> <<>>, current |-> <<>>]

\* The page under way is closed when the next paragraph does not fit; the
\* fragments of a paragraph that fits no page are pages of their own.
AddParagraph(acc, i, p) ==
    LET full == /\ acc.current # <<>>
                /\ PageLength(acc.current) + p.length + 2 > Target
        before == IF full THEN [pages |-> Append(acc.pages, acc.current), current |-> <<>>]
                  ELSE acc
        fragments == splitLongParagraph(i, p)
    IN IF p.length > Target
       THEN [pages |-> before.pages \o [k \in 1..Len(fragments) |-> <<fragments[k]>>],
             current |-> <<>>]
       ELSE [pages |-> before.pages, current |-> Append(before.current, Part(i, 1, p.length))]

ClosedPagesOnly(acc) == acc.pages

Closed(acc) == IF acc.current = <<>> THEN acc.pages ELSE Append(acc.pages, acc.current)

TextPages(paragraphs) ==
    LET made[i \in 0..Len(paragraphs)] ==
          IF i = 0 THEN NothingMade ELSE AddParagraph(made[i - 1], i, paragraphs[i])
    IN Closed(made[Len(paragraphs)])

-----------------------------------------------------------------------------
\* HTML: what is left of it after sanitizing, as blocks.  A block is never
\* split; the one that does not fit goes to the next page.
AddBlock(acc, block) ==
    LET length == Sum(acc.current)
    IN IF length > 0 /\ length + 1 + block > Target
       THEN [pages |-> Append(acc.pages, acc.current), current |-> <<block>>]
       ELSE [pages |-> acc.pages, current |-> Append(acc.current, block)]

WithText(blocks) == At(blocks, {i \in 1..Len(blocks) : blocks[i] > 0})

HtmlPages(blocks) ==
    LET shown == WithText(blocks)
        made[i \in 0..Len(shown)] ==
          IF i = 0 THEN NothingMade ELSE AddBlock(made[i - 1], shown[i])
    IN Closed(made[Len(shown)])

-----------------------------------------------------------------------------
\* EPUB: the package lists the items of the book and their order.  An item is
\* [id, href, html], a reference [idref, linear]; href is the entry of the
\* archive it leads to, or "outside".
BuildManifest(items) ==
    [id \in {items[i].id : i \in 1..Len(items)} |->
        LET last == CHOOSE i \in 1..Len(items) :
                        /\ items[i].id = id
                        /\ \A j \in i + 1 .. Len(items) : items[j].id # id
        IN items[last]]

\* The references that are part of the reading and lead to a document.
Reading(package) ==
    LET manifest == BuildManifest(package.items)
    IN {i \in 1..Len(package.spine) :
          /\ package.spine[i].linear
          /\ manifest[package.spine[i].idref].html}
Chapters(package) ==
    LET manifest == BuildManifest(package.items)
        html == At(package.spine, Reading(package))
    IN [i \in 1..Len(html) |-> manifest[html[i].idref].href]

\* A path that climbs out of the archive, or is not one of an archive.
ResolvesInside(item) == item.href # "outside"

\* One reference that leads nowhere or out of the archive spoils the book.
ReadingOrderIsValid(package) ==
    LET manifest == BuildManifest(package.items)
    IN /\ \A i \in 1..Len(package.spine) :
             LET ref == package.spine[i]
             IN ref.linear => /\ ref.idref \in DOMAIN manifest
                              /\ manifest[ref.idref].html
                                   => ResolvesInside(manifest[ref.idref])
       /\ Chapters(package) # <<>>

-----------------------------------------------------------------------------
\* How a request ends.
Refused(g) == [g EXCEPT !.at = "refused"]

\* A page of the pages a document was cut into.
PageOf(g, pages) ==
    IF g.number \in 1..Len(pages)
    THEN [g EXCEPT !.at = "answered", !.content = pages[g.number],
                   !.next = g.number < Len(pages)]
    ELSE Refused(g)

TextPage(g) == PageOf(g, TextPages(g.doc.text))
HtmlPage(g) == PageOf(g, HtmlPages(g.doc.text))

ContentInit == get = NoPage /\ open = {}

\* The link was stored with the book; it may be one that no URL is made of.
GetPage ==
    /\ get.at = "idle"
    /\ \E doc \in Documents, number \in 0..LastPage :
         get' = [at |-> "check", doc |-> doc, number |-> number, redirects |-> 0,
                 bytes |-> 0, part |-> "none", entry |-> "", content |-> <<>>,
                 next |-> FALSE]
    /\ UNCHANGED open

\* Before every request, also of a redirect: the URL, its protocol, the
\* absence of credentials, the addresses of its host.
EnsurePublicDestination ==
    /\ get.at = "check"
    /\ \E allowed \in BOOLEAN :
         get' = IF allowed THEN [get EXCEPT !.at = "send"] ELSE Refused(get)
    /\ UNCHANGED open

RedirectedUncounted(g) == [g EXCEPT !.at = "check"]

Redirected(g) ==
    IF g.redirects = MaxRedirects THEN Refused(g)
    ELSE [g EXCEPT !.at = "check", !.redirects = g.redirects + 1]

\* A redirect (with a location or without), a status that is not OK, no
\* answer: each leaves no body open.
FetchElsewhere ==
    /\ get.at = "send"
    /\ \/ get' = Redirected(get)
       \/ get' = Refused(get)
    /\ UNCHANGED open

\* The length may be declared; one that is too large is not read.
FetchContent ==
    /\ get.at = "send"
    /\ \E declared \in BOOLEAN :
         IF declared /\ get.doc.bytes > MaxBytes
         THEN get' = Refused(get) /\ UNCHANGED open
         ELSE get' = [get EXCEPT !.at = "body"] /\ open' = open \cup {"body"}

\* A chunk, the end, or a connection that breaks or runs out of time.
ReadLimitedBody ==
    /\ get.at = "body"
    /\ \/ /\ get.bytes < get.doc.bytes
          /\ IF get.bytes + 1 > MaxBytes
             THEN get' = Refused(get) /\ open' = open \ {"body"}
             ELSE get' = [get EXCEPT !.bytes = @ + 1] /\ UNCHANGED open
       \/ /\ get.bytes = get.doc.bytes
          /\ get' = [get EXCEPT !.at = "process"]
          /\ open' = open \ {"body"}
       \/ get' = Refused(get) /\ open' = open \ {"body"}

-----------------------------------------------------------------------------
\* The processors that work in one go.  What is left of some HTML may be
\* nothing.
Process ==
    /\ get.at = "process"
    /\ get.doc.format \in {"TEXT", "HTML", "EXTERNAL_PAGE", "UNSUPPORTED"}
    /\ get' = CASE get.doc.format = "TEXT" -> TextPage(get)
                [] get.doc.format = "HTML" -> HtmlPage(get)
                [] OTHER -> Refused(get)
    /\ UNCHANGED open

\* readEntry opens the archive anew for each of the three entries it needs,
\* looks for the entry, and reads it by the events of a stream.
Wants(g, part, entry) == [g EXCEPT !.at = "zip", !.part = part, !.entry = entry]

ProcessEpub ==
    /\ get.at = "process" /\ get.doc.format = "EPUB"
    /\ get' = IF get.number < 1 THEN Refused(get) ELSE Wants(get, "container", "container")
    /\ UNCHANGED open

OpenArchive ==
    /\ get.at = "zip"
    /\ \/ get' = [get EXCEPT !.at = "find"] /\ open' = open \cup {"archive"}
       \/ get' = Refused(get) /\ UNCHANGED open

\* The entry is there and not too large, and its stream opens; or it is
\* refused, and readEntry closes the archive.
FindEntry ==
    /\ get.at = "find"
    /\ \/ /\ get.entry \in get.doc.entries
          /\ get' = [get EXCEPT !.at = "stream"]
          /\ open' = open \cup {"stream"}
       \/ get' = Refused(get) /\ open' = open \ {"archive"}

\* What the entry that was read leads to.
AfterEntry(g) ==
    LET package == g.doc.text
    IN CASE g.part = "container" -> Wants(g, "package", "package")
         [] g.part = "package" ->
              IF ReadingOrderIsValid(package) /\ g.number <= Len(Chapters(package))
              THEN Wants(g, "chapter", Chapters(package)[g.number]) ELSE Refused(g)
         [] OTHER -> [g EXCEPT !.at = "answered", !.content = g.entry,
                               !.next = g.number < Len(Chapters(package))]

\* The end of the stream; an error, a size that was not the declared one, or
\* a chapter of which sanitizing leaves nothing.
ReadEntry ==
    /\ get.at = "stream"
    /\ \/ get' = AfterEntry(get)
       \/ get' = Refused(get)
    /\ open' = open \ {"stream", "archive"}

-----------------------------------------------------------------------------
\* PDF: the document, its page and a canvas are opened one after the other and
\* given back in the reverse order, whatever happens in between.
LoadPdf ==
    /\ get.at = "process" /\ get.doc.format = "PDF"
    /\ IF get.number < 1 THEN get' = Refused(get) /\ UNCHANGED open
       ELSE get' = [get EXCEPT !.at = "pdf"] /\ open' = open \cup {"document"}

ValidCanvasSize(size) == 0 < size /\ size <= MaxDimension

GetPdfPage ==
    /\ get.at = "pdf"
    /\ \/ /\ get.number <= Len(get.doc.text)
          /\ get' = [get EXCEPT !.at = "page"]
          /\ open' = open \cup {"page"}
       \/ get' = Refused(get) /\ open' = open \ {"document"}

\* The factory of canvases may be none that is known, or fail.
CreateCanvas ==
    /\ get.at = "page"
    /\ \/ /\ ValidCanvasSize(get.doc.text[get.number])
          /\ get' = [get EXCEPT !.at = "render"]
          /\ open' = open \cup {"canvas"}
       \/ get' = Refused(get) /\ open' = open \ {"page", "document"}

RenderPdfOrLeave ==
    /\ get.at = "render"
    /\ \/ /\ get' = [get EXCEPT !.at = "answered", !.content = get.doc.text[get.number],
                                !.next = get.number < Len(get.doc.text)]
          /\ open' = open \ {"canvas", "page", "document"}
       \/ get' = Refused(get) /\ open' = open \ {"page", "document"}

RenderPdf ==
    /\ get.at = "render"
    /\ \/ get' = [get EXCEPT !.at = "answered", !.content = get.doc.text[get.number],
                             !.next = get.number < Len(get.doc.text)]
       \/ get' = Refused(get)
    /\ open' = open \ {"canvas", "page", "document"}

PageStep ==
    \/ EnsurePublicDestination \/ FetchElsewhere \/ FetchContent \/ ReadLimitedBody
    \/ Process \/ ProcessEpub \/ OpenArchive \/ FindEntry \/ ReadEntry
    \/ LoadPdf \/ GetPdfPage \/ CreateCanvas \/ RenderPdf

\* The answer was sent; the next page is a new request.
NextPage ==
    /\ get.at \in {"answered", "refused"}
    /\ get' = NoPage
    /\ UNCHANGED open

ContentNext == GetPage \/ PageStep \/ NextPage
ContentFairness == WF_contentVars(PageStep)

-----------------------------------------------------------------------------
\* What is between two of the characters ' ', if it is no longer than a page.
ShortRuns(p) ==
    {r \in (1..p.length) \X (1..p.length) :
        /\ r[1] <= r[2] /\ r[2] - r[1] < Target
        /\ r[1] = 1 \/ r[1] - 1 \in p.spaces
        /\ r[2] = p.length \/ r[2] + 1 \in p.spaces
        /\ (r[1]..r[2]) \cap p.spaces = {}}

\* What is not cut: a character, and what is between two spaces.
Uncut(p) == {{c} : c \in Ink(p)} \cup {(r[1]..r[2]) \cap Ink(p) : r \in ShortRuns(p)}

InOrder(parts) ==
    \A j, k \in 1..Len(parts) : j < k =>
        \/ parts[j].paragraph < parts[k].paragraph
        \/ parts[j].paragraph = parts[k].paragraph /\ parts[j].to < parts[k].from

\* The pages of a text hold its characters, all of them, once and in order;
\* what is between two spaces is whole on one of them unless it is longer than
\* a page; and no page is empty or longer than the target.
TextIsWhole(paragraphs) ==
    LET pages == TextPages(paragraphs)
        parts == FlattenSeq(pages)
    IN /\ InOrder(parts)
       /\ \A i \in 1..Len(paragraphs) : \A chars \in Uncut(paragraphs[i]) :
            \E k \in 1..Len(parts) : /\ parts[k].paragraph = i
                                     /\ chars \subseteq parts[k].from..parts[k].to
       /\ \A j \in 1..Len(pages) : pages[j] # <<>> /\ PageLength(pages[j]) <= Target

\* The pages of some HTML hold its blocks that have text; only a block that
\* is longer by itself makes a page longer than the target.
HtmlIsWhole(blocks) ==
    LET pages == HtmlPages(blocks)
    IN /\ FlattenSeq(pages) = WithText(blocks)
       /\ \A i \in 1..Len(pages) :
            pages[i] # <<>> /\ (Len(pages[i]) > 1 => Sum(pages[i]) < Target)

\* A chapter answered is in the spine, has as many chapters before it as its
\* number says, and there is a next one exactly if the answer says so.
ChapterIsInPlace(g) ==
    LET package == g.doc.text
        Href(i) == BuildManifest(package.items)[package.spine[i].idref].href
    IN \E i \in Reading(package) :
         /\ Href(i) = g.content
         /\ Cardinality(Reading(package) \cap 1..i - 1) = g.number - 1
         /\ g.next <=> Cardinality(Reading(package)) > g.number

\* What is answered is the page asked for, of pages that are the document.
IsPageOfDocument(g) ==
    CASE g.doc.format = "TEXT" ->
           /\ TextIsWhole(g.doc.text)
           /\ g.content = TextPages(g.doc.text)[g.number]
           /\ g.next <=> g.number < Len(TextPages(g.doc.text))
      [] g.doc.format = "HTML" ->
           /\ HtmlIsWhole(g.doc.text)
           /\ g.content = HtmlPages(g.doc.text)[g.number]
           /\ g.next <=> g.number < Len(HtmlPages(g.doc.text))
      [] g.doc.format = "EPUB" -> ChapterIsInPlace(g)
      [] g.doc.format = "PDF" ->
           /\ g.content = g.doc.text[g.number]
           /\ g.next <=> g.number < Len(g.doc.text)
      [] OTHER -> FALSE

\* Whatever the redirects, chunks and failures on the way, a page is answered
\* only from the whole of a document that is not too large, and it is the page
\* asked for: one after the other, up to the one that says that there is no
\* next, the pages are the document, with nothing left out or repeated.
PageIsOfDocument ==
    get.at = "answered" =>
        /\ get.bytes = get.doc.bytes /\ get.bytes <= MaxBytes
        /\ IsPageOfDocument(get)

\* Whichever of the steps fails, the request leaves no body, archive, stream,
\* document, page or canvas open, and the body is closed before the content
\* is processed.
NothingLeftOpen ==
    /\ get.at \in {"idle", "answered", "refused"} => open = {}
    /\ "body" \in open <=> get.at = "body"

\* A request for a page ends, also when every destination redirects to another.
EveryPageEnds == get.at = "check" ~> get.at \in {"answered", "refused"}
=============================================================================
