---------------------------- MODULE ExternalBooks ----------------------------
(***************************************************************************)
(* What the four catalogue providers make of what their external services  *)
(* answer: an item becomes a book in the shape of the tables, with one     *)
(* link to its content and the format that the link was published with, or *)
(* it is dropped.                                                          *)
(*                                                                         *)
(* An item is abstracted to what decides: whether it has an identifier and *)
(* a title, the links it offers (their kind, and whether the text is a URL *)
(* the column takes), and its raw authors, languages and subjects.         *)
(***************************************************************************)
EXTENDS Lists

CONSTANTS
    LanguageTag,    \* two or three letters
    MaxAuthors,     \* BOOK_MAX_AUTHORS
    MaxCategories,  \* BOOK_MAX_CATEGORIES
    None

ASSUME ExternalBooksAssumption == MaxAuthors \in Nat /\ MaxCategories \in Nat

\* What an external service may answer as one of its items.
Item ==
    [id : BOOLEAN, title : BOOLEAN,
     offers : Seq([kind : STRING, usable : BOOLEAN]),
     authors : Seq([name : {None} \cup STRING, inverted : BOOLEAN]),
     languages : Seq([tag : STRING, region : {None} \cup STRING]),
     subjects : Seq([curated : BOOLEAN, codes : Seq(STRING), rules : Seq(STRING),
                     arts : BOOLEAN])]

Readable == {"PDF", "EPUB", "HTML", "TEXT"}
Format == Readable \cup {"EXTERNAL_PAGE", "UNSUPPORTED"}

NoContent == [ref |-> None, format |-> None]
Missing == [kind |-> None, usable |-> FALSE]

\* Link and format travel together: a URL the column does not take leaves
\* neither.
ToBookContent(offer, format) ==
    IF offer.usable THEN [ref |-> offer.kind, format |-> format] ELSE NoContent

IsReadableContent(content) == content.ref # None /\ content.format \in Readable

\* The first link of one of some kinds; later ones of them are not tried.
Find(offers, kinds) ==
    LET found == {i \in 1..Len(offers) : offers[i].kind \in kinds}
    IN IF found = {} THEN Missing ELSE offers[Min(found)]

\* The first of some choices that has a link, or else the last of them.
FirstContent(choices) ==
    LET linked == {i \in 1..Len(choices) : choices[i].ref # None}
    IN IF linked = {} THEN choices[Len(choices)] ELSE choices[Min(linked)]

-----------------------------------------------------------------------------
\* Authors, languages and categories, each without repetitions.  The key of
\* book_languages has the language; that of book_authors has the author's
\* place, so only this keeps a name from being there twice.

\* A name written 'surname, given' and the same name in natural order are one
\* author.
FormatPersonName(raw) == raw.name

AuthorsCutFirst(raws) ==
    LET named == At(raws, {i \in 1..Len(raws) : raws[i].name # None})
    IN Distinct(AtMost(MaxAuthors, [i \in 1..Len(named) |-> FormatPersonName(named[i])]))

NormalizeAuthorNames(raws) ==
    LET named == At(raws, {i \in 1..Len(raws) : raws[i].name # None})
    IN AtMost(MaxAuthors, Distinct([i \in 1..Len(named) |-> FormatPersonName(named[i])]))

NormalizeLanguageCode(raw) == IF raw.tag \in LanguageTag THEN raw.tag ELSE None

NormalizeLanguageCodes(raws) ==
    LET known == At(raws, {i \in 1..Len(raws) : NormalizeLanguageCode(raws[i]) # None})
    IN Distinct([i \in 1..Len(known) |-> NormalizeLanguageCode(known[i])])

CollectCategoryCodes(codes) == AtMost(MaxCategories, Distinct(codes))
Curated(subjects) == At(subjects, {i \in 1..Len(subjects) : subjects[i].curated})
Codes(subjects) == FlattenSeq([i \in 1..Len(subjects) |-> subjects[i].codes])
RuleCodes(subjects) == FlattenSeq([i \in 1..Len(subjects) |-> subjects[i].rules])

\* What the curated collections translate to; only without any of them, what
\* the rules find in the subjects and the collections.
MapGutendexCategories(subjects) ==
    LET curated == Codes(Curated(subjects))
    IN CollectCategoryCodes(IF curated # <<>> THEN curated ELSE RuleCodes(subjects))

MapStandardEbooksCategories(subjects) == CollectCategoryCodes(Codes(Curated(subjects)))

\* The primary category comes first.
MapArxivCategories(subjects) ==
    CollectCategoryCodes(Codes(Curated(subjects) \o subjects))

\* The field of the main topic; that of arts and humanities by its subfield.
MapOpenAlexCategories(subjects) ==
    IF subjects = <<>> THEN <<>>
    ELSE CollectCategoryCodes(IF Head(subjects).arts /\ Head(subjects).codes = <<>>
                              THEN <<"arts">> ELSE Head(subjects).codes)

-----------------------------------------------------------------------------
FormatFromMimeType(kind) ==
    CASE kind \in {"html", "html other"} -> "HTML"
      [] kind \in {"plain utf8", "plain", "plain other"} -> "TEXT"
      [] OTHER -> "UNSUPPORTED"

GutendexContent(offers) ==
    FirstContent(<<ToBookContent(Find(offers, {"html"}), "HTML"),
                   ToBookContent(Find(offers, {"epub"}), "EPUB"),
                   ToBookContent(Find(offers, {"plain utf8"}), "TEXT"),
                   ToBookContent(Find(offers, {"plain"}), "TEXT"),
                   LET fallback == Find(offers, {"html", "plain utf8", "plain", "html other",
                                                 "plain other", "rtf"})
                   IN ToBookContent(fallback, FormatFromMimeType(fallback.kind))>>)

StandardEbooksContent(offers) ==
    FirstContent(<<ToBookContent(Find(offers, {"epub"}), "EPUB"),
                   ToBookContent(Find(offers, {"html"}), "HTML"),
                   ToBookContent(Find(offers, {"page"}), "EXTERNAL_PAGE")>>)

\* An article without a PDF has its abstract page, whose address is known.
ArxivContent(offers) ==
    FirstContent(<<ToBookContent(Find(offers, {"pdf"}), "PDF"),
                   [ref |-> "page", format |-> "EXTERNAL_PAGE"]>>)

\* The PDF of the best location, of the primary one, of any; else a page.
\* One whose link cannot be used is passed over.
OpenAlexContent(offers) ==
    LET usable == At(offers, {i \in 1..Len(offers) : offers[i].usable})
    IN FirstContent(<<ToBookContent(Find(usable, {"pdf"}), "PDF"),
                      ToBookContent(Find(usable, {"page"}), "EXTERNAL_PAGE")>>)

-----------------------------------------------------------------------------
Named(item) == item.id /\ item.title

Book(provider, content, item, languages, categories) ==
    [provider |-> provider, ref |-> content.ref, format |-> content.format,
     authors |-> NormalizeAuthorNames(item.authors),
     languages |-> languages, categories |-> categories]

GutendexBook(item) ==
    IF ~ Named(item) THEN None
    ELSE Book("GUTENDEX", GutendexContent(item.offers), item,
              NormalizeLanguageCodes(item.languages), MapGutendexCategories(item.subjects))

StandardEbooksBook(item) ==
    IF ~ Named(item) THEN None
    ELSE Book("STANDARD_EBOOKS", StandardEbooksContent(item.offers), item,
              NormalizeLanguageCodes(item.languages),
              MapStandardEbooksCategories(item.subjects))

\* arXiv does not tell the language.
ArxivBook(item) ==
    IF ~ Named(item) THEN None
    ELSE Book("ARXIV", ArxivContent(item.offers), item, <<"en">>,
              MapArxivCategories(item.subjects))

OpenAlexBook(item) ==
    IF ~ Named(item) THEN None
    ELSE Book("OPENALEX", OpenAlexContent(item.offers), item,
              NormalizeLanguageCodes(item.languages), MapOpenAlexCategories(item.subjects))
=============================================================================
