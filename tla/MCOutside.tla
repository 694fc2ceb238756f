------------------------------ MODULE MCOutside ------------------------------
EXTENDS Outside

MCAsks ==
    {<<"r1", "one", p>> : p \in Provider}
    \cup {<<"r1", "all", None>>, <<"r1", "search", None>>, <<"r1", "find", "OPENALEX">>,
          <<"r1", "find", "GUTENDEX">>, <<"r1", "find", "STANDARD_EBOOKS">>}
    \cup {<<"r2", "find", "ARXIV">>}

Offer(kind) == [kind |-> kind, usable |-> TRUE]
Broken(kind) == [kind |-> kind, usable |-> FALSE]
Author(name, inverted) == [name |-> name, inverted |-> inverted]
Language(tag, region) == [tag |-> tag, region |-> region]
Subject(curated, codes) == [curated |-> curated, codes |-> codes, rules |-> codes, arts |-> FALSE]

Entry(offers) ==
    [id |-> TRUE, title |-> TRUE, offers |-> offers,
     authors |-> <<Author("Bram Stoker", TRUE), Author("Bram Stoker", FALSE), Author(None, FALSE),
                   Author("Ana", FALSE), Author("Eva", FALSE)>>,
     languages |-> <<Language("en", "GB"), Language("en", None), Language("?", None)>>,
     subjects |-> <<Subject(FALSE, <<"history">>), Subject(TRUE, <<"horror", "fiction">>),
                    Subject(TRUE, <<"fiction", "drama">>)>>]
Nameless == [Entry(<<>>) EXCEPT !.title = FALSE]

MCItemsOf ==
    [GUTENDEX |-> {Entry(<<Offer("image"), Broken("html"), Offer("plain utf8"), Offer("epub")>>),
                   Entry(<<Offer("rtf"), Offer("plain other")>>), Nameless},
     STANDARD_EBOOKS |-> {Entry(<<Offer("page"), Broken("epub"), Offer("html")>>),
                          Entry(<<Offer("page")>>), Nameless},
     ARXIV |-> {Entry(<<Offer("page"), Offer("pdf")>>), Entry(<<Broken("pdf")>>), Nameless},
     OPENALEX |-> {Entry(<<Broken("pdf"), Offer("page"), Offer("pdf")>>),
                   Entry(<<Offer("page")>>)}]

-----------------------------------------------------------------------------
Document(format, text) ==
    [format |-> format, bytes |-> 1, entries |-> {}, text |-> text]

\* Every paragraph of up to six characters, and texts of several.
Paragraph(n, spaces, breaks) == [length |-> n, spaces |-> spaces, breaks |-> breaks]
ParagraphsOf(n) ==
    UNION {{Paragraph(n, s, b) : b \in SUBSET ((2..n - 1) \ s)} : s \in SUBSET (2..n - 1)}
PlainTexts ==
    {<<p>> : p \in UNION {ParagraphsOf(n) : n \in 1..6}}
    \cup BoundedSeq({Paragraph(1, {}, {}), Paragraph(3, {2}, {}), Paragraph(6, {}, {3}),
                    Paragraph(14, {4}, {3, 9, 10})}, 3)
HtmlBlocks == BoundedSeq({0, 1, 2, 4, 6}, 3)
PageSizes == BoundedSeq({0, 1, 3}, 2)

Chapter(id, href) == [id |-> id, href |-> href, html |-> TRUE]
Picture(id) == [id |-> id, href |-> "cover", html |-> FALSE]
To(id) == [idref |-> id, linear |-> TRUE]
Aside(id) == [idref |-> id, linear |-> FALSE]
Items == <<Picture("p"), Chapter("a", "one"), Chapter("b", "two"), Chapter("c", "outside"),
           Chapter("a", "three"), Chapter("d", "lost")>>
Spines == BoundedSeq({To("p"), To("a"), To("b"), Aside("b"), Aside("c"), Aside("z")}, 3)
          \cup {<<To("a"), To("c")>>, <<To("a"), To("z")>>, <<To("d"), To("a")>>}
Epub(spine) ==
    [Document("EPUB", [items |-> Items, spine |-> spine])
        EXCEPT !.entries = {"container", "package", "one", "two", "three"}]

MCDocuments ==
    {Document("TEXT", t) : t \in PlainTexts} \cup {Document("HTML", t) : t \in HtmlBlocks}
    \cup {Document("PDF", t) : t \in PageSizes} \cup {Epub(s) : s \in Spines}
    \cup {Document(f, <<>>) : f \in {"EXTERNAL_PAGE", "UNSUPPORTED"}}
    \cup {[Document("TEXT", <<Paragraph(1, {}, {})>>) EXCEPT !.bytes = n] : n \in {2, 3}}

=============================================================================
