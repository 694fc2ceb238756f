---------------------------- MODULE CatalogsProofs ----------------------------
(***************************************************************************)
(* The catalogues, for any result sets, sizes and number of requests: the  *)
(* books that are about to be written fit the tables, a load that is       *)
(* answered is complete, and arXiv has its interval.                       *)
(***************************************************************************)
EXTENDS Outside, ListsProofs

-----------------------------------------------------------------------------
(* The link that is chosen, and its format.                                *)
Offer == [kind : STRING, usable : BOOLEAN]

\* The first link of some kinds is one of them, if there is one.
LEMMA FindOne ==
  ASSUME NEW offers \in Seq(Offer), NEW kinds
  PROVE  \/ Find(offers, kinds) = Missing
         \/ Find(offers, kinds) \in Offer /\ Find(offers, kinds).kind \in kinds
<1> DEFINE found == {i \in 1..Len(offers) : offers[i].kind \in kinds}
<1>1. CASE found = {}
  BY <1>1 DEF Find
<1>2. CASE found # {}
  <2>1. Find(offers, kinds) = offers[Min(found)]
    BY <1>2 DEF Find
  <2>2. Min(found) \in found
    <3>1. found \in SUBSET Nat
      OBVIOUS
    <3> HIDE DEF found
    <3> QED
      BY <1>2, <3>1, MinOf
  <2>3. offers[Min(found)] \in Offer /\ offers[Min(found)].kind \in kinds
    BY <2>2
  <2> QED
    BY <2>1, <2>3
<1> QED
  BY <1>1, <1>2

\* Link and format travel together.
LEMMA ContentOfKind ==
  ASSUME NEW offers \in Seq(Offer), NEW kinds, NEW format,
         IsReadableContent(ToBookContent(Find(offers, kinds), format))
  PROVE  /\ ToBookContent(Find(offers, kinds), format).ref \in kinds
         /\ ToBookContent(Find(offers, kinds), format).ref = Find(offers, kinds).kind
         /\ ToBookContent(Find(offers, kinds), format).format = format
         /\ format \in Readable
<1> DEFINE offer == Find(offers, kinds)
<1>1. offer = Missing \/ offer.kind \in kinds
  BY FindOne
<1> HIDE DEF offer
<1>2. ToBookContent(offer, format)
        = IF offer.usable THEN [ref |-> offer.kind, format |-> format] ELSE NoContent
  BY DEF ToBookContent
<1>3. IsReadableContent(ToBookContent(offer, format))
  BY DEF offer
<1>4. NoContent.ref = None /\ ~ Missing.usable
  BY DEF NoContent, Missing
<1>5. offer.usable
  BY <1>2, <1>3, <1>4 DEF IsReadableContent
<1>6. offer.kind \in kinds
  BY <1>1, <1>4, <1>5
<1> QED
  BY <1>2, <1>3, <1>5, <1>6 DEF IsReadableContent, offer

\* What is chosen is one of the choices.
LEMMA FirstIsOne ==
  ASSUME NEW C, NEW choices \in Seq(C), choices # <<>>
  PROVE  \E i \in 1..Len(choices) : FirstContent(choices) = choices[i]
<1> DEFINE linked == {i \in 1..Len(choices) : choices[i].ref # None}
<1>1. CASE linked = {}
  BY <1>1 DEF FirstContent
<1>2. CASE linked # {}
  <2>1. FirstContent(choices) = choices[Min(linked)]
    BY <1>2 DEF FirstContent
  <2>2. Min(linked) \in linked
    <3>1. linked \in SUBSET Nat
      OBVIOUS
    <3> HIDE DEF linked
    <3> QED
      BY <1>2, <3>1, MinOf
  <2> QED
    BY <2>1, <2>2
<1> QED
  BY <1>1, <1>2

\* A link that can be read here is of a kind that is, with its format.
Suits(content) ==
    IsReadableContent(content) =>
        content.ref \in Published /\ content.format = FormatOf(content.ref)

\* A link of kinds that are read in one format.
LEMMA KindSuits ==
  ASSUME NEW offers \in Seq(Offer), NEW kinds, NEW format,
         \A kind \in kinds : kind \in Published /\ FormatOf(kind) = format
  PROVE  Suits(ToBookContent(Find(offers, kinds), format))
BY ContentOfKind DEF Suits

\* If every choice suits, so does the one that is taken.
LEMMA FirstSuits ==
  ASSUME NEW C, NEW choices \in Seq(C), choices # <<>>,
         \A i \in 1..Len(choices) : Suits(choices[i])
  PROVE  Suits(FirstContent(choices))
BY FirstIsOne

LEMMA FormatsOfKinds ==
  /\ FormatOf("pdf") = "PDF" /\ FormatOf("epub") = "EPUB"
  /\ FormatOf("html") = "HTML" /\ FormatOf("html other") = "HTML"
  /\ FormatOf("plain utf8") = "TEXT" /\ FormatOf("plain") = "TEXT"
  /\ FormatOf("plain other") = "TEXT"
  /\ {"pdf", "epub", "html", "html other", "plain utf8", "plain", "plain other"} = Published
BY DEF FormatOf, Published

\* Gutendex: the fallback takes the format of the link it found.
LEMMA GutendexSuits ==
  ASSUME NEW offers \in Seq(Offer)
  PROVE  Suits(GutendexContent(offers))
<1> DEFINE kinds == {"html", "plain utf8", "plain", "html other", "plain other", "rtf"}
           fallback == Find(offers, kinds)
           a == ToBookContent(Find(offers, {"html"}), "HTML")
           b == ToBookContent(Find(offers, {"epub"}), "EPUB")
           c == ToBookContent(Find(offers, {"plain utf8"}), "TEXT")
           d == ToBookContent(Find(offers, {"plain"}), "TEXT")
           e == ToBookContent(fallback, FormatFromMimeType(fallback.kind))
<1>1. Suits(a)
  BY KindSuits, FormatsOfKinds
<1>2. Suits(b)
  BY KindSuits, FormatsOfKinds
<1>3. Suits(c)
  BY KindSuits, FormatsOfKinds
<1>4. Suits(d)
  BY KindSuits, FormatsOfKinds
<1>5. Suits(e)
  <2> SUFFICES ASSUME IsReadableContent(e)
               PROVE  e.ref \in Published /\ e.format = FormatOf(e.ref)
    BY DEF Suits
  <2> DEFINE format == FormatFromMimeType(fallback.kind)
  <2> HIDE DEF kinds, format
  <2>1. e.ref \in kinds /\ e.ref = fallback.kind /\ e.format = format /\ format \in Readable
    <3>1. e = ToBookContent(Find(offers, kinds), format) /\ IsReadableContent(e)
      BY DEF format
    <3> HIDE DEF e
    <3> QED
      BY <3>1, ContentOfKind
  <2> HIDE DEF e, fallback
  <2>2. /\ e.ref \in {"html", "html other"} => e.format = "HTML"
        /\ e.ref \in {"plain utf8", "plain", "plain other"} => e.format = "TEXT"
        /\ e.ref = "rtf" => e.format = "UNSUPPORTED"
    BY <2>1 DEF FormatFromMimeType, format
  <2>3. e.ref # "rtf"
    BY <2>1, <2>2 DEF Readable
  <2> QED
    BY <2>1, <2>2, <2>3, FormatsOfKinds DEF kinds
<1>6. GutendexContent(offers) = FirstContent(<<a, b, c, d, e>>)
  BY DEF GutendexContent
<1> HIDE DEF a, b, c, d, e
<1>7. Suits(FirstContent(<<a, b, c, d, e>>))
  <2> DEFINE s == <<a, b, c, d, e>>
  <2>1. s \in Seq({a, b, c, d, e}) /\ Len(s) = 5 /\ s # <<>>
    OBVIOUS
  <2>2. \A i \in 1..5 : Suits(s[i])
    BY <1>1, <1>2, <1>3, <1>4, <1>5
  <2> HIDE DEF s
  <2>3. Suits(FirstContent(s))
    BY <2>1, <2>2, FirstSuits
  <2> QED
    BY <2>3 DEF s
<1> QED
  BY <1>6, <1>7

\* Standard Ebooks: its page is of no format that is read here.
LEMMA StandardEbooksSuits ==
  ASSUME NEW offers \in Seq(Offer)
  PROVE  Suits(StandardEbooksContent(offers))
<1> DEFINE a == ToBookContent(Find(offers, {"epub"}), "EPUB")
           b == ToBookContent(Find(offers, {"html"}), "HTML")
           c == ToBookContent(Find(offers, {"page"}), "EXTERNAL_PAGE")
<1>1. Suits(a)
  BY KindSuits, FormatsOfKinds
<1>2. Suits(b)
  BY KindSuits, FormatsOfKinds
<1>3. Suits(c)
  BY ContentOfKind DEF Suits, Readable
<1>4. StandardEbooksContent(offers) = FirstContent(<<a, b, c>>)
  BY DEF StandardEbooksContent
<1> HIDE DEF a, b, c
<1>5. Suits(FirstContent(<<a, b, c>>))
  <2> DEFINE s == <<a, b, c>>
  <2>1. s \in Seq({a, b, c}) /\ Len(s) = 3 /\ s # <<>>
    OBVIOUS
  <2>2. \A i \in 1..3 : Suits(s[i])
    BY <1>1, <1>2, <1>3
  <2> HIDE DEF s
  <2>3. Suits(FirstContent(s))
    BY <2>1, <2>2, FirstSuits
  <2> QED
    BY <2>3 DEF s
<1> QED
  BY <1>4, <1>5

\* Two choices, of which both suit.
LEMMA FirstOfTwo ==
  ASSUME NEW a, NEW b, Suits(a), Suits(b)
  PROVE  Suits(FirstContent(<<a, b>>))
<1> DEFINE s == <<a, b>>
<1>1. s \in Seq({a, b}) /\ Len(s) = 2 /\ s # <<>>
  OBVIOUS
<1>2. \A i \in 1..2 : Suits(s[i])
  OBVIOUS
<1> HIDE DEF s
<1>3. Suits(FirstContent(s))
  BY <1>1, <1>2, FirstSuits
<1> QED
  BY <1>3 DEF s

\* arXiv: the PDF, or its page.
LEMMA ArxivSuits ==
  ASSUME NEW offers \in Seq(Offer)
  PROVE  Suits(ArxivContent(offers))
<1> DEFINE a == ToBookContent(Find(offers, {"pdf"}), "PDF")
           b == [ref |-> "page", format |-> "EXTERNAL_PAGE"]
<1>1. Suits(a)
  BY KindSuits, FormatsOfKinds
<1>2. Suits(b)
  BY DEF Suits, IsReadableContent, Readable
<1>3. ArxivContent(offers) = FirstContent(<<a, b>>)
  BY DEF ArxivContent
<1> HIDE DEF a, b
<1> QED
  BY <1>1, <1>2, <1>3, FirstOfTwo

\* OpenAlex: of the links the column takes.
LEMMA OpenAlexSuits ==
  ASSUME NEW offers \in Seq(Offer)
  PROVE  Suits(OpenAlexContent(offers))
<1> DEFINE usable == At(offers, {i \in 1..Len(offers) : offers[i].usable})
           a == ToBookContent(Find(usable, {"pdf"}), "PDF")
           b == ToBookContent(Find(usable, {"page"}), "EXTERNAL_PAGE")
<1>1. usable \in Seq(Offer)
  BY AtElements
<1>2. OpenAlexContent(offers) = FirstContent(<<a, b>>)
  BY DEF OpenAlexContent
<1> HIDE DEF usable
<1>3. Suits(a)
  BY <1>1, KindSuits, FormatsOfKinds
<1>4. Suits(b)
  BY <1>1, ContentOfKind DEF Suits, Readable
<1> HIDE DEF a, b
<1> QED
  BY <1>2, <1>3, <1>4, FirstOfTwo

-----------------------------------------------------------------------------
(* Authors, languages and categories.                                      *)

LEMMA NoneTwiceOnce ==
  ASSUME NEW S, NEW s \in Seq(S), NoneTwice(s)
  PROVE  Once(s)
BY OnceCardinality DEF Once

\* Names are without repetition and not too many, and none is left out but
\* for that.
LEMMA AuthorsFit ==
  ASSUME NEW item \in Item
  PROVE  LET authors == NormalizeAuthorNames(item.authors)
         IN /\ Once(authors) /\ Len(authors) <= MaxAuthors
            /\ ToSet(authors) \subseteq Names(item)
            /\ ToSet(authors) # Names(item) => Len(authors) = MaxAuthors
<1> DEFINE Author == [name : {None} \cup STRING, inverted : BOOLEAN]
           raws == item.authors
           named == At(raws, {i \in 1..Len(raws) : raws[i].name # None})
           names == [i \in 1..Len(named) |-> FormatPersonName(named[i])]
<1>1. raws \in Seq(Author)
  BY DEF Item
<1>2. /\ named \in Seq(Author)
      /\ ToSet(named) = {raws[i] : i \in {j \in 1..Len(raws) : raws[j].name # None}}
  <2> DEFINE K == {i \in 1..Len(raws) : raws[i].name # None}
  <2>1. K \cap 1..Len(raws) = K
    OBVIOUS
  <2> HIDE DEF Author, raws, K
  <2>2. At(raws, K) \in Seq(Author) /\ ToSet(At(raws, K)) = {raws[i] : i \in K \cap 1..Len(raws)}
    BY <1>1, AtElements, AtSet
  <2> QED
    BY <2>1, <2>2 DEF K
<1>3. NormalizeAuthorNames(raws) = AtMost(MaxAuthors, Distinct(names))
  BY DEF NormalizeAuthorNames
<1> HIDE DEF named, raws
<1>4. names \in Seq({None} \cup STRING)
  <2>1. \A x \in Author : FormatPersonName(x) \in {None} \cup STRING
    BY DEF FormatPersonName
  <2> HIDE DEF Author
  <2>2. \A i \in 1..Len(named) : FormatPersonName(named[i]) \in {None} \cup STRING
    BY <1>2, <2>1
  <2> QED
    BY <1>2, <2>2
<1>5. ToSet(names) = Names(item)
  <2>1. ToSet(names) = {x.name : x \in ToSet(named)}
    BY <1>2 DEF ToSet, FormatPersonName
  <2>2. ToSet(raws) = {raws[i] : i \in 1..Len(raws)}
    BY <1>1 DEF ToSet
  <2>3. {x.name : x \in ToSet(named)} = {x.name : x \in ToSet(raws)} \ {None}
    BY <1>2, <2>2
  <2> QED
    BY <2>1, <2>3 DEF Names, raws
<1> HIDE DEF names
<1>6. /\ Distinct(names) \in Seq({None} \cup STRING) /\ NoneTwice(Distinct(names))
      /\ ToSet(Distinct(names)) = ToSet(names)
  BY <1>4, DistinctOnce, DistinctSet
<1>7. /\ ToSet(AtMost(MaxAuthors, Distinct(names))) \subseteq ToSet(Distinct(names))
      /\ \/ AtMost(MaxAuthors, Distinct(names)) = Distinct(names)
         \/ Len(AtMost(MaxAuthors, Distinct(names))) = MaxAuthors
  BY <1>6, AtMostSet, ExternalBooksAssumption
<1>8. /\ AtMost(MaxAuthors, Distinct(names)) \in Seq({None} \cup STRING)
      /\ NoneTwice(AtMost(MaxAuthors, Distinct(names)))
      /\ Len(AtMost(MaxAuthors, Distinct(names))) <= MaxAuthors
  BY <1>6, AtMostOnce, ExternalBooksAssumption
<1>9. Once(AtMost(MaxAuthors, Distinct(names)))
  BY <1>8, NoneTwiceOnce
<1> QED
  BY <1>3, <1>6, <1>8, <1>9, <1>5, <1>7 DEF raws

\* Codes of languages are without repetition, and none is left out.
LEMMA LanguagesFit ==
  ASSUME NEW item \in Item
  PROVE  /\ Once(NormalizeLanguageCodes(item.languages))
         /\ ToSet(NormalizeLanguageCodes(item.languages)) = Tongues(item)
<1> DEFINE Language == [tag : STRING, region : {None} \cup STRING]
           raws == item.languages
           known == At(raws, {i \in 1..Len(raws) : NormalizeLanguageCode(raws[i]) # None})
           codes == [i \in 1..Len(known) |-> NormalizeLanguageCode(known[i])]
<1>1. raws \in Seq(Language)
  BY DEF Item
<1>2. /\ known \in Seq(Language)
      /\ ToSet(known)
           = {raws[i] : i \in {j \in 1..Len(raws) : NormalizeLanguageCode(raws[j]) # None}}
  <2> DEFINE K == {i \in 1..Len(raws) : NormalizeLanguageCode(raws[i]) # None}
  <2>1. K \cap 1..Len(raws) = K
    OBVIOUS
  <2> HIDE DEF Language, raws, K
  <2>2. At(raws, K) \in Seq(Language) /\ ToSet(At(raws, K)) = {raws[i] : i \in K \cap 1..Len(raws)}
    BY <1>1, AtElements, AtSet
  <2> QED
    BY <2>1, <2>2 DEF K
<1>3. NormalizeLanguageCodes(raws) = Distinct(codes)
  BY DEF NormalizeLanguageCodes
<1> HIDE DEF known, raws
<1>4. codes \in Seq({None} \cup STRING)
  <2>1. \A x \in Language : NormalizeLanguageCode(x) \in {None} \cup STRING
    BY DEF NormalizeLanguageCode
  <2> HIDE DEF Language
  <2>2. \A i \in 1..Len(known) : NormalizeLanguageCode(known[i]) \in {None} \cup STRING
    BY <1>2, <2>1
  <2> QED
    BY <1>2, <2>2
<1>5. ToSet(codes) = Tongues(item)
  <2>1. ToSet(codes) = {NormalizeLanguageCode(x) : x \in ToSet(known)}
    BY <1>2 DEF ToSet
  <2>2. ToSet(raws) = {raws[i] : i \in 1..Len(raws)}
    BY <1>1 DEF ToSet
  <2>3. {NormalizeLanguageCode(x) : x \in ToSet(known)}
          = {NormalizeLanguageCode(x) : x \in ToSet(raws)} \ {None}
    BY <1>2, <2>2
  <2>4. {NormalizeLanguageCode(x) : x \in ToSet(raws)} \ {None}
          = ({x.tag : x \in ToSet(raws)} \cap LanguageTag) \ {None}
    BY DEF NormalizeLanguageCode
  <2> QED
    BY <2>1, <2>3, <2>4 DEF Tongues, raws
<1> HIDE DEF codes
<1>6. /\ Distinct(codes) \in Seq({None} \cup STRING) /\ NoneTwice(Distinct(codes))
      /\ ToSet(Distinct(codes)) = ToSet(codes)
  BY <1>4, DistinctOnce, DistinctSet
<1> QED
  BY <1>3, <1>6, <1>5, NoneTwiceOnce DEF raws

Subject == [curated : BOOLEAN, codes : Seq(STRING), rules : Seq(STRING), arts : BOOLEAN]

\* The keys of the list of categories, and its length.
CategoriesFit(s) == Once(s) /\ Len(s) <= MaxCategories

\* Collecting codes drops those that repeat, and those above the limit.
LEMMA CollectedFit ==
  ASSUME NEW S, NEW codes \in Seq(S)
  PROVE  CategoriesFit(CollectCategoryCodes(codes))
<1>1. Distinct(codes) \in Seq(S) /\ NoneTwice(Distinct(codes))
  BY DistinctOnce
<1>2. /\ AtMost(MaxCategories, Distinct(codes)) \in Seq(S)
      /\ NoneTwice(AtMost(MaxCategories, Distinct(codes)))
      /\ Len(AtMost(MaxCategories, Distinct(codes))) <= MaxCategories
  BY <1>1, AtMostOnce, ExternalBooksAssumption
<1>3. Once(AtMost(MaxCategories, Distinct(codes)))
  BY <1>2, NoneTwiceOnce
<1> QED
  BY <1>2, <1>3 DEF CollectCategoryCodes, CategoriesFit

\* What subjects give are codes.
LEMMA CodesType ==
  ASSUME NEW subjects \in Seq(Subject)
  PROVE  /\ Codes(subjects) \in Seq(STRING) /\ RuleCodes(subjects) \in Seq(STRING)
         /\ Curated(subjects) \in Seq(Subject)
<1>1. [i \in 1..Len(subjects) |-> subjects[i].codes] \in Seq(Seq(STRING))
  <2>1. \A x \in Subject : x.codes \in Seq(STRING)
    BY DEF Subject
  <2>2. \A i \in 1..Len(subjects) : subjects[i] \in Subject
    OBVIOUS
  <2> HIDE DEF Subject
  <2>3. \A i \in 1..Len(subjects) : subjects[i].codes \in Seq(STRING)
    BY <2>1, <2>2
  <2> QED
    BY <2>3
<1>2. [i \in 1..Len(subjects) |-> subjects[i].rules] \in Seq(Seq(STRING))
  <2>1. \A x \in Subject : x.rules \in Seq(STRING)
    BY DEF Subject
  <2>2. \A i \in 1..Len(subjects) : subjects[i] \in Subject
    OBVIOUS
  <2> HIDE DEF Subject
  <2>3. \A i \in 1..Len(subjects) : subjects[i].rules \in Seq(STRING)
    BY <2>1, <2>2
  <2> QED
    BY <2>3
<1>3. Codes(subjects) \in Seq(STRING)
  <2> DEFINE s == [i \in 1..Len(subjects) |-> subjects[i].codes]
  <2>1. Codes(subjects) = FlattenSeq(s)
    BY DEF Codes
  <2> HIDE DEF s
  <2> QED
    BY <1>1, <2>1, FlattenType DEF s
<1>4. RuleCodes(subjects) \in Seq(STRING)
  <2> DEFINE s == [i \in 1..Len(subjects) |-> subjects[i].rules]
  <2>1. RuleCodes(subjects) = FlattenSeq(s)
    BY DEF RuleCodes
  <2> HIDE DEF s
  <2> QED
    BY <1>2, <2>1, FlattenType DEF s
<1>5. Curated(subjects) \in Seq(Subject)
  BY AtElements DEF Curated
<1> QED
  BY <1>3, <1>4, <1>5

\* All four ways to categories collect them.
LEMMA AllCategoriesFit ==
  ASSUME NEW item \in Item
  PROVE  /\ CategoriesFit(MapGutendexCategories(item.subjects))
         /\ CategoriesFit(MapStandardEbooksCategories(item.subjects))
         /\ CategoriesFit(MapArxivCategories(item.subjects))
         /\ CategoriesFit(MapOpenAlexCategories(item.subjects))
<1> DEFINE subjects == item.subjects
<1>1. subjects \in Seq(Subject)
  BY DEF Item, Subject
<1> HIDE DEF subjects
<1>2. Curated(subjects) \in Seq(Subject) /\ RuleCodes(subjects) \in Seq(STRING)
  BY <1>1, CodesType
<1>3. Codes(Curated(subjects)) \in Seq(STRING)
  BY <1>2, CodesType
<1>4. CategoriesFit(MapGutendexCategories(subjects))
  BY <1>2, <1>3, CollectedFit DEF MapGutendexCategories
<1>5. CategoriesFit(MapStandardEbooksCategories(subjects))
  BY <1>3, CollectedFit DEF MapStandardEbooksCategories
<1>6. CategoriesFit(MapArxivCategories(subjects))
  <2>1. Curated(subjects) \o subjects \in Seq(Subject)
    BY <1>1, <1>2, ConcatProperties
  <2>2. Codes(Curated(subjects) \o subjects) \in Seq(STRING)
    BY <2>1, CodesType
  <2> QED
    BY <2>2, CollectedFit DEF MapArxivCategories
<1>7. CategoriesFit(MapOpenAlexCategories(subjects))
  <2>1. CASE subjects = <<>>
    <3>1. MapOpenAlexCategories(subjects) = <<>>
      BY <2>1 DEF MapOpenAlexCategories
    <3>2. <<>> \in Seq(STRING) /\ NoneTwice(<<>>) /\ Len(<<>>) = 0
      BY DEF NoneTwice
    <3>3. Once(<<>>)
      BY <3>2, NoneTwiceOnce
    <3> QED
      BY <3>1, <3>2, <3>3, ExternalBooksAssumption DEF CategoriesFit
  <2>2. CASE subjects # <<>>
    <3>1. Head(subjects) \in Subject
      BY <1>1, <2>2, HeadAndTail
    <3>2. CategoriesFit(CollectCategoryCodes(Head(subjects).codes))
      <4>1. \A x \in Subject : x.codes \in Seq(STRING)
        BY DEF Subject
      <4> QED
        BY <3>1, <4>1, CollectedFit
    <3>4. CategoriesFit(CollectCategoryCodes(<<"arts">>))
      <4>1. <<"arts">> \in Seq({"arts"})
        OBVIOUS
      <4> QED
        BY <4>1, CollectedFit
    <3>3. \/ MapOpenAlexCategories(subjects) = CollectCategoryCodes(<<"arts">>)
          \/ MapOpenAlexCategories(subjects) = CollectCategoryCodes(Head(subjects).codes)
      BY <2>2 DEF MapOpenAlexCategories
    <3> QED
      BY <3>2, <3>3, <3>4
  <2> QED
    BY <2>1, <2>2
<1> QED
  BY <1>4, <1>5, <1>6, <1>7 DEF subjects

-----------------------------------------------------------------------------
(* Books, and where they are in the pages.                                 *)
Fits(b, item) ==
    /\ b.ref \in Published /\ b.format = FormatOf(b.ref)
    /\ ListsAreOf(b, item)

\* A book that is made of such parts fits the tables.
LEMMA BookFits ==
  ASSUME NEW item \in Item, NEW provider, NEW content, NEW languages, NEW categories,
         Suits(content), CategoriesFit(categories), Once(languages),
         provider # "ARXIV" => ToSet(languages) = Tongues(item),
         IsReadableContent(Book(provider, content, item, languages, categories))
  PROVE  Fits(Book(provider, content, item, languages, categories), item)
<1> DEFINE b == Book(provider, content, item, languages, categories)
<1>1. /\ b.ref = content.ref /\ b.format = content.format /\ b.provider = provider
      /\ b.authors = NormalizeAuthorNames(item.authors)
      /\ b.languages = languages /\ b.categories = categories
  BY DEF Book
<1> HIDE DEF b
<1>2. IsReadableContent(content)
  <2>1. IsReadableContent(b)
    BY DEF b
  <2> QED
    BY <1>1, <2>1 DEF IsReadableContent
<1>3. content.ref \in Published /\ content.format = FormatOf(content.ref)
  BY <1>2 DEF Suits
<1>4. /\ Once(b.authors) /\ Len(b.authors) <= MaxAuthors
      /\ ToSet(b.authors) \subseteq Names(item)
      /\ ToSet(b.authors) # Names(item) => Len(b.authors) = MaxAuthors
  BY <1>1, AuthorsFit
<1>5. Once(b.categories) /\ Len(b.categories) <= MaxCategories
  BY <1>1 DEF CategoriesFit
<1>6. ListsAreOf(b, item)
  BY <1>1, <1>4, <1>5 DEF ListsAreOf
<1>7. Fits(b, item)
  BY <1>1, <1>3, <1>6 DEF Fits
<1> QED
  BY <1>7 DEF b

\* The books a provider may answer with; those that can be read fit the tables.
BooksBy(p) == {BookOf[p][item] : item \in ItemsOf[p]} \ {None}

\* Each of the four mappings makes such books, and says they are its own.
LEMMA BooksByFit ==
  ASSUME NEW p \in Provider, NEW b \in BooksBy(p)
  PROVE  b.provider = p /\ (IsReadableContent(b) => \E item \in ItemsOf[p] : Fits(b, item))
<1>1. PICK item \in ItemsOf[p] : b = BookOf[p][item] /\ b # None
  BY DEF BooksBy
<1>2. item \in Item
  BY CatalogAssumption
<1>3. item.offers \in Seq(Offer)
  BY <1>2 DEF Item, Offer
<1>4. /\ Once(NormalizeLanguageCodes(item.languages)) /\ Once(<<"en">>)
      /\ ToSet(NormalizeLanguageCodes(item.languages)) = Tongues(item)
  <2>1. <<"en">> \in Seq({"en"}) /\ NoneTwice(<<"en">>)
    BY DEF NoneTwice
  <2> QED
    BY <1>2, <2>1, LanguagesFit, NoneTwiceOnce
<1>5. CASE p = "GUTENDEX"
  <2>1. b = GutendexBook(item)
    BY <1>1, <1>5 DEF BookOf
  <2>2. b = Book("GUTENDEX", GutendexContent(item.offers), item,
                 NormalizeLanguageCodes(item.languages), MapGutendexCategories(item.subjects))
    BY <1>1, <2>1 DEF GutendexBook
  <2>3. b.provider = p
    BY <1>5, <2>2 DEF Book
  <2>4. IsReadableContent(b) => Fits(b, item)
    BY <1>2, <1>3, <1>4, <2>2, GutendexSuits, AllCategoriesFit, BookFits
  <2> QED
    BY <2>3, <2>4
<1>6. CASE p = "STANDARD_EBOOKS"
  <2>1. b = StandardEbooksBook(item)
    BY <1>1, <1>6 DEF BookOf
  <2>2. b = Book("STANDARD_EBOOKS", StandardEbooksContent(item.offers), item,
                 NormalizeLanguageCodes(item.languages),
                 MapStandardEbooksCategories(item.subjects))
    BY <1>1, <2>1 DEF StandardEbooksBook
  <2>3. b.provider = p
    BY <1>6, <2>2 DEF Book
  <2>4. IsReadableContent(b) => Fits(b, item)
    BY <1>2, <1>3, <1>4, <2>2, StandardEbooksSuits, AllCategoriesFit, BookFits
  <2> QED
    BY <2>3, <2>4
<1>7. CASE p = "ARXIV"
  <2>1. b = ArxivBook(item)
    BY <1>1, <1>7 DEF BookOf
  <2>2. b = Book("ARXIV", ArxivContent(item.offers), item, <<"en">>,
                 MapArxivCategories(item.subjects))
    BY <1>1, <2>1 DEF ArxivBook
  <2>3. b.provider = p
    BY <1>7, <2>2 DEF Book
  <2>4. IsReadableContent(b) => Fits(b, item)
    BY <1>2, <1>3, <1>4, <2>2, ArxivSuits, AllCategoriesFit, BookFits
  <2> QED
    BY <2>3, <2>4
<1>8. CASE p = "OPENALEX"
  <2>1. b = OpenAlexBook(item)
    BY <1>1, <1>8 DEF BookOf
  <2>2. b = Book("OPENALEX", OpenAlexContent(item.offers), item,
                 NormalizeLanguageCodes(item.languages), MapOpenAlexCategories(item.subjects))
    BY <1>1, <2>1 DEF OpenAlexBook
  <2>3. b.provider = p
    BY <1>8, <2>2 DEF Book
  <2>4. IsReadableContent(b) => Fits(b, item)
    BY <1>2, <1>3, <1>4, <2>2, OpenAlexSuits, AllCategoriesFit, BookFits
  <2> QED
    BY <2>3, <2>4
<1> QED
  BY <1>5, <1>6, <1>7, <1>8 DEF Provider

\* A page of a provider has its books at different positions.
FoundBy(p) == [pos : Nat, book : BooksBy(p)]
PagesBy(p) ==
    {page \in [found : SUBSET FoundBy(p), more : BOOLEAN] :
        \A b, c \in page.found : b.pos = c.pos => b = c}

LEMMA PlaceOf ==
  ASSUME NEW p \in Provider, NEW b \in FoundBy(p)
  PROVE  Place(b) = <<p, b.pos>> /\ b.pos \in Nat /\ b.book.provider = p
<1>1. b.book \in BooksBy(p) /\ b.pos \in Nat
  BY DEF FoundBy
<1>2. b.book.provider = p
  BY <1>1, BooksByFit
<1> QED
  BY <1>1, <1>2 DEF Place

LEMMA EmptyPageBy ==
  ASSUME NEW p
  PROVE  EmptyPage \in PagesBy(p) /\ EmptyPage.found = {} /\ EmptyPage.more = FALSE
BY DEF EmptyPage, PagesBy

\* Which positions a page has.
LEMMA PageBounds ==
  ASSUME NEW p \in Provider, NEW k \in Nat \ {0}
  PROVE  /\ SizeOf(p) \in Nat \ {0}
         /\ StartOf(p, k) \in Nat /\ StartOf(p, 1) = 0
         /\ k * SizeOf(p) \in Nat
         /\ StartOf(p, k) + SizeOf(p) = k * SizeOf(p)
         /\ StartOf(p, k + 1) = k * SizeOf(p)
<1> DEFINE S == SizeOf(p)
<1>1. S \in Nat \ {0} /\ (p = "ARXIV" => S = PageSize)
  BY CatalogAssumption DEF SizeOf
<1>2. \A n \in Nat : StartOf(p, n) = (n - 1) * S
  <2>1. CASE p = "ARXIV"
    BY <1>1, <2>1 DEF StartOf, ArxivStart
  <2>2. CASE p # "ARXIV"
    BY <2>2 DEF StartOf
  <2> QED
    BY <2>1, <2>2
<1> HIDE DEF S
<1>3. \A n \in Nat : n * S \in Nat
  BY <1>1
<1>4. k - 1 \in Nat /\ k \in Nat /\ k + 1 \in Nat /\ (k + 1) - 1 = k
  OBVIOUS
<1>5. StartOf(p, k) = (k - 1) * S /\ StartOf(p, k + 1) = k * S /\ StartOf(p, 1) = (1 - 1) * S
  BY <1>2, <1>4
<1>6. (k - 1) * S + S = k * S
  BY <1>1
<1>7. (1 - 1) * S = 0
  BY <1>1
<1> QED
  BY <1>1, <1>3, <1>4, <1>5, <1>6, <1>7 DEF S

\* The first of some providers is one of them.
LEMMA FirstIn ==
  ASSUME NEW left \in SUBSET Provider, left # {}
  PROVE  First(left) \in left
<1> DEFINE ranks == {ByName[p] : p \in left}
<1>1. \A p \in Provider : ByName[p] \in Nat
  BY DEF Provider, ByName
<1>2. ranks \in SUBSET Nat /\ ranks # {}
  BY <1>1
<1> HIDE DEF ranks
<1>3. PICK n \in ranks : \A m \in ranks : n <= m
  BY <1>2, NatLeast
<1>4. PICK p \in left : ByName[p] = n
  BY <1>3 DEF ranks
<1>5. \A q \in left : ByName[p] <= ByName[q]
  BY <1>3, <1>4 DEF ranks
<1> QED
  BY <1>4, <1>5 DEF First

\* The next book of those that are left to write is one of them.
LEMMA NextOfIn ==
  ASSUME NEW todo, todo # {}, \A b \in todo : \E p \in Provider : b \in FoundBy(p)
  PROVE  NextOf(todo) \in todo
<1> DEFINE orders == {Order(b) : b \in todo}
<1>1. \A b \in todo : Order(b) \in Nat
  <2> TAKE b \in todo
  <2>1. b.book.provider \in Provider /\ b.pos \in Nat
    BY PlaceOf
  <2>2. Registered[b.book.provider] \in Nat
    BY <2>1 DEF Registered, Provider
  <2>3. MaxTotal \in Nat
    BY CatalogAssumption
  <2>4. Registered[b.book.provider] * (MaxTotal + 1) \in Nat
    BY <2>2, <2>3
  <2> QED
    BY <2>1, <2>4 DEF Order
<1>2. orders \in SUBSET Nat /\ orders # {}
  BY <1>1
<1> HIDE DEF orders
<1>3. PICK n \in orders : \A m \in orders : n <= m
  BY <1>2, NatLeast
<1>4. PICK b \in todo : Order(b) = n
  BY <1>3 DEF orders
<1>5. \A c \in todo : Order(b) <= Order(c)
  BY <1>3, <1>4 DEF orders
<1> QED
  BY <1>4, <1>5 DEF NextOf

-----------------------------------------------------------------------------
(* The inductive invariant.  What is known of a request wherever it is.    *)
LoadFields ==
    {"at", "job", "terms", "left", "waiting", "pages", "unavailable", "page", "todo", "more",
     "imported", "failed", "truncated", "down", "total", "got", "readable", "dropped",
     "guessed"}

Job == {"find", "search", "one", "all"}

IsLoad(l) ==
    /\ l = [x \in LoadFields |-> l[x]]
    /\ l.job \in Job
    /\ l.left \in SUBSET Provider /\ l.left # {}
    /\ l.page \in Nat \ {0} /\ l.page <= MaxPages
    /\ l.total \in [Provider -> Nat]

Here(l) == First(l.left)

\* The positions of the page it is at come after Begin and go up to End.
Begin(l) == StartOf(Here(l), l.page)
End(l) == l.page * SizeOf(Here(l))

Done(l) == l.imported \cup l.failed
PlacesOf(books) == {Place(b) : b \in books}
ReadablePages(l) == UNION {ReadableOf(l, p) : p \in Provider}

\* A provider whose result set was answered to its end, or that gives a reason
\* why not.
Complete(l, p) ==
    \/ l.truncated \/ p \in l.down \/ p \in l.guessed \cap l.dropped
    \/ \A i \in 1..l.total[p] : <<p, i>> \in l.got

\* One with more than a load takes.
Beyond(l, p) ==
    \/ l.total[p] > MaxPages * SizeOf(p)
    \/ p \in l.guessed /\ l.total[p] = MaxPages * SizeOf(p)

\* A load is through with the providers that are not left, and knows nothing
\* of those that are left after the one it is at.
Untouched(l, p) == l.total[p] = 0 /\ \A i \in Nat : <<p, i>> \notin Done(l)
Ahead(l) ==
    /\ Loads(l) => \A p \in Provider \ l.left : Complete(l, p)
    /\ l.truncated => \E p \in Provider \ l.left : Beyond(l, p)
    /\ Loads(l) => \A p \in l.left \ {Here(l)} : Untouched(l, p)

Common(l) ==
    /\ IsLoad(l)
    /\ l.imported \cap l.failed = {}
    /\ l.job = "find" => l.failed = {}
    /\ ~ Loads(l) => l.page = 1 /\ ~ l.truncated

\* Nothing beyond a position was written, and everything up to it answered.
WrittenTo(l, n) == \A i \in Nat : <<Here(l), i>> \in Done(l) => i <= n
AnsweredTo(l, n) == \A i \in 1..l.total[Here(l)] : i <= n => <<Here(l), i>> \in l.got

\* There is another page, or the result set ends here; but for a guess.
MoreMeans(l, more) ==
    /\ ~ more => \/ Here(l) \in l.guessed \cap l.dropped
                 \/ l.total[Here(l)] <= End(l)
    /\ more => /\ ~ NeedsNoRequest(l, Here(l))
               /\ \/ l.total[Here(l)] > End(l)
                  \/ Here(l) \in l.guessed /\ l.total[Here(l)] = End(l)

NothingPending(l) == l.pages = NoPages /\ l.unavailable = {}

\* At each of its steps: about to consult,
AtResolve(l) ==
    /\ Common(l) /\ Ahead(l) /\ NothingPending(l)
    /\ l.job # "find" => l.readable = Done(l)
    /\ ~ Loads(l) => Done(l) = {}
    /\ Loads(l) => /\ WrittenTo(l, Begin(l)) /\ AnsweredTo(l, Begin(l))
                   /\ l.page > 1 => ~ NeedsNoRequest(l, Here(l))
                   /\ l.page = 1 => l.total[Here(l)] = 0

\* waiting for answers,
AtAsk(l) ==
    /\ Common(l) /\ Ahead(l)
    /\ l.waiting \in SUBSET Provider /\ l.waiting # {}
    /\ l.pages = [p \in Provider |-> l.pages[p]]
    /\ \A p \in Provider : l.pages[p] \in PagesBy(p)
    /\ \A p \in l.waiting : ~ NeedsNoRequest(l, p) /\ l.pages[p] = EmptyPage
    /\ l.job # "find" => l.readable = Done(l) \cup PlacesOf(ReadablePages(l))
    /\ ~ Loads(l) => Done(l) = {}
    /\ Loads(l) => /\ l.waiting = {Here(l)} /\ NothingPending(l)
                   /\ WrittenTo(l, Begin(l)) /\ AnsweredTo(l, Begin(l))

\* with all of them,
Ready(l) ==
    /\ Common(l) /\ Ahead(l)
    /\ l.pages = [p \in Provider |-> l.pages[p]]
    /\ \A p \in Provider : l.pages[p] \in PagesBy(p)
    /\ l.job # "find" => l.readable = Done(l) \cup PlacesOf(ReadablePages(l))
    /\ ~ Loads(l) => Done(l) = {}
    /\ Loads(l) =>
         /\ \A p \in Provider \ {Here(l)} : l.pages[p] = EmptyPage
         /\ WrittenTo(l, Begin(l))
         /\ \A b \in l.pages[Here(l)].found : Begin(l) < b.pos /\ b.pos <= End(l)
         /\ IF Here(l) \in l.unavailable THEN l.pages[Here(l)] = EmptyPage
            ELSE AnsweredTo(l, End(l)) /\ MoreMeans(l, l.pages[Here(l)].more)

\* and with books to write.
Stored(l) ==
    /\ Common(l) /\ Ahead(l) /\ NothingPending(l)
    /\ \A b \in l.todo : \E p \in Provider : b \in FoundBy(p) /\ IsReadableContent(b.book)
    /\ \A b, c \in l.todo : Place(b) = Place(c) => b = c
    /\ l.job # "find" => /\ l.readable = Done(l) \cup PlacesOf(l.todo)
                         /\ PlacesOf(l.todo) \cap Done(l) = {}
    /\ Loads(l) =>
         /\ \A b \in l.todo : b.book.provider = Here(l) /\ b.pos <= End(l)
         /\ WrittenTo(l, End(l)) /\ AnsweredTo(l, End(l)) /\ MoreMeans(l, l.more)

IsComplete(l) ==
    /\ l.job # "find" => Done(l) = l.readable
    /\ l.imported \cap l.failed = {}
    /\ Loads(l) /\ ~ l.truncated =>
         \A p \in Provider \ (l.down \cup (l.guessed \cap l.dropped)) :
            \A i \in 1..l.total[p] : <<p, i>> \in l.got
    /\ l.truncated => \E p \in Provider : Beyond(l, p)

Good(l) ==
    \/ l = NoRequest
    \/ l.at = "refused"
    \/ l.at = "resolve" /\ AtResolve(l)
    \/ l.at = "ask" /\ AtAsk(l)
    \/ l.at = "store" /\ l.todo # {} /\ Stored(l)
    \/ l.at = "done" /\ IsComplete(l)

LoadsGood ==
    /\ load = [r \in Reader |-> load[r]]
    /\ \A r \in Reader : Good(load[r])

\* The provider a request is at, and the positions its page has.
LEMMA HereBounds ==
  ASSUME NEW l, IsLoad(l)
  PROVE  /\ Here(l) \in l.left /\ Here(l) \in Provider
         /\ Begin(l) \in Nat /\ End(l) \in Nat /\ Begin(l) <= End(l)
         /\ l.page = 1 => Begin(l) = 0
         /\ SizeOf(Here(l)) \in Nat \ {0} /\ Begin(l) + SizeOf(Here(l)) = End(l)
<1>1. Here(l) \in l.left /\ Here(l) \in Provider
  BY FirstIn DEF IsLoad, Here
<1>2. l.page \in Nat \ {0}
  BY DEF IsLoad
<1> DEFINE S == SizeOf(Here(l))
<1>3. /\ S \in Nat \ {0} /\ Begin(l) \in Nat /\ End(l) \in Nat /\ Begin(l) + S = End(l)
      /\ l.page = 1 => Begin(l) = 0
  BY <1>1, <1>2, PageBounds DEF Begin, End
<1> HIDE DEF S
<1>4. Begin(l) <= End(l)
  BY <1>3
<1> QED
  BY <1>1, <1>3, <1>4 DEF S

\* What is known everywhere rests on some of the fields only.
LEMMA CommonKept ==
  ASSUME NEW l, NEW m, Common(l), m = [x \in LoadFields |-> m[x]],
         m.job = l.job, m.left = l.left, m.page = l.page, m.total = l.total,
         m.imported = l.imported, m.failed = l.failed, m.truncated = l.truncated
  PROVE  Common(m) /\ Here(m) = Here(l) /\ Begin(m) = Begin(l) /\ End(m) = End(l)
         /\ Done(m) = Done(l) /\ (Loads(m) <=> Loads(l))
BY DEF Common, IsLoad, Loads, Here, Begin, End, Done

\* What is known of the other providers stays, whatever becomes of this one.
LEMMA AheadKept ==
  ASSUME NEW l, NEW m, Ahead(l),
         m.job = l.job, m.left = l.left, m.truncated = l.truncated,
         \A p \in Provider : Loads(l) /\ p # Here(l) => m.total[p] = l.total[p],
         \A p \in Provider, i \in Nat :
            Loads(l) /\ p # Here(l) /\ <<p, i>> \in Done(m) => <<p, i>> \in Done(l),
         Loads(l) => l.down \subseteq m.down, l.guessed \subseteq m.guessed,
         l.dropped \subseteq m.dropped, l.got \subseteq m.got,
         IsLoad(l), ~ Loads(l) => ~ l.truncated
  PROVE  Ahead(m)
<1>1. Here(m) = Here(l) /\ (Loads(m) <=> Loads(l)) /\ Here(l) \in l.left
  BY HereBounds DEF Here, Loads
<1>2. ASSUME Loads(m)
      PROVE  /\ \A p \in Provider \ m.left : Complete(m, p)
             /\ \A p \in m.left \ {Here(m)} : Untouched(m, p)
             /\ m.truncated => \E p \in Provider \ m.left : Beyond(m, p)
  <2>1. \A p \in Provider \ m.left : m.total[p] = l.total[p]
    BY <1>1, <1>2
  <2>2. \A p \in Provider \ m.left : Complete(l, p) => Complete(m, p)
    BY <1>1, <1>2, <2>1 DEF Complete
  <2>3. \A p \in Provider \ m.left : Beyond(l, p) => Beyond(m, p)
    BY <2>1 DEF Beyond
  <2>4. \A p \in m.left \ {Here(m)} : Untouched(l, p) => Untouched(m, p)
    <3>1. m.left \in SUBSET Provider
      BY DEF IsLoad
    <3> QED
      BY <1>1, <1>2, <3>1 DEF Untouched
  <2> QED
    BY <1>1, <1>2, <2>2, <2>3, <2>4 DEF Ahead
<1>3. CASE ~ Loads(m)
  BY <1>1, <1>3 DEF Ahead
<1> QED
  BY <1>2, <1>3 DEF Ahead

-----------------------------------------------------------------------------
(* A load that is through with a page.                                     *)
LEMMA NextProviderGood ==
  ASSUME NEW l, Common(l), NothingPending(l), Loads(l), l.readable = Done(l),
         \A p \in Provider \ l.left : Complete(l, p), Complete(l, Here(l)),
         l.truncated => \E p \in (Provider \ l.left) \cup {Here(l)} : Beyond(l, p),
         \A p \in l.left \ {Here(l)} : Untouched(l, p)
  PROVE  Good(NextProvider(l))
<1> DEFINE rest == l.left \ {Here(l)}
           m == NextProvider(l)
<1>1. /\ IsLoad(l) /\ Here(l) \in l.left /\ l.left \in SUBSET Provider
      /\ l.imported \cap l.failed = {}
  BY HereBounds DEF Common, IsLoad
<1>2. CASE rest = {}
  <2>1. m = [l EXCEPT !.at = "done"]
    BY <1>2 DEF NextProvider, Here
  <2> HIDE DEF m
  <2>2. /\ m.at = "done" /\ m.job = l.job /\ m.imported = l.imported /\ m.failed = l.failed
        /\ m.readable = l.readable /\ m.truncated = l.truncated /\ m.down = l.down
        /\ m.guessed = l.guessed /\ m.dropped = l.dropped /\ m.total = l.total /\ m.got = l.got
    BY <1>1, <2>1 DEF IsLoad, LoadFields
  <2>3. \A p \in Provider : Complete(l, p)
    BY <1>1, <1>2
  <2>4. IsComplete(m)
    <3>1. m.job # "find" => Done(m) = m.readable
      BY <2>2 DEF Done
    <3>2. m.truncated => \E p \in Provider : Beyond(m, p)
      BY <1>1, <2>2 DEF Beyond
    <3>3. ~ m.truncated =>
            \A p \in Provider \ (m.down \cup (m.guessed \cap m.dropped)) :
               \A i \in 1..m.total[p] : <<p, i>> \in m.got
      BY <2>2, <2>3 DEF Complete
    <3> QED
      BY <1>1, <2>2, <3>1, <3>2, <3>3 DEF IsComplete
  <2>5. Good(m)
    BY <2>2, <2>4 DEF Good
  <2> QED
    BY <2>5 DEF m
<1>3. CASE rest # {}
  <2>1. m = [l EXCEPT !.left = rest, !.page = 1, !.at = "resolve"]
    BY <1>3 DEF NextProvider, Here
  <2> HIDE DEF m, rest
  <2>2. /\ m = [x \in LoadFields |-> m[x]]
        /\ m.at = "resolve" /\ m.left = rest /\ m.page = 1 /\ m.terms = l.terms
        /\ m.job = l.job /\ m.imported = l.imported /\ m.failed = l.failed
        /\ m.readable = l.readable /\ m.truncated = l.truncated /\ m.down = l.down
        /\ m.guessed = l.guessed /\ m.dropped = l.dropped /\ m.total = l.total /\ m.got = l.got
        /\ m.pages = l.pages /\ m.unavailable = l.unavailable
    BY <1>1, <2>1 DEF IsLoad, LoadFields
  <2>3. rest \in SUBSET l.left /\ rest \in SUBSET Provider /\ Here(l) \notin rest
    BY <1>1 DEF rest
  <2>4. IsLoad(m)
    BY <1>1, <1>3, <2>2, <2>3, CatalogAssumption DEF IsLoad
  <2>5. Common(m) /\ (Loads(m) <=> Loads(l)) /\ Done(m) = Done(l)
    BY <2>2, <2>4 DEF Common, Loads, Done
  <2>6. Here(m) \in rest /\ Here(m) \in Provider /\ Begin(m) = 0
    BY <2>2, <2>4, HereBounds
  <2>7. \A p \in rest : Untouched(m, p)
    BY <2>2, <2>5 DEF rest, Untouched
  <2>8. Ahead(m)
    <3>1. \A p \in Provider \ m.left : Complete(m, p)
      <4>1. \A p \in Provider \ rest : Complete(l, p)
        BY <1>1 DEF rest
      <4> QED
        BY <2>2, <4>1 DEF Complete
    <3>2. m.truncated => \E p \in Provider \ m.left : Beyond(m, p)
      <4>1. l.truncated => \E p \in Provider \ rest : Beyond(l, p)
        BY <1>1 DEF rest
      <4> QED
        BY <2>2, <4>1 DEF Beyond
    <3> QED
      BY <2>2, <2>7, <3>1, <3>2 DEF Ahead
  <2>9. m.total[Here(m)] = 0 /\ \A i \in Nat : <<Here(m), i>> \notin Done(m)
    BY <2>6, <2>7 DEF Untouched
  <2>10. WrittenTo(m, Begin(m)) /\ AnsweredTo(m, Begin(m))
    <3>1. 1..m.total[Here(m)] = {}
      BY <2>9
    <3> QED
      BY <2>9, <3>1 DEF WrittenTo, AnsweredTo
  <2>11. AtResolve(m)
    BY <2>2, <2>5, <2>8, <2>9, <2>10 DEF AtResolve, NothingPending
  <2>12. Good(m)
    BY <2>2, <2>11 DEF Good
  <2> QED
    BY <2>12 DEF m
<1> QED
  BY <1>2, <1>3

\* The page is stored.
LEMMA AfterPageGood ==
  ASSUME NEW l, Stored(l), l.todo = {}
  PROVE  Good(AfterPage(l))
<1> DEFINE m == AfterPage(l)
           h == Here(l)
<1>1. /\ Common(l) /\ Ahead(l) /\ NothingPending(l) /\ IsLoad(l)
      /\ l.job # "find" => l.readable = Done(l)
      /\ l.imported \cap l.failed = {}
  BY DEF Stored, Common, PlacesOf
<1>2. /\ h \in l.left /\ h \in Provider /\ Begin(l) \in Nat /\ End(l) \in Nat
      /\ SizeOf(h) \in Nat \ {0} /\ l.left \in SUBSET Provider
  BY <1>1, HereBounds DEF IsLoad
<1>3. CASE ~ Loads(l)
  <2>1. m = [l EXCEPT !.at = "done"]
    BY <1>3 DEF AfterPage
  <2> HIDE DEF m
  <2>2. /\ m.at = "done" /\ m.job = l.job /\ m.imported = l.imported /\ m.failed = l.failed
        /\ m.readable = l.readable /\ m.truncated = l.truncated
    BY <1>1, <2>1 DEF IsLoad, LoadFields
  <2>3. ~ m.truncated /\ ~ Loads(m)
    BY <1>1, <1>3, <2>2 DEF Common, Loads
  <2>4. IsComplete(m)
    BY <1>1, <2>2, <2>3 DEF IsComplete, Done
  <2>5. Good(m)
    BY <2>2, <2>4 DEF Good
  <2> QED
    BY <2>5 DEF m
<1>4. ASSUME Loads(l)
      PROVE  /\ l.readable = Done(l)
             /\ WrittenTo(l, End(l)) /\ AnsweredTo(l, End(l)) /\ MoreMeans(l, l.more)
             /\ \A p \in Provider \ l.left : Complete(l, p)
             /\ \A p \in l.left \ {h} : Untouched(l, p)
             /\ l.truncated => \E p \in Provider \ l.left : Beyond(l, p)
  BY <1>1, <1>4 DEF Stored, Ahead, Loads
<1>5. CASE Loads(l) /\ ~ l.more
  <2>1. m = NextProvider(l)
    BY <1>5 DEF AfterPage
  <2>2. Complete(l, h)
    <3>1. CASE h \in l.guessed \cap l.dropped
      BY <3>1 DEF Complete
    <3>2. CASE l.total[h] <= End(l)
      <4>1. l.total[h] \in Nat
        BY <1>1, <1>2 DEF IsLoad
      <4>2. \A i \in 1..l.total[h] : i <= End(l)
        BY <1>2, <3>2, <4>1
      <4> QED
        BY <1>4, <1>5, <4>2 DEF AnsweredTo, Complete
    <3> QED
      BY <1>4, <1>5, <3>1, <3>2 DEF MoreMeans
  <2> QED
    BY <1>1, <1>4, <1>5, <2>1, <2>2, NextProviderGood
<1>6. CASE Loads(l) /\ l.more /\ l.page = MaxPages
  <2> DEFINE k == [l EXCEPT !.truncated = TRUE]
  <2>1. m = NextProvider(k)
    BY <1>6 DEF AfterPage
  <2>2. /\ k = [x \in LoadFields |-> k[x]] /\ k.truncated = TRUE
        /\ k.job = l.job /\ k.left = l.left /\ k.page = l.page /\ k.total = l.total
        /\ k.imported = l.imported /\ k.failed = l.failed /\ k.readable = l.readable
        /\ k.pages = l.pages /\ k.unavailable = l.unavailable /\ k.guessed = l.guessed
    BY <1>1 DEF IsLoad, LoadFields
  <2> HIDE DEF k
  <2>3. IsLoad(k)
    BY <1>1, <2>2 DEF IsLoad
  <2>4. Common(k) /\ Loads(k) /\ Done(k) = Done(l) /\ Here(k) = h
    BY <1>1, <1>6, <2>2, <2>3 DEF Common, Loads, Done, Here
  <2>5. \A p \in Provider : Complete(k, p)
    BY <2>2 DEF Complete
  <2>6. Beyond(k, h)
    <3>1. End(l) = MaxPages * SizeOf(h)
      BY <1>6 DEF End
    <3>2. l.total[h] > End(l) \/ (h \in l.guessed /\ l.total[h] = End(l))
      BY <1>4, <1>6 DEF MoreMeans
    <3> QED
      BY <2>2, <3>1, <3>2 DEF Beyond
  <2>7. \A p \in k.left \ {Here(k)} : Untouched(k, p)
    BY <1>4, <1>6, <2>2, <2>4 DEF Untouched
  <2>8. NothingPending(k) /\ k.readable = Done(k)
    BY <1>1, <1>4, <1>6, <2>2, <2>4 DEF NothingPending
  <2>9. \E p \in (Provider \ k.left) \cup {Here(k)} : Beyond(k, p)
    BY <2>4, <2>6
  <2>10. Complete(k, Here(k)) /\ \A p \in Provider \ k.left : Complete(k, p)
    BY <1>2, <2>4, <2>5
  <2>11. Good(NextProvider(k))
    BY <2>4, <2>7, <2>8, <2>9, <2>10, NextProviderGood
  <2> QED
    BY <2>1, <2>11
<1>7. CASE Loads(l) /\ l.more /\ l.page # MaxPages
  <2>1. m = [l EXCEPT !.page = l.page + 1, !.at = "resolve"]
    BY <1>7 DEF AfterPage
  <2> HIDE DEF m
  <2>2. /\ m = [x \in LoadFields |-> m[x]] /\ m.at = "resolve" /\ m.page = l.page + 1
        /\ m.terms = l.terms /\ m.job = l.job /\ m.left = l.left /\ m.total = l.total
        /\ m.imported = l.imported /\ m.failed = l.failed /\ m.readable = l.readable
        /\ m.truncated = l.truncated /\ m.down = l.down /\ m.got = l.got
        /\ m.guessed = l.guessed /\ m.dropped = l.dropped
        /\ m.pages = l.pages /\ m.unavailable = l.unavailable
    BY <1>1, <2>1 DEF IsLoad, LoadFields
  <2>3. m.page \in Nat \ {0} /\ m.page <= MaxPages /\ m.page # 1 /\ l.page \in Nat \ {0}
    BY <1>1, <1>7, <2>2, CatalogAssumption DEF IsLoad
  <2>4. IsLoad(m)
    BY <1>1, <2>2, <2>3 DEF IsLoad
  <2>5. Common(m) /\ Loads(m) /\ Done(m) = Done(l) /\ Here(m) = h
    BY <1>1, <1>7, <2>2, <2>4 DEF Common, Loads, Done, Here
  <2>6. Begin(m) = End(l)
    BY <1>2, <2>2, <2>3, <2>5, PageBounds DEF Begin, End
  <2>7. Ahead(m)
    BY <1>1, <1>7, <2>2, <2>5, AheadKept
  <2>8. WrittenTo(m, Begin(m)) /\ AnsweredTo(m, Begin(m))
    BY <1>4, <1>7, <2>2, <2>5, <2>6 DEF WrittenTo, AnsweredTo
  <2>9. ~ NeedsNoRequest(m, Here(m))
    BY <1>4, <1>7, <2>2, <2>5 DEF MoreMeans, NeedsNoRequest
  <2>10. NothingPending(m) /\ m.readable = Done(m)
    BY <1>1, <1>4, <1>7, <2>2, <2>5 DEF NothingPending
  <2>11. AtResolve(m)
    BY <2>3, <2>5, <2>7, <2>8, <2>9, <2>10 DEF AtResolve
  <2>12. Good(m)
    BY <2>2, <2>11 DEF Good
  <2> QED
    BY <2>12 DEF m
<1> QED
  BY <1>3, <1>5, <1>6, <1>7

\* From a settled page to its books, or past it if it has none.
LEMMA StoringGood ==
  ASSUME NEW l, Stored(l)
  PROVE  Good(Storing(l))
<1>1. CASE l.todo = {}
  BY <1>1, AfterPageGood DEF Storing
<1>2. CASE l.todo # {}
  <2> DEFINE m == Storing(l)
  <2>1. m = [l EXCEPT !.at = "store"]
    BY <1>2 DEF Storing
  <2> HIDE DEF m
  <2>2. Common(l) /\ IsLoad(l) /\ Ahead(l)
    BY DEF Stored, Common
  <2>3. /\ m = [x \in LoadFields |-> m[x]] /\ m.at = "store"
        /\ m.terms = l.terms /\ m.job = l.job /\ m.left = l.left /\ m.total = l.total
        /\ m.imported = l.imported /\ m.failed = l.failed /\ m.readable = l.readable
        /\ m.truncated = l.truncated /\ m.down = l.down /\ m.got = l.got
        /\ m.guessed = l.guessed /\ m.dropped = l.dropped /\ m.page = l.page
        /\ m.pages = l.pages /\ m.unavailable = l.unavailable /\ m.todo = l.todo
        /\ m.more = l.more
    BY <2>1, <2>2 DEF IsLoad, LoadFields
  <2>4. /\ Common(m) /\ Here(m) = Here(l) /\ Begin(m) = Begin(l) /\ End(m) = End(l)
        /\ Done(m) = Done(l) /\ (Loads(m) <=> Loads(l))
    BY <2>2, <2>3, CommonKept
  <2>5. Ahead(m)
    BY <2>2, <2>3, <2>4, AheadKept DEF Common
  <2>6. NothingPending(m)
    BY <2>3 DEF Stored, NothingPending
  <2>7. Loads(m) =>
         /\ \A b \in m.todo : b.book.provider = Here(m) /\ b.pos <= End(m)
         /\ WrittenTo(m, End(m)) /\ AnsweredTo(m, End(m)) /\ MoreMeans(m, m.more)
    BY <2>3, <2>4 DEF Stored, WrittenTo, AnsweredTo, MoreMeans, NeedsNoRequest
  <2>8. Stored(m)
    BY <2>3, <2>4, <2>5, <2>6, <2>7 DEF Stored
  <2>9. Good(m)
    BY <1>2, <2>3, <2>8 DEF Good
  <2> QED
    BY <2>9 DEF m
<1> QED
  BY <1>1, <1>2

-----------------------------------------------------------------------------
(* The pages are there.                                                    *)

\* Of pages of the providers, each at its own: the readable books are books of
\* some provider, and no two of them are at one place.
LEMMA ReadableOnes ==
  ASSUME NEW l, \A p \in Provider : l.pages[p] \in PagesBy(p)
  PROVE  /\ \A b \in ReadablePages(l) :
              \E p \in Provider : b \in l.pages[p].found /\ b \in FoundBy(p)
                                  /\ IsReadableContent(b.book)
         /\ \A b, c \in ReadablePages(l) : Place(b) = Place(c) => b = c
<1>1. \A p \in Provider : l.pages[p].found \in SUBSET FoundBy(p)
  BY DEF PagesBy
<1>2. \A b \in ReadablePages(l) :
        \E p \in Provider : b \in l.pages[p].found /\ b \in FoundBy(p)
                            /\ IsReadableContent(b.book)
  BY <1>1 DEF ReadablePages, ReadableOf
<1>3. ASSUME NEW b \in ReadablePages(l), NEW c \in ReadablePages(l), Place(b) = Place(c)
      PROVE  b = c
  <2>1. PICK p \in Provider : b \in l.pages[p].found /\ b \in FoundBy(p)
    BY <1>2
  <2>2. PICK q \in Provider : c \in l.pages[q].found /\ c \in FoundBy(q)
    BY <1>2
  <2>3. Place(b) = <<p, b.pos>> /\ Place(c) = <<q, c.pos>>
    BY <2>1, <2>2, PlaceOf
  <2>4. p = q /\ b.pos = c.pos
    <3>1. <<p, b.pos>> = <<q, c.pos>>
      BY <1>3, <2>3
    <3> QED
      BY <3>1
  <2> QED
    BY <2>1, <2>2, <2>4 DEF PagesBy
<1> QED
  BY <1>2, <1>3

\* The readable books of the pages are what is to be written: their places
\* are new.
LEMMA ReadyStored ==
  ASSUME NEW l, Ready(l), Loads(l) => Here(l) \notin l.unavailable,
         NEW m, m = [x \in LoadFields |-> m[x]],
         m.job = l.job, m.terms = l.terms, m.left = l.left, m.page = l.page,
         m.total = l.total, m.imported = l.imported, m.failed = l.failed,
         m.truncated = l.truncated, m.got = l.got, m.readable = l.readable,
         m.dropped = l.dropped, m.guessed = l.guessed,
         m.todo = ReadablePages(l), m.pages = NoPages, m.unavailable = {},
         Loads(l) => m.down = l.down /\ m.more = l.pages[Here(l)].more
  PROVE  Stored(m)
<1>1. Common(l) /\ IsLoad(l) /\ Ahead(l) /\ \A p \in Provider : l.pages[p] \in PagesBy(p)
  BY DEF Ready, Common
<1>2. /\ Common(m) /\ Here(m) = Here(l) /\ Begin(m) = Begin(l) /\ End(m) = End(l)
      /\ Done(m) = Done(l) /\ (Loads(m) <=> Loads(l))
  BY <1>1, CommonKept
<1>3. Ahead(m)
  BY <1>1, <1>2, AheadKept DEF Common
<1>4. NothingPending(m)
  BY DEF NothingPending
<1>5. /\ \A b \in m.todo : \E p \in Provider : b \in FoundBy(p) /\ IsReadableContent(b.book)
      /\ \A b, c \in m.todo : Place(b) = Place(c) => b = c
  BY <1>1, ReadableOnes
<1>6. m.job # "find" => m.readable = Done(m) \cup PlacesOf(m.todo)
  BY <1>2 DEF Ready
<1>7. ASSUME Loads(m)
      PROVE  /\ \A b \in m.todo : b.book.provider = Here(m) /\ b.pos <= End(m)
             /\ WrittenTo(m, End(m)) /\ AnsweredTo(m, End(m)) /\ MoreMeans(m, m.more)
             /\ PlacesOf(m.todo) \cap Done(m) = {}
  <2>1. /\ \A p \in Provider \ {Here(l)} : l.pages[p].found = {}
        /\ WrittenTo(l, Begin(l))
        /\ \A b \in l.pages[Here(l)].found : Begin(l) < b.pos /\ b.pos <= End(l)
        /\ AnsweredTo(l, End(l)) /\ MoreMeans(l, l.pages[Here(l)].more)
    BY <1>2, <1>7, EmptyPageBy DEF Ready
  <2>2. Begin(l) \in Nat /\ End(l) \in Nat /\ Begin(l) <= End(l)
    BY <1>1, HereBounds
  <2>3. \A b \in m.todo : /\ b \in FoundBy(Here(l)) /\ Begin(l) < b.pos /\ b.pos <= End(l)
                          /\ b.book.provider = Here(l) /\ Place(b) = <<Here(l), b.pos>>
                          /\ b.pos \in Nat
    <3> TAKE b \in m.todo
    <3>1. PICK p \in Provider : b \in l.pages[p].found /\ b \in FoundBy(p)
      BY <1>1, ReadableOnes
    <3>2. p = Here(l)
      BY <2>1, <3>1
    <3> QED
      BY <2>1, <3>1, <3>2, PlaceOf
  <2>4. WrittenTo(m, End(m))
    BY <1>2, <2>1, <2>2 DEF WrittenTo
  <2>5. AnsweredTo(m, End(m)) /\ MoreMeans(m, m.more)
    BY <1>2, <1>7, <2>1 DEF AnsweredTo, MoreMeans, NeedsNoRequest
  <2>6. \A b \in m.todo : Place(b) \notin Done(m)
    <3> SUFFICES ASSUME NEW b \in m.todo, Place(b) \in Done(m)
                 PROVE  FALSE
      OBVIOUS
    <3>1. <<Here(l), b.pos>> \in Done(l) /\ b.pos \in Nat /\ Begin(l) < b.pos
      BY <1>2, <2>3
    <3>2. b.pos <= Begin(l)
      BY <2>1, <3>1 DEF WrittenTo
    <3> QED
      BY <2>2, <3>1, <3>2
  <2> QED
    BY <1>2, <2>3, <2>4, <2>5, <2>6 DEF PlacesOf
<1>8. m.job # "find" => PlacesOf(m.todo) \cap Done(m) = {}
  <2>1. ~ Loads(m) => Done(m) = {}
    BY <1>2 DEF Ready
  <2> QED
    BY <1>7, <2>1
<1> QED
  BY <1>2, <1>3, <1>4, <1>5, <1>6, <1>7, <1>8 DEF Stored

\* When all answers are there the request goes on rightly.
LEMMA SettleGood ==
  ASSUME NEW l, Ready(l)
  PROVE  Good(Settle(l))
<1> DEFINE books == UNION {ReadableOf(l, p) : p \in Provider}
           h == First(l.left)
           result == [l EXCEPT !.todo = books, !.pages = NoPages, !.unavailable = {}]
<1>1. Common(l) /\ IsLoad(l) /\ Ahead(l) /\ books = ReadablePages(l) /\ h = Here(l)
  BY DEF Ready, Common, ReadablePages, Here
<1>2. /\ result = [x \in LoadFields |-> result[x]]
      /\ result.job = l.job /\ result.terms = l.terms /\ result.left = l.left
      /\ result.page = l.page /\ result.total = l.total /\ result.imported = l.imported
      /\ result.failed = l.failed /\ result.truncated = l.truncated /\ result.got = l.got
      /\ result.readable = l.readable /\ result.dropped = l.dropped
      /\ result.guessed = l.guessed /\ result.down = l.down
      /\ result.todo = books /\ result.pages = NoPages /\ result.unavailable = {}
  BY <1>1 DEF IsLoad, LoadFields
<1> HIDE DEF result
<1>3. CASE l.job = "find"
  <2>1. CASE books = {}
    <3>1. Settle(l) = [result EXCEPT !.at = "refused"]
      BY <1>3, <2>1 DEF Settle, result, Loads
    <3>2. Settle(l).at = "refused"
      BY <1>2, <3>1 DEF LoadFields
    <3> QED
      BY <3>2 DEF Good
  <2>2. CASE books # {}
    <3>1. Settle(l) = Storing(result)
      BY <1>3, <2>2 DEF Settle, result, Loads
    <3>2. Stored(result)
      BY <1>1, <1>2, <1>3, ReadyStored DEF Loads
    <3> QED
      BY <3>1, <3>2, StoringGood
  <2> QED
    BY <2>1, <2>2
<1>4. CASE l.job = "search"
  <2> DEFINE m == [result EXCEPT !.down = l.unavailable]
  <2>1. Settle(l) = Storing(m)
    BY <1>4 DEF Settle, result, Loads
  <2>2. /\ m = [x \in LoadFields |-> m[x]]
        /\ m.job = l.job /\ m.terms = l.terms /\ m.left = l.left
        /\ m.page = l.page /\ m.total = l.total /\ m.imported = l.imported
        /\ m.failed = l.failed /\ m.truncated = l.truncated /\ m.got = l.got
        /\ m.readable = l.readable /\ m.dropped = l.dropped
        /\ m.guessed = l.guessed
        /\ m.todo = books /\ m.pages = NoPages /\ m.unavailable = {}
    BY <1>2 DEF LoadFields
  <2> HIDE DEF m
  <2>3. Stored(m)
    BY <1>1, <1>4, <2>2, ReadyStored DEF Loads
  <2> QED
    BY <2>1, <2>3, StoringGood
<1>5. CASE Loads(l) /\ h \in l.unavailable
  <2> DEFINE m == [result EXCEPT !.down = l.down \cup {h}]
  <2>1. Settle(l) = NextProvider(m)
    BY <1>5 DEF Settle, result, Loads
  <2>2. /\ m = [x \in LoadFields |-> m[x]]
        /\ m.job = l.job /\ m.terms = l.terms /\ m.left = l.left
        /\ m.page = l.page /\ m.total = l.total /\ m.imported = l.imported
        /\ m.failed = l.failed /\ m.truncated = l.truncated /\ m.got = l.got
        /\ m.readable = l.readable /\ m.dropped = l.dropped
        /\ m.guessed = l.guessed /\ m.down = l.down \cup {h}
        /\ m.pages = NoPages /\ m.unavailable = {}
    BY <1>2 DEF LoadFields
  <2> HIDE DEF m
  <2>3. /\ Common(m) /\ Here(m) = Here(l) /\ Done(m) = Done(l) /\ Loads(m)
    BY <1>1, <1>5, <2>2, CommonKept
  <2>4. Ahead(m)
    BY <1>1, <1>5, <2>2, <2>3, AheadKept DEF Common
  <2>5. l.readable = Done(l)
    <3>1. \A p \in Provider : l.pages[p] = EmptyPage
      BY <1>1, <1>5 DEF Ready
    <3>2. ReadablePages(l) = {}
      BY <3>1, EmptyPageBy DEF ReadablePages, ReadableOf
    <3> QED
      BY <1>5, <3>2 DEF Ready, PlacesOf, Loads
  <2>6. Complete(m, Here(m))
    BY <1>1, <2>2, <2>3 DEF Complete
  <2>7. /\ \A p \in Provider \ m.left : Complete(m, p)
        /\ m.truncated => \E p \in (Provider \ m.left) \cup {Here(m)} : Beyond(m, p)
        /\ \A p \in m.left \ {Here(m)} : Untouched(m, p)
    BY <2>3, <2>4 DEF Ahead
  <2>8. Good(NextProvider(m))
    BY <2>2, <2>3, <2>5, <2>6, <2>7, NextProviderGood DEF NothingPending
  <2> QED
    BY <2>1, <2>8
<1>6. CASE Loads(l) /\ h \notin l.unavailable
  <2> DEFINE m == [result EXCEPT !.more = l.pages[h].more]
  <2>1. Settle(l) = Storing(m)
    BY <1>6 DEF Settle, result, Loads
  <2>2. /\ m = [x \in LoadFields |-> m[x]]
        /\ m.job = l.job /\ m.terms = l.terms /\ m.left = l.left
        /\ m.page = l.page /\ m.total = l.total /\ m.imported = l.imported
        /\ m.failed = l.failed /\ m.truncated = l.truncated /\ m.got = l.got
        /\ m.readable = l.readable /\ m.dropped = l.dropped
        /\ m.guessed = l.guessed /\ m.down = l.down
        /\ m.todo = books /\ m.pages = NoPages /\ m.unavailable = {}
    BY <1>2 DEF LoadFields
  <2>3. m.more = l.pages[h].more
    BY <1>2 DEF LoadFields
  <2> HIDE DEF m
  <2>4. Stored(m)
    BY <1>1, <1>6, <2>2, <2>3, ReadyStored
  <2> QED
    BY <2>1, <2>4, StoringGood
<1> QED
  BY <1>1, <1>3, <1>4, <1>5, <1>6 DEF IsLoad, Job, Loads

-----------------------------------------------------------------------------
(* What a provider answers.                                                *)

\* The books of a page are at the positions that could be mapped.
LEMMA MappedFound ==
  ASSUME NEW p \in Provider, NEW W \in SUBSET Nat, NEW results \in [W -> ItemsOf[p]]
  PROVE  /\ Mapped(results, p) \in SUBSET FoundBy(p)
         /\ \A b, c \in Mapped(results, p) : b.pos = c.pos => b = c
         /\ \A b \in Mapped(results, p) : b.pos \in MappedAt(results, p)
         /\ \A i \in MappedAt(results, p) : \E b \in Mapped(results, p) : b.pos = i
         /\ MappedAt(results, p) \in SUBSET W
<1>1. MappedAt(results, p) \in SUBSET W
  BY DEF MappedAt
<1>2. \A b \in Mapped(results, p) :
        \E i \in MappedAt(results, p) : b = [pos |-> i, book |-> BookOf[p][results[i]]]
  BY DEF Mapped, Position
<1>3. \A i \in MappedAt(results, p) : BookOf[p][results[i]] \in BooksBy(p)
  BY DEF MappedAt, BooksBy
<1>4. Mapped(results, p) \in SUBSET FoundBy(p)
  <2> SUFFICES ASSUME NEW b \in Mapped(results, p)
               PROVE  b \in FoundBy(p)
    OBVIOUS
  <2>1. PICK i \in MappedAt(results, p) : b = [pos |-> i, book |-> BookOf[p][results[i]]]
    BY <1>2
  <2>2. i \in Nat /\ BookOf[p][results[i]] \in BooksBy(p)
    BY <1>1, <1>3
  <2> QED
    BY <2>1, <2>2 DEF FoundBy
<1>5. \A b, c \in Mapped(results, p) : b.pos = c.pos => b = c
  BY <1>2
<1>6. \A b \in Mapped(results, p) : b.pos \in MappedAt(results, p)
  BY <1>2
<1>7. ASSUME NEW i \in MappedAt(results, p)
      PROVE  \E b \in Mapped(results, p) : b.pos = i
  <2> DEFINE book == BookOf[p][results[i]]
             b == [pos |-> i, book |-> book]
  <2>1. b \in Mapped(results, p)
    BY DEF Mapped, Position
  <2> HIDE DEF book
  <2>2. b.pos = i
    OBVIOUS
  <2> QED
    BY <2>1, <2>2
<1> QED
  BY <1>1, <1>4, <1>5, <1>6, <1>7

\* A page has as many books as positions that could be mapped.
LEMMA MappedCount ==
  ASSUME NEW p \in Provider, NEW W \in SUBSET Nat, NEW results \in [W -> ItemsOf[p]],
         IsFiniteSet(W)
  PROVE  /\ IsFiniteSet(MappedAt(results, p))
         /\ Cardinality(Mapped(results, p)) = Cardinality(MappedAt(results, p))
<1> DEFINE M == MappedAt(results, p)
           B == Mapped(results, p)
           at(i) == CHOOSE b \in B : b.pos = i
           f == [i \in M |-> at(i)]
<1>1. IsFiniteSet(M)
  BY MappedFound, FS_Subset
<1>2. /\ \A b, c \in B : b.pos = c.pos => b = c
      /\ \A b \in B : b.pos \in M
      /\ \A i \in M : \E b \in B : b.pos = i
  BY MappedFound
<1> HIDE DEF M, B
<1>3. \A i \in M : at(i) \in B /\ at(i).pos = i
  BY <1>2
<1> HIDE DEF at
<1>4. f \in [M -> B] /\ \A i \in M : f[i].pos = i
  BY <1>3
<1> HIDE DEF f
<1>5. \A i, j \in M : f[i] = f[j] => i = j
  BY <1>4
<1>6. \A b \in B : \E i \in M : f[i] = b
  BY <1>2, <1>4
<1>7. f \in Bijection(M, B)
  BY <1>4, <1>5, <1>6 DEF Bijection, Injection, Surjection, IsInjective
<1>8. ExistsBijection(M, B)
  BY <1>7 DEF ExistsBijection
<1>9. Cardinality(B) = Cardinality(M)
  BY <1>1, <1>8, FS_Bijection
<1> QED
  BY <1>1, <1>9 DEF M, B

\* The window of a page, and how full it is.
LEMMA WindowCount ==
  ASSUME NEW p \in Provider, NEW k \in Nat \ {0}, NEW total \in Nat
  PROVE  LET W == Window(p, k, total)
         IN /\ W \in SUBSET Nat /\ IsFiniteSet(W)
            /\ \A M \in SUBSET W :
                  /\ Cardinality(M) = SizeOf(p) => total >= k * SizeOf(p)
                  /\ M = W /\ Cardinality(M) # SizeOf(p) => total <= k * SizeOf(p)
<1> DEFINE W == Window(p, k, total)
           S == SizeOf(p)
           a == StartOf(p, k)
           e == k * SizeOf(p)
           I == a + 1..e
<1>1. S \in Nat \ {0} /\ a \in Nat /\ e \in Nat /\ a + S = e
  BY PageBounds
<1>2. W = {i \in 1..total : a < i /\ i <= e}
  BY <1>1 DEF Window
<1> HIDE DEF S, a, e, W
<1>3. IsFiniteSet(I) /\ Cardinality(I) = S
  BY <1>1, FS_Interval
<1>4. W \in SUBSET I /\ W \in SUBSET Nat
  BY <1>1, <1>2
<1>5. IsFiniteSet(W)
  BY <1>3, <1>4, FS_Subset
<1>6. ASSUME NEW M \in SUBSET W, Cardinality(M) = S
      PROVE  total >= e
  <2>1. M \in SUBSET I
    BY <1>4
  <2> HIDE DEF I
  <2>2. M = I
    BY <1>3, <1>6, <2>1, FS_Subset
  <2>3. e \in I
    BY <1>1 DEF I
  <2> QED
    BY <1>1, <1>2, <2>2, <2>3
<1>7. ASSUME Cardinality(W) # S
      PROVE  total <= e
  <2> SUFFICES ASSUME ~ (total <= e)
               PROVE  FALSE
    OBVIOUS
  <2>1. W = I
    BY <1>1, <1>2
  <2> QED
    BY <1>3, <1>7, <2>1
<1>8. /\ W \in SUBSET Nat /\ IsFiniteSet(W)
      /\ \A M \in SUBSET W :
            /\ Cardinality(M) = S => total >= e
            /\ M = W /\ Cardinality(M) # S => total <= e
  BY <1>4, <1>5, <1>6, <1>7
<1> QED
  BY <1>8 DEF W, S, e

\* Whether a page says that there is another, and when it errs.
LEMMA SearchMore ==
  ASSUME NEW p \in Provider, NEW k \in Nat \ {0}, NEW total \in Nat,
         NEW results \in [Window(p, k, total) -> ItemsOf[p]], NEW told \in Told(p)
  PROVE  LET page == SearchOf(p, results, k, total, told)
         IN /\ page \in PagesBy(p) /\ page.found = Mapped(results, p)
            /\ ~ page.more => \/ total <= k * SizeOf(p)
                              \/ ~ told /\ MappedAt(results, p) # DOMAIN results
            /\ page.more => \/ total > k * SizeOf(p)
                            \/ ~ told /\ total = k * SizeOf(p)
<1> DEFINE page == SearchOf(p, results, k, total, told)
           W == Window(p, k, total)
           B == Mapped(results, p)
           M == MappedAt(results, p)
           e == k * SizeOf(p)
           full == Cardinality(B) = SizeOf(p)
           next == k * SizeOf(p) < total
<1>1. W \in SUBSET Nat /\ IsFiniteSet(W) /\ DOMAIN results = W
  BY WindowCount
<1>2. /\ B \in SUBSET FoundBy(p)
      /\ \A b, c \in B : b.pos = c.pos => b = c
      /\ M \in SUBSET W
  BY <1>1, MappedFound
<1>3. Cardinality(B) = Cardinality(M)
  BY <1>1, MappedCount
<1>4. e \in Nat
  BY PageBounds
<1>5. full => total >= e
  BY <1>2, <1>3, WindowCount
<1>6. ~ full /\ M = DOMAIN results => total <= e
  BY <1>1, <1>2, <1>3, WindowCount
<1>7. \/ told /\ page = [found |-> B, more |-> next]
      \/ ~ told /\ page = [found |-> B, more |-> full]
  <2>1. CASE p = "GUTENDEX"
    BY <2>1 DEF SearchOf, GutendexSearch, Told, SizeOf
  <2>2. CASE p = "STANDARD_EBOOKS"
    BY <2>2 DEF SearchOf, StandardEbooksSearch, Told, SizeOf
  <2>3. CASE p = "ARXIV"
    <3>1. told \in BOOLEAN
      BY <2>3 DEF Told
    <3> QED
      BY <2>3, <3>1 DEF SearchOf, ArxivSearch, SizeOf
  <2>4. CASE p = "OPENALEX"
    <3>1. told \in BOOLEAN
      BY <2>4 DEF Told
    <3> QED
      BY <2>4, <3>1 DEF SearchOf, OpenAlexSearch, SizeOf
  <2> QED
    BY <2>1, <2>2, <2>3, <2>4 DEF Provider
<1> HIDE DEF page, W, B, M, full, next
<1>8. page.found = B
  BY <1>7
<1>9. (told /\ (page.more <=> next)) \/ (~ told /\ (page.more <=> full))
  BY <1>7
<1>10. page \in PagesBy(p)
  <2>1. full \in BOOLEAN /\ next \in BOOLEAN
    BY DEF full, next
  <2> QED
    BY <1>2, <1>7, <2>1 DEF PagesBy
<1>11. ~ page.more => total <= e \/ (~ told /\ M # DOMAIN results)
  BY <1>4, <1>6, <1>9 DEF next
<1>12. page.more => total > e \/ (~ told /\ total = e)
  BY <1>4, <1>5, <1>9 DEF next
<1> QED
  BY <1>8, <1>10, <1>11, <1>12 DEF page, B, M

-----------------------------------------------------------------------------
(* An answer, or none.                                                     *)
LEMMA AnsweredGood ==
  ASSUME NEW l, l.at = "ask", AtAsk(l), NEW p \in l.waiting, NEW page \in PagesBy(p),
         NEW m, m = [x \in LoadFields |-> m[x]],
         m.at = l.at, m.job = l.job, m.terms = l.terms, m.left = l.left, m.page = l.page,
         m.waiting = l.waiting, m.pages = l.pages, m.unavailable = l.unavailable,
         m.total = l.total, m.imported = l.imported, m.failed = l.failed,
         m.truncated = l.truncated, m.down = l.down,
         l.got \subseteq m.got, l.dropped \subseteq m.dropped, l.guessed \subseteq m.guessed,
         l.job # "find" =>
            m.readable = l.readable
                         \cup PlacesOf({b \in page.found : IsReadableContent(b.book)}),
         Loads(l) => /\ \A b \in page.found : Begin(l) < b.pos /\ b.pos <= End(l)
                     /\ AnsweredTo(m, End(l)) /\ MoreMeans(m, page.more)
  PROVE  Good(Answered(m, p, page))
<1> DEFINE rest == [m EXCEPT !.waiting = m.waiting \ {p}, !.pages[p] = page]
           new == {b \in page.found : IsReadableContent(b.book)}
<1>1. /\ Common(l) /\ IsLoad(l) /\ Ahead(l) /\ p \in Provider
      /\ l.pages = [q \in Provider |-> l.pages[q]]
      /\ \A q \in Provider : l.pages[q] \in PagesBy(q)
      /\ l.pages[p] = EmptyPage
  BY DEF AtAsk, Common
<1>2. /\ rest = [x \in LoadFields |-> rest[x]]
      /\ rest.at = "ask" /\ rest.job = l.job /\ rest.terms = l.terms /\ rest.left = l.left
      /\ rest.page = l.page /\ rest.unavailable = l.unavailable /\ rest.total = l.total
      /\ rest.imported = l.imported /\ rest.failed = l.failed
      /\ rest.truncated = l.truncated /\ rest.down = l.down /\ rest.got = m.got
      /\ rest.dropped = m.dropped /\ rest.guessed = m.guessed /\ rest.readable = m.readable
      /\ rest.waiting = l.waiting \ {p} /\ rest.pages = [l.pages EXCEPT ![p] = page]
  BY DEF LoadFields
<1>3. Answered(m, p, page) = IF rest.waiting = {} THEN Settle(rest) ELSE rest
  BY DEF Answered
<1> HIDE DEF rest
<1>4. /\ rest.pages = [q \in Provider |-> rest.pages[q]]
      /\ rest.pages[p] = page
      /\ \A q \in Provider : q # p => rest.pages[q] = l.pages[q]
  BY <1>1, <1>2
<1>5. \A q \in Provider : rest.pages[q] \in PagesBy(q)
  BY <1>1, <1>4
<1>6. /\ Common(rest) /\ Here(rest) = Here(l) /\ Begin(rest) = Begin(l)
      /\ End(rest) = End(l) /\ Done(rest) = Done(l) /\ (Loads(rest) <=> Loads(l))
  BY <1>1, <1>2, CommonKept
<1>7. Ahead(rest)
  BY <1>1, <1>2, <1>6, AheadKept DEF Common
<1>8. ReadablePages(rest) = ReadablePages(l) \cup new
  <2>1. ReadableOf(l, p) = {} /\ ReadableOf(rest, p) = new
    BY <1>1, <1>4, EmptyPageBy DEF ReadableOf
  <2>2. \A q \in Provider : q # p => ReadableOf(rest, q) = ReadableOf(l, q)
    BY <1>4 DEF ReadableOf
  <2> QED
    BY <1>1, <2>1, <2>2 DEF ReadablePages
<1>9. rest.job # "find" => rest.readable = Done(rest) \cup PlacesOf(ReadablePages(rest))
  BY <1>2, <1>6, <1>8 DEF AtAsk, PlacesOf
<1>10. ~ Loads(rest) => Done(rest) = {}
  BY <1>6 DEF AtAsk
<1>11. CASE rest.waiting = {}
  <2>1. ASSUME Loads(rest)
        PROVE  /\ \A q \in Provider \ {Here(rest)} : rest.pages[q] = EmptyPage
               /\ WrittenTo(rest, Begin(rest))
               /\ \A b \in rest.pages[Here(rest)].found :
                     Begin(rest) < b.pos /\ b.pos <= End(rest)
               /\ Here(rest) \notin rest.unavailable
               /\ AnsweredTo(rest, End(rest)) /\ MoreMeans(rest, rest.pages[Here(rest)].more)
    <3>1. Loads(l) /\ p = Here(l) /\ l.pages = NoPages /\ l.unavailable = {}
      BY <1>6, <2>1 DEF AtAsk, NothingPending
    <3>2. \A q \in Provider \ {Here(rest)} : rest.pages[q] = EmptyPage
      BY <1>4, <1>6, <3>1 DEF NoPages
    <3>3. WrittenTo(rest, Begin(rest))
      BY <1>6, <3>1 DEF AtAsk, WrittenTo
    <3>4. AnsweredTo(rest, End(rest))
      BY <1>2, <1>6, <3>1 DEF AnsweredTo, Here
    <3>5. MoreMeans(rest, page.more)
      BY <1>2, <1>6, <3>1 DEF MoreMeans, NeedsNoRequest, Here, End
    <3> QED
      BY <1>2, <1>4, <1>6, <3>1, <3>2, <3>3, <3>4, <3>5
  <2>2. Ready(rest)
    BY <1>4, <1>5, <1>6, <1>7, <1>9, <1>10, <2>1 DEF Ready
  <2> QED
    BY <1>3, <1>11, <2>2, SettleGood
<1>12. CASE rest.waiting # {}
  <2>1. ~ Loads(rest)
    BY <1>2, <1>6, <1>12 DEF AtAsk
  <2>2. /\ rest.waiting \in SUBSET Provider
        /\ \A q \in rest.waiting : ~ NeedsNoRequest(rest, q) /\ rest.pages[q] = EmptyPage
    BY <1>2, <1>4 DEF AtAsk, NeedsNoRequest
  <2>3. AtAsk(rest)
    BY <1>4, <1>5, <1>6, <1>7, <1>9, <1>10, <1>12, <2>1, <2>2 DEF AtAsk
  <2> QED
    BY <1>2, <1>3, <1>12, <2>3 DEF Good
<1> QED
  BY <1>11, <1>12

\* A provider that failed leaves nothing but its mark.
LEMMA FailedGood ==
  ASSUME NEW l, l.at = "ask", AtAsk(l), NEW p \in l.waiting
  PROVE  Good(Failed(l, p))
<1> DEFINE rest == [l EXCEPT !.waiting = l.waiting \ {p},
                             !.unavailable = l.unavailable \cup {p}]
<1>1. /\ Common(l) /\ IsLoad(l) /\ Ahead(l) /\ p \in Provider
  BY DEF AtAsk, Common
<1>2. /\ rest = [x \in LoadFields |-> rest[x]]
      /\ rest.at = "ask" /\ rest.job = l.job /\ rest.terms = l.terms /\ rest.left = l.left
      /\ rest.page = l.page /\ rest.unavailable = l.unavailable \cup {p}
      /\ rest.total = l.total /\ rest.imported = l.imported /\ rest.failed = l.failed
      /\ rest.truncated = l.truncated /\ rest.down = l.down /\ rest.got = l.got
      /\ rest.dropped = l.dropped /\ rest.guessed = l.guessed /\ rest.readable = l.readable
      /\ rest.waiting = l.waiting \ {p} /\ rest.pages = l.pages
  BY <1>1 DEF IsLoad, LoadFields
<1>3. Failed(l, p) = IF rest.waiting = {} THEN Settle(rest) ELSE rest
  BY DEF Failed
<1> HIDE DEF rest
<1>4. /\ Common(rest) /\ Here(rest) = Here(l) /\ Begin(rest) = Begin(l)
      /\ End(rest) = End(l) /\ Done(rest) = Done(l) /\ (Loads(rest) <=> Loads(l))
  BY <1>1, <1>2, CommonKept
<1>5. Ahead(rest)
  BY <1>1, <1>2, <1>4, AheadKept DEF Common
<1>6. rest.job # "find" => rest.readable = Done(rest) \cup PlacesOf(ReadablePages(rest))
  <2>1. ReadablePages(rest) = ReadablePages(l)
    BY <1>2 DEF ReadablePages, ReadableOf
  <2> QED
    BY <1>2, <1>4, <2>1 DEF AtAsk
<1>7. /\ ~ Loads(rest) => Done(rest) = {}
      /\ rest.pages = [q \in Provider |-> rest.pages[q]]
      /\ \A q \in Provider : rest.pages[q] \in PagesBy(q)
  BY <1>2, <1>4 DEF AtAsk
<1>8. CASE rest.waiting = {}
  <2>1. ASSUME Loads(rest)
        PROVE  /\ \A q \in Provider : rest.pages[q] = EmptyPage
               /\ WrittenTo(rest, Begin(rest))
               /\ Here(rest) \in Provider
               /\ Here(rest) \in rest.unavailable
    <3>1. Loads(l) /\ p = Here(l) /\ l.pages = NoPages
      BY <1>4, <2>1 DEF AtAsk, NothingPending
    <3>2. \A q \in Provider : rest.pages[q] = EmptyPage
      BY <1>2, <3>1 DEF NoPages
    <3>3. WrittenTo(rest, Begin(rest))
      BY <1>4, <3>1 DEF AtAsk, WrittenTo
    <3> QED
      BY <1>1, <1>2, <1>4, <3>1, <3>2, <3>3
  <2>2. Loads(rest) => rest.pages[Here(rest)].found = {}
    BY <2>1, EmptyPageBy
  <2>3. Ready(rest)
    BY <1>4, <1>5, <1>6, <1>7, <2>1, <2>2 DEF Ready
  <2> QED
    BY <1>3, <1>8, <2>3, SettleGood
<1>9. CASE rest.waiting # {}
  <2>1. ~ Loads(rest)
    BY <1>2, <1>4, <1>9 DEF AtAsk
  <2>2. /\ rest.waiting \in SUBSET Provider
        /\ \A q \in rest.waiting : ~ NeedsNoRequest(rest, q) /\ rest.pages[q] = EmptyPage
    BY <1>2 DEF AtAsk, NeedsNoRequest
  <2>3. AtAsk(rest)
    BY <1>4, <1>5, <1>6, <1>7, <1>9, <2>1, <2>2 DEF AtAsk
  <2> QED
    BY <1>2, <1>3, <1>9, <2>3 DEF Good
<1> QED
  BY <1>8, <1>9

\* A response to a lookup.
LEMMA AnswerFindGood ==
  ASSUME NEW l, l.at = "ask", AtAsk(l), l.job = "find", NEW p \in l.waiting,
         NEW found \in SUBSET Nat, NEW results \in [found -> ItemsOf[p]],
         found # {} => 1 \in found \/ p = "STANDARD_EBOOKS"
  PROVE  Good(AnswerFind(l, p, results))
<1> DEFINE book == FindOf(p, results)
           page == [found |-> IF book = None THEN {} ELSE {Position(1, book)}, more |-> FALSE]
<1>1. p \in Provider /\ IsLoad(l) /\ ~ Loads(l)
  BY DEF AtAsk, Common, Loads
<1>2. book # None => 1 \in found /\ book = BookOf[p][results[1]]
  BY <1>1 DEF FindOf, GutendexFind, StandardEbooksFind, ArxivFind, OpenAlexFind, Provider
<1> HIDE DEF book
<1>3. book # None => book \in BooksBy(p)
  BY <1>2 DEF BooksBy
<1>4. book # None => Position(1, book) \in FoundBy(p)
  BY <1>3 DEF FoundBy, Position
<1>5. page \in PagesBy(p)
  BY <1>4 DEF PagesBy
<1>6. AnswerFind(l, p, results) = Answered(l, p, page)
  BY DEF AnswerFind, book
<1> HIDE DEF page
<1>7. l = [x \in LoadFields |-> l[x]]
  BY <1>1 DEF IsLoad
<1> QED
  BY <1>1, <1>5, <1>6, <1>7, AnsweredGood

\* A response to a search.
LEMMA AnswerSearchGood ==
  ASSUME NEW l, l.at = "ask", AtAsk(l), l.job # "find", NEW p \in l.waiting,
         NEW results \in [Window(p, l.page, l.total[p]) -> ItemsOf[p]], NEW told \in Told(p)
  PROVE  Good(AnswerSearch(l, p, results, told))
<1> DEFINE page == SearchOf(p, results, l.page, l.total[p], told)
           readable == {b \in page.found : IsReadableContent(b.book)}
           W == Window(p, l.page, l.total[p])
           M == MappedAt(results, p)
           got == l.got \cup {<<p, i>> : i \in DOMAIN results}
           dropped == l.dropped \cup (IF M = DOMAIN results THEN {} ELSE {p})
           guessed == l.guessed \cup (IF told THEN {} ELSE {p})
           m == [l EXCEPT !.got = got,
                          !.readable = l.readable \cup {Place(b) : b \in readable},
                          !.dropped = dropped,
                          !.guessed = guessed]
<1>1. /\ p \in Provider /\ IsLoad(l) /\ l.page \in Nat \ {0} /\ l.total[p] \in Nat
      /\ DOMAIN results = W
  BY DEF AtAsk, Common, IsLoad
<1>2. AnswerSearch(l, p, results, told) = Answered(m, p, page)
  BY DEF AnswerSearch
<1>3. /\ page \in PagesBy(p) /\ page.found = Mapped(results, p)
      /\ ~ page.more => \/ l.total[p] <= l.page * SizeOf(p)
                        \/ ~ told /\ M # DOMAIN results
      /\ page.more => \/ l.total[p] > l.page * SizeOf(p)
                      \/ ~ told /\ l.total[p] = l.page * SizeOf(p)
  BY <1>1, SearchMore
<1>4. W \in SUBSET Nat
  BY <1>1, WindowCount
<1>5. \A b \in page.found : b.pos \in W
  BY <1>1, <1>3, <1>4, MappedFound
<1> HIDE DEF page
<1>6. /\ m = [x \in LoadFields |-> m[x]] /\ m.at = l.at /\ m.job = l.job
      /\ m.terms = l.terms /\ m.left = l.left /\ m.page = l.page /\ m.waiting = l.waiting
      /\ m.pages = l.pages /\ m.unavailable = l.unavailable /\ m.total = l.total
      /\ m.imported = l.imported /\ m.failed = l.failed /\ m.truncated = l.truncated
      /\ m.down = l.down /\ m.got = got /\ m.dropped = dropped /\ m.guessed = guessed
      /\ m.readable = l.readable \cup PlacesOf(readable)
  <2> HIDE DEF got, dropped, guessed, readable
  <2> QED
    BY <1>1 DEF IsLoad, LoadFields, PlacesOf
<1> HIDE DEF m
<1>7. ASSUME Loads(l)
      PROVE  /\ \A b \in page.found : Begin(l) < b.pos /\ b.pos <= End(l)
             /\ AnsweredTo(m, End(l)) /\ MoreMeans(m, page.more)
  <2>1. p = Here(l) /\ AnsweredTo(l, Begin(l)) /\ ~ NeedsNoRequest(l, p)
    BY <1>7 DEF AtAsk
  <2>2. Here(m) = p /\ End(m) = End(l) /\ l.page * SizeOf(p) = End(l)
    BY <1>6, <2>1 DEF Here, End
  <2>3. /\ Begin(l) \in Nat /\ End(l) \in Nat
        /\ W = {i \in 1..l.total[p] : Begin(l) < i /\ i <= End(l)}
    <3>1. Begin(l) \in Nat /\ End(l) \in Nat /\ Begin(l) + SizeOf(p) = End(l)
      BY <1>1, <2>1, HereBounds
    <3>2. StartOf(p, l.page) = Begin(l)
      BY <2>1 DEF Begin
    <3> QED
      BY <3>1, <3>2 DEF Window
  <2>4. \A b \in page.found : Begin(l) < b.pos /\ b.pos <= End(l)
    BY <1>5, <2>3
  <2>5. AnsweredTo(m, End(l))
    <3> SUFFICES ASSUME NEW i \in 1..l.total[p], i <= End(l)
                 PROVE  <<p, i>> \in got
      BY <1>6, <2>2 DEF AnsweredTo
    <3>1. CASE i <= Begin(l)
      BY <2>1, <3>1 DEF AnsweredTo
    <3>2. CASE ~ (i <= Begin(l))
      <4>1. i \in W
        BY <1>1, <2>3, <3>2
      <4> QED
        BY <1>1, <4>1
    <3> QED
      BY <3>1, <3>2
  <2>6. MoreMeans(m, page.more)
    <3>1. ~ told => p \in m.guessed
      BY <1>6
    <3>2. M # DOMAIN results => p \in m.dropped
      BY <1>6
    <3>3. ~ page.more => p \in m.guessed \cap m.dropped \/ m.total[p] <= End(m)
      BY <1>3, <1>6, <2>2, <3>1, <3>2
    <3>4. page.more => ~ NeedsNoRequest(m, p)
      BY <1>6, <2>1 DEF NeedsNoRequest
    <3>5. page.more => m.total[p] > End(m) \/ (p \in m.guessed /\ m.total[p] = End(m))
      BY <1>3, <1>6, <2>2, <3>1
    <3> QED
      BY <2>2, <3>3, <3>4, <3>5 DEF MoreMeans
  <2> QED
    BY <2>4, <2>5, <2>6
<1>8. /\ l.got \subseteq m.got /\ l.dropped \subseteq m.dropped
      /\ l.guessed \subseteq m.guessed
  BY <1>6
<1>9. m.readable = l.readable
                   \cup PlacesOf({b \in page.found : IsReadableContent(b.book)})
  BY <1>6
<1>10. Good(Answered(m, p, page))
  <2> HIDE DEF got, dropped, guessed, readable
  <2> QED
    BY <1>3, <1>6, <1>7, <1>8, <1>9, AnsweredGood
<1> QED
  BY <1>2, <1>10

-----------------------------------------------------------------------------
(* A page is asked for.                                                    *)
LEMMA TotalsKept ==
  ASSUME NEW l, AtResolve(l), NEW asked \in SUBSET Provider, NEW total \in Sizes(l, asked)
  PROVE  /\ total \in [Provider -> Nat]
         /\ \A p \in Provider \ asked : total[p] = l.total[p]
         /\ l.page > 1 \/ l.job = "find" => total = l.total
<1>1. l.total \in [Provider -> Nat]
  BY DEF AtResolve, Common, IsLoad
<1>2. CASE l.page > 1 \/ l.job = "find"
  BY <1>1, <1>2 DEF Sizes
<1>3. CASE ~ (l.page > 1 \/ l.job = "find")
  <2>1. total \in [Provider -> 0..MaxTotal]
        /\ \A p \in Provider : p \notin asked => total[p] = l.total[p]
    BY <1>3 DEF Sizes
  <2>2. total \in [Provider -> Nat]
    BY <2>1, CatalogAssumption
  <2> QED
    BY <1>3, <2>1, <2>2
<1> QED
  BY <1>2, <1>3

\* A request that consults providers, or finds that none needs asking.
LEMMA ConsultGood ==
  ASSUME NEW l, l.at = "resolve", AtResolve(l), NEW consulted \in SUBSET Provider,
         Loads(l) => consulted = {Here(l)},
         NEW asked, asked = {p \in consulted : ~ NeedsNoRequest(l, p)},
         NEW total \in Sizes(l, asked),
         NEW m, m = [l EXCEPT !.at = "ask", !.waiting = asked, !.total = total]
  PROVE  Good(IF asked = {} THEN Settle(m) ELSE m)
<1>1. Common(l) /\ IsLoad(l) /\ Ahead(l) /\ NothingPending(l)
  BY DEF AtResolve, Common
<1>2. /\ total \in [Provider -> Nat]
      /\ \A p \in Provider \ asked : total[p] = l.total[p]
      /\ l.page > 1 => total = l.total
  BY TotalsKept
<1>3. /\ m = [x \in LoadFields |-> m[x]]
      /\ m.at = "ask" /\ m.job = l.job /\ m.terms = l.terms /\ m.left = l.left
      /\ m.page = l.page /\ m.unavailable = l.unavailable /\ m.total = total
      /\ m.imported = l.imported /\ m.failed = l.failed
      /\ m.truncated = l.truncated /\ m.down = l.down /\ m.got = l.got
      /\ m.dropped = l.dropped /\ m.guessed = l.guessed /\ m.readable = l.readable
      /\ m.waiting = asked /\ m.pages = l.pages
  BY <1>1 DEF IsLoad, LoadFields
<1>4. IsLoad(m)
  BY <1>1, <1>2, <1>3 DEF IsLoad
<1>5. /\ Common(m) /\ Here(m) = Here(l) /\ Begin(m) = Begin(l) /\ End(m) = End(l)
      /\ Done(m) = Done(l) /\ (Loads(m) <=> Loads(l))
  BY <1>1, <1>3, <1>4 DEF Common, Loads, Here, Begin, End, Done
<1>6. Ahead(m)
  <2>1. \A p \in Provider : Loads(l) /\ p # Here(l) => m.total[p] = l.total[p]
    BY <1>2, <1>3
  <2> QED
    BY <1>1, <1>3, <1>5, <2>1, AheadKept DEF Common
<1>7. /\ m.pages = [p \in Provider |-> m.pages[p]]
      /\ \A p \in Provider : m.pages[p] = EmptyPage /\ m.pages[p] \in PagesBy(p)
  <2>1. m.pages = [p \in Provider |-> EmptyPage]
    BY <1>1, <1>3 DEF NothingPending, NoPages
  <2>2. \A p \in Provider : EmptyPage \in PagesBy(p)
    BY EmptyPageBy
  <2> QED
    BY <2>1, <2>2
<1>8. ReadablePages(m) = {} /\ PlacesOf(ReadablePages(m)) = {}
  <2>1. \A p \in Provider : ReadableOf(m, p) = {}
    BY <1>7, EmptyPageBy DEF ReadableOf
  <2>2. ReadablePages(m) = {}
    <3> SUFFICES ASSUME NEW b \in ReadablePages(m)
                 PROVE  FALSE
      OBVIOUS
    <3>1. PICK p \in Provider : b \in ReadableOf(m, p)
      BY DEF ReadablePages
    <3> QED
      BY <2>1, <3>1
  <2> QED
    BY <2>2 DEF PlacesOf
<1>9. /\ m.job # "find" => m.readable = Done(m) \cup PlacesOf(ReadablePages(m))
      /\ ~ Loads(m) => Done(m) = {}
  BY <1>3, <1>5, <1>8 DEF AtResolve
<1>10. ASSUME Loads(m)
       PROVE  /\ WrittenTo(m, Begin(m)) /\ AnsweredTo(m, Begin(m))
              /\ NothingPending(m) /\ asked \in SUBSET {Here(m)}
              /\ asked = {} => AnsweredTo(m, End(m)) /\ MoreMeans(m, FALSE)
  <2>1. Here(m) \in Provider /\ Begin(m) \in Nat /\ End(m) \in Nat /\ m.page \in Nat \ {0}
        /\ (m.page = 1 => Begin(m) = 0) /\ total[Here(m)] \in Nat
    BY <1>2, <1>4, HereBounds DEF IsLoad
  <2>2. WrittenTo(m, Begin(m)) /\ NothingPending(m) /\ asked \in SUBSET {Here(m)}
    BY <1>1, <1>3, <1>5, <1>10 DEF AtResolve, WrittenTo, NothingPending
  <2>3. AnsweredTo(m, Begin(m))
    <3>1. CASE l.page > 1
      BY <1>2, <1>3, <1>5, <1>10, <3>1 DEF AtResolve, AnsweredTo
    <3>2. CASE ~ (l.page > 1)
      <4>1. Begin(m) = 0
        BY <1>3, <2>1, <3>2
      <4> QED
        BY <1>3, <2>1, <4>1 DEF AnsweredTo
    <3> QED
      BY <3>1, <3>2
  <2>4. ASSUME asked = {}
        PROVE  total[Here(m)] = 0
    <3>1. NeedsNoRequest(l, Here(l))
      BY <1>5, <1>10, <2>4
    <3>2. l.page = 1
      BY <1>3, <1>5, <1>10, <2>1, <3>1 DEF AtResolve
    <3> QED
      BY <1>2, <1>5, <1>10, <2>1, <2>4, <3>2 DEF AtResolve
  <2>5. asked = {} => AnsweredTo(m, End(m)) /\ MoreMeans(m, FALSE)
    <3> SUFFICES ASSUME asked = {}
                 PROVE  AnsweredTo(m, End(m)) /\ MoreMeans(m, FALSE)
      OBVIOUS
    <3>1. m.total[Here(m)] = 0
      BY <1>3, <2>4
    <3>2. 1..0 = {} /\ 0 <= End(m)
      BY <2>1
    <3> QED
      BY <3>1, <3>2 DEF AnsweredTo, MoreMeans
  <2> QED
    BY <2>2, <2>3, <2>5
<1>11. CASE asked = {}
  <2>1. Loads(m) => Here(m) \in Provider /\ m.unavailable = {}
    BY <1>4, <1>10, HereBounds DEF NothingPending
  <2>2. Ready(m)
    <3>1. ASSUME Loads(m)
          PROVE  /\ \A p \in Provider \ {Here(m)} : m.pages[p] = EmptyPage
                 /\ WrittenTo(m, Begin(m))
                 /\ m.pages[Here(m)].found = {} /\ m.pages[Here(m)].more = FALSE
                 /\ Here(m) \notin m.unavailable /\ AnsweredTo(m, End(m))
                 /\ MoreMeans(m, m.pages[Here(m)].more)
      BY <1>7, <1>10, <1>11, <2>1, <3>1, EmptyPageBy
    <3> QED
      BY <1>5, <1>6, <1>7, <1>9, <3>1 DEF Ready
  <2> QED
    BY <1>11, <2>2, SettleGood
<1>12. CASE asked # {}
  <2>1. \A p \in m.waiting : ~ NeedsNoRequest(m, p) /\ m.pages[p] = EmptyPage
    BY <1>3, <1>7 DEF NeedsNoRequest
  <2>2. ASSUME Loads(m)
        PROVE  m.waiting = {Here(m)}
    <3>1. asked \in SUBSET {Here(m)} /\ m.waiting = asked
      BY <1>3, <1>10, <2>2
    <3>2. asked = {Here(m)}
      BY <1>12, <3>1, Zenon
    <3> QED
      BY <3>1, <3>2
  <2>3. AtAsk(m)
    BY <1>3, <1>5, <1>6, <1>7, <1>9, <1>10, <1>12, <2>1, <2>2 DEF AtAsk
  <2> QED
    BY <1>3, <1>12, <2>3 DEF Good
<1> QED
  BY <1>11, <1>12

-----------------------------------------------------------------------------
(* A book is written.                                                      *)
LEMMA UpsertGood ==
  ASSUME NEW l, l.at = "store", l.todo # {}, Stored(l),
         NEW m, m = [x \in LoadFields |-> m[x]],
         m.job = l.job, m.terms = l.terms, m.left = l.left, m.page = l.page,
         m.total = l.total, m.truncated = l.truncated, m.down = l.down, m.got = l.got,
         m.readable = l.readable, m.dropped = l.dropped, m.guessed = l.guessed,
         m.pages = l.pages, m.unavailable = l.unavailable, m.more = l.more,
         NEW b, b = NextOf(l.todo), m.todo = l.todo \ {b},
         \/ m.imported = l.imported \cup {Place(b)} /\ m.failed = l.failed
         \/ /\ l.job # "find"
            /\ m.imported = l.imported /\ m.failed = l.failed \cup {Place(b)}
  PROVE  Good(Storing(m))
<1>1. Common(l) /\ IsLoad(l) /\ Ahead(l) /\ NothingPending(l)
  BY DEF Stored, Common
<1>2. /\ \A c \in l.todo : \E p \in Provider : c \in FoundBy(p) /\ IsReadableContent(c.book)
      /\ \A c, d \in l.todo : Place(c) = Place(d) => c = d
  BY DEF Stored
<1>3. b \in l.todo
  <2>1. \A c \in l.todo : \E p \in Provider : c \in FoundBy(p)
    BY <1>2
  <2> QED
    BY <2>1, NextOfIn
<1>4. /\ Done(m) = Done(l) \cup {Place(b)}
      /\ PlacesOf(l.todo) = PlacesOf(m.todo) \cup {Place(b)}
      /\ Place(b) \notin PlacesOf(m.todo)
  BY <1>2, <1>3 DEF Done, PlacesOf
<1>5. IsLoad(m)
  BY <1>1 DEF IsLoad
<1>6. /\ Here(m) = Here(l) /\ Begin(m) = Begin(l) /\ End(m) = End(l)
      /\ (Loads(m) <=> Loads(l))
  BY DEF Here, Begin, End, Loads
<1>7. Common(m)
  <2>1. m.imported \cap m.failed = {}
    <3>1. l.job # "find" => Place(b) \notin Done(l)
      BY <1>4 DEF Stored
    <3> QED
      BY <1>1, <3>1 DEF Common, Done
  <2>2. m.job = "find" => m.failed = {}
    BY <1>1 DEF Common
  <2> QED
    BY <1>1, <1>5, <1>6, <2>1, <2>2 DEF Common
<1>8. ASSUME Loads(l)
      PROVE  /\ \A c \in m.todo : c.book.provider = Here(m) /\ c.pos <= End(m)
             /\ WrittenTo(m, End(m)) /\ AnsweredTo(m, End(m)) /\ MoreMeans(m, m.more)
             /\ \A p \in Provider, i \in Nat :
                   p # Here(l) /\ <<p, i>> \in Done(m) => <<p, i>> \in Done(l)
  <2>1. /\ \A c \in l.todo : c.book.provider = Here(l) /\ c.pos <= End(l)
        /\ WrittenTo(l, End(l)) /\ AnsweredTo(l, End(l)) /\ MoreMeans(l, l.more)
    BY <1>8 DEF Stored
  <2>2. Place(b) = <<Here(l), b.pos>> /\ b.pos <= End(l)
    BY <1>3, <2>1 DEF Place
  <2>3. \A p, i : <<p, i>> = Place(b) => p = Here(l) /\ i = b.pos
    BY <2>2
  <2>4. WrittenTo(m, End(m))
    BY <1>4, <1>6, <2>1, <2>2, <2>3 DEF WrittenTo
  <2>5. AnsweredTo(m, End(m)) /\ MoreMeans(m, m.more)
    BY <1>6, <2>1 DEF AnsweredTo, MoreMeans, NeedsNoRequest
  <2>6. \A c \in m.todo : c.book.provider = Here(m) /\ c.pos <= End(m)
    BY <1>6, <2>1
  <2>7. \A p \in Provider, i \in Nat :
           p # Here(l) /\ <<p, i>> \in Done(m) => <<p, i>> \in Done(l)
    BY <1>4, <2>3
  <2> QED
    BY <2>4, <2>5, <2>6, <2>7
<1>9. Ahead(m)
  BY <1>1, <1>6, <1>8, AheadKept DEF Common
<1>10. m.job # "find" => /\ m.readable = Done(m) \cup PlacesOf(m.todo)
                         /\ PlacesOf(m.todo) \cap Done(m) = {}
  BY <1>4 DEF Stored
<1>11. Stored(m)
  BY <1>1, <1>2, <1>6, <1>7, <1>8, <1>9, <1>10 DEF Stored, NothingPending
<1> QED
  BY <1>11, StoringGood

-----------------------------------------------------------------------------
(* Every step keeps the requests good.                                     *)
LEMMA RequestGood ==
  ASSUME NEW job \in Job, NEW terms \in BOOLEAN, NEW left \in SUBSET Provider, left # {}
  PROVE  Good(Request(job, terms, left))
<1> DEFINE m == Request(job, terms, left)
<1>1. /\ m = [x \in LoadFields |-> m[x]]
      /\ m.at = "resolve" /\ m.job = job /\ m.left = left /\ m.page = 1
      /\ m.unavailable = {} /\ m.pages = NoPages
      /\ m.imported = {} /\ m.failed = {} /\ m.truncated = FALSE
      /\ m.total = [p \in Provider |-> 0] /\ m.readable = {} /\ m.got = {}
  BY DEF Request, LoadFields
<1> HIDE DEF m
<1>2. IsLoad(m)
  <2>1. m.total \in [Provider -> Nat]
    BY <1>1
  <2> QED
    BY <1>1, <2>1, CatalogAssumption DEF IsLoad
<1>3. Common(m) /\ Done(m) = {}
  BY <1>1, <1>2 DEF Common, Done
<1>4. Here(m) \in Provider /\ left \in SUBSET Provider /\ Begin(m) = 0
  BY <1>1, <1>2, HereBounds
<1>5. \A p \in Provider : m.total[p] = 0
  BY <1>1
<1>6. \A p \in Provider : Complete(m, p)
  <2>1. 1..0 = {}
    OBVIOUS
  <2> QED
    BY <1>5, <2>1 DEF Complete
<1>7. \A p \in Provider : Untouched(m, p)
  BY <1>3, <1>5 DEF Untouched
<1>8. Ahead(m)
  BY <1>1, <1>6, <1>7 DEF Ahead
<1>9. WrittenTo(m, Begin(m)) /\ AnsweredTo(m, Begin(m))
  <2>1. 1..0 = {}
    OBVIOUS
  <2> QED
    BY <1>3, <1>4, <1>5, <2>1 DEF WrittenTo, AnsweredTo
<1>10. AtResolve(m)
  BY <1>1, <1>3, <1>4, <1>5, <1>8, <1>9 DEF AtResolve, NothingPending
<1>11. Good(m)
  BY <1>1, <1>10 DEF Good
<1> QED
  BY <1>11 DEF m

\* All the providers are asked for nothing: there is none.
LEMMA NothingToLoad ==
  ASSUME NEW terms \in BOOLEAN, NEW left
  PROVE  Good([Request("all", terms, left) EXCEPT !.at = "done"])
<1> DEFINE m == [Request("all", terms, left) EXCEPT !.at = "done"]
<1>1. /\ m.at = "done" /\ m.job = "all"
      /\ m.imported = {} /\ m.failed = {} /\ m.truncated = FALSE
      /\ m.total = [p \in Provider |-> 0] /\ m.readable = {} /\ m.got = {}
  BY DEF Request
<1> HIDE DEF m
<1>2. \A p \in Provider : 1..m.total[p] = {}
  BY <1>1
<1>3. IsComplete(m)
  BY <1>1, <1>2 DEF IsComplete, Done
<1>4. Good(m)
  BY <1>1, <1>3 DEF Good
<1> QED
  BY <1>4 DEF m

\* A step of one request leaves the others.
LEMMA OneGood ==
  ASSUME LoadsGood, NEW r \in Reader, NEW m, Good(m), load' = [load EXCEPT ![r] = m]
  PROVE  LoadsGood'
<1>1. load' = [s \in Reader |-> load'[s]] /\ \A s \in Reader : Good(load'[s])
  BY DEF LoadsGood
<1> QED
  BY <1>1 DEF LoadsGood

LEMMA AskGood ==
  ASSUME LoadsGood, NEW r \in Reader, Ask(r)
  PROVE  LoadsGood'
<1>1. ASSUME NEW job \in {"find", "search", "one"}, AskOne(r, job)
      PROVE  LoadsGood'
  <2>1. PICK p \in Provider, terms \in BOOLEAN :
           load' = [load EXCEPT ![r] = Request(job, terms, {p})]
    BY <1>1 DEF AskOne
  <2>2. Good(Request(job, terms, {p}))
    <3>1. job \in Job /\ {p} \in SUBSET Provider /\ {p} # {}
      BY DEF Job
    <3> QED
      BY <3>1, RequestGood
  <2> QED
    BY <2>1, <2>2, OneGood
<1>2. CASE AskSearch(r)
  <2>1. PICK terms \in BOOLEAN : load' = [load EXCEPT ![r] = Request("search", terms, Provider)]
    BY <1>2 DEF AskSearch
  <2>2. Good(Request("search", terms, Provider))
    <3>1. "search" \in Job /\ Provider \in SUBSET Provider /\ Provider # {}
      BY DEF Job, Provider
    <3> QED
      BY <3>1, RequestGood
  <2> QED
    BY <2>1, <2>2, OneGood
<1>3. CASE AskAll(r)
  <2>1. PICK terms \in BOOLEAN :
           load' = [load EXCEPT ![r] =
                      IF Active = {} THEN [Request("all", terms, Active) EXCEPT !.at = "done"]
                      ELSE Request("all", terms, Active)]
    BY <1>3 DEF AskAll, FindAllProviders
  <2>2. CASE Active = {}
    BY <2>1, <2>2, NothingToLoad, OneGood
  <2>3. CASE Active # {}
    <3>1. "all" \in Job /\ Active \in SUBSET Provider
      BY DEF Job, Active
    <3>2. Good(Request("all", terms, Active))
      BY <2>3, <3>1, RequestGood
    <3> QED
      BY <2>1, <2>3, <3>2, OneGood
  <2> QED
    BY <2>2, <2>3
<1> QED
  BY <1>1, <1>2, <1>3 DEF Ask

LEMMA ConsultStep ==
  ASSUME LoadsGood, NEW r \in Reader, Consult(r)
  PROVE  LoadsGood'
<1> DEFINE l == load[r]
           consulted == Consulted(l)
           asked == {p \in consulted : ~ NeedsNoRequest(l, p)}
           Asking(total) == [l EXCEPT !.at = "ask", !.waiting = asked, !.total = total]
<1>1. PICK total \in Sizes(l, asked) :
         load' = [load EXCEPT ![r] = IF asked = {} THEN Settle(Asking(total)) ELSE Asking(total)]
  BY DEF Consult
<1>2. l.at = "resolve" /\ AtResolve(l)
  BY DEF Consult, LoadsGood, Good, NoRequest
<1>3. IsLoad(l)
  BY <1>2 DEF AtResolve, Common
<1>4. consulted \in SUBSET Provider
  BY <1>3, HereBounds DEF Consulted, ResolveActiveProviders, Active, Here
<1>5. Loads(l) => consulted = {Here(l)}
  BY DEF Consulted, Loads, Everywhere, Here
<1> HIDE DEF l, consulted
<1>6. Good(IF asked = {} THEN Settle(Asking(total)) ELSE Asking(total))
  BY <1>2, <1>4, <1>5, ConsultGood
<1> QED
  BY <1>1, <1>6, OneGood

LEMMA AnswerStep ==
  ASSUME LoadsGood, NEW r \in Reader, NEW p \in Provider, Answer(r, p)
  PROVE  LoadsGood'
<1> DEFINE l == load[r]
<1>1. l.at = "ask" /\ AtAsk(l) /\ p \in l.waiting
  BY DEF Answer, UnderWay, LoadsGood, Good, NoRequest
<1>2. CASE l.job = "find"
  <2>1. FindAnswers(r, p)
    BY <1>2 DEF Answer
  <2>2. PICK found \in {{}, {1}} \cup (IF p = "STANDARD_EBOOKS" THEN {{2}} ELSE {}) :
          \E results \in [found -> ItemsOf[p]] :
             load' = [load EXCEPT ![r] = AnswerFind(load[r], p, results)]
    BY <2>1 DEF FindAnswers
  <2>3. PICK results \in [found -> ItemsOf[p]] :
          load' = [load EXCEPT ![r] = AnswerFind(l, p, results)]
    BY <2>2
  <2>4. found \in SUBSET Nat /\ (found # {} => 1 \in found \/ p = "STANDARD_EBOOKS")
    BY <2>2
  <2> HIDE DEF l
  <2>5. Good(AnswerFind(l, p, results))
    BY <1>1, <1>2, <2>4, AnswerFindGood
  <2> QED
    BY <2>3, <2>5, OneGood
<1>3. CASE l.job # "find"
  <2>1. SearchAnswers(r, p)
    BY <1>3 DEF Answer
  <2>2. PICK results \in [Window(p, l.page, l.total[p]) -> ItemsOf[p]], told \in Told(p) :
          load' = [load EXCEPT ![r] = AnswerSearch(l, p, results, told)]
    BY <2>1 DEF SearchAnswers
  <2> HIDE DEF l
  <2>3. Good(AnswerSearch(l, p, results, told))
    BY <1>1, <1>3, AnswerSearchGood
  <2> QED
    BY <2>2, <2>3, OneGood
<1> QED
  BY <1>2, <1>3

LEMMA UpsertStep ==
  ASSUME LoadsGood, NEW r \in Reader, Upsert(r)
  PROVE  LoadsGood'
<1> DEFINE l == load[r]
           b == NextOf(l.todo)
           rest == [l EXCEPT !.todo = l.todo \ {b}]
           written == [rest EXCEPT !.imported = l.imported \cup {Place(b)}]
           reported == [rest EXCEPT !.failed = l.failed \cup {Place(b)}]
<1>1. l.at = "store" /\ l.todo # {} /\ Stored(l)
  BY DEF Upsert, LoadsGood, Good, NoRequest
<1>2. IsLoad(l)
  BY <1>1 DEF Stored, Common
<1>3. \/ load' = [load EXCEPT ![r] = Storing(written)]
      \/ load' = [load EXCEPT ![r] = IF l.job = "find" THEN [rest EXCEPT !.at = "refused"]
                                     ELSE Storing(reported)]
  BY DEF Upsert
<1> HIDE DEF l, b
<1>4. /\ rest = [x \in LoadFields |-> rest[x]]
      /\ rest.job = l.job /\ rest.terms = l.terms /\ rest.left = l.left
      /\ rest.page = l.page /\ rest.total = l.total /\ rest.truncated = l.truncated
      /\ rest.down = l.down /\ rest.got = l.got /\ rest.readable = l.readable
      /\ rest.dropped = l.dropped /\ rest.guessed = l.guessed /\ rest.pages = l.pages
      /\ rest.unavailable = l.unavailable /\ rest.more = l.more
      /\ rest.imported = l.imported /\ rest.failed = l.failed /\ rest.todo = l.todo \ {b}
  BY <1>2 DEF IsLoad, LoadFields
<1> HIDE DEF rest
<1>5. Good(Storing(written))
  <2>1. /\ written = [x \in LoadFields |-> written[x]]
        /\ written.job = l.job /\ written.terms = l.terms /\ written.left = l.left
        /\ written.page = l.page /\ written.total = l.total
        /\ written.truncated = l.truncated /\ written.down = l.down /\ written.got = l.got
        /\ written.readable = l.readable /\ written.dropped = l.dropped
        /\ written.guessed = l.guessed /\ written.pages = l.pages
        /\ written.unavailable = l.unavailable /\ written.more = l.more
        /\ written.imported = l.imported \cup {Place(b)} /\ written.failed = l.failed
        /\ written.todo = l.todo \ {b}
    BY <1>4 DEF LoadFields
  <2> HIDE DEF written
  <2> QED
    BY <1>1, <2>1, UpsertGood DEF b
<1>6. ASSUME l.job # "find"
      PROVE  Good(Storing(reported))
  <2>1. /\ reported = [x \in LoadFields |-> reported[x]]
        /\ reported.job = l.job /\ reported.terms = l.terms /\ reported.left = l.left
        /\ reported.page = l.page /\ reported.total = l.total
        /\ reported.truncated = l.truncated /\ reported.down = l.down /\ reported.got = l.got
        /\ reported.readable = l.readable /\ reported.dropped = l.dropped
        /\ reported.guessed = l.guessed /\ reported.pages = l.pages
        /\ reported.unavailable = l.unavailable /\ reported.more = l.more
        /\ reported.imported = l.imported /\ reported.failed = l.failed \cup {Place(b)}
        /\ reported.todo = l.todo \ {b}
    BY <1>4 DEF LoadFields
  <2> HIDE DEF reported
  <2> QED
    BY <1>1, <1>6, <2>1, UpsertGood DEF b
<1>7. Good([rest EXCEPT !.at = "refused"])
  <2>1. [rest EXCEPT !.at = "refused"].at = "refused"
    BY <1>4 DEF LoadFields
  <2> QED
    BY <2>1 DEF Good
<1> HIDE DEF written, reported
<1>8. CASE load' = [load EXCEPT ![r] = Storing(written)]
  BY <1>5, <1>8, OneGood
<1>9. CASE load' = [load EXCEPT ![r] = IF l.job = "find" THEN [rest EXCEPT !.at = "refused"]
                                       ELSE Storing(reported)]
  <2>1. CASE l.job = "find"
    BY <1>7, <1>9, <2>1, OneGood
  <2>2. CASE l.job # "find"
    BY <1>6, <1>9, <2>2, OneGood
  <2> QED
    BY <2>1, <2>2
<1> QED
  BY <1>3, <1>8, <1>9

\* Every step keeps the invariant.
LEMMA LoadsNext ==
  ASSUME LoadsGood, CatalogNext
  PROVE  LoadsGood'
<1>1. ASSUME load' = load
      PROVE  LoadsGood'
  BY <1>1 DEF LoadsGood
<1>2. CASE FindMissing \/ SaveMissing \/ Administer \/ CatalogTick
  BY <1>1, <1>2 DEF FindMissing, SaveMissing, Administer, CatalogTick
<1>3. ASSUME NEW r \in Reader, Ask(r)
      PROVE  LoadsGood'
  BY <1>3, AskGood
<1>4. ASSUME NEW r \in Reader, ProviderDisabled(r)
      PROVE  LoadsGood'
  <2>1. load[r].at = "resolve" /\ load' = [load EXCEPT ![r].at = "refused"]
    BY <1>4 DEF ProviderDisabled
  <2> DEFINE m == [load[r] EXCEPT !.at = "refused"]
  <2>2. load' = [load EXCEPT ![r] = m]
    BY <2>1
  <2>3. IsLoad(load[r])
    BY <2>1 DEF LoadsGood, Good, AtResolve, Common, NoRequest
  <2>4. m.at = "refused"
    BY <2>3 DEF IsLoad, LoadFields
  <2> HIDE DEF m
  <2>5. Good(m)
    BY <2>4 DEF Good
  <2> QED
    BY <2>2, <2>5, OneGood
<1>5. ASSUME NEW r \in Reader, Consult(r)
      PROVE  LoadsGood'
  BY <1>5, ConsultStep
<1>6. ASSUME NEW r \in Reader, FetchFeed(r)
      PROVE  LoadsGood'
  BY <1>1, <1>6 DEF FetchFeed
<1>7. ASSUME NEW r \in Reader, NEW p \in Provider, Unavailable(r, p)
      PROVE  LoadsGood'
  <2>1. /\ load[r].at = "ask" /\ AtAsk(load[r]) /\ p \in load[r].waiting
        /\ load' = [load EXCEPT ![r] = Failed(load[r], p)]
    BY <1>7 DEF Unavailable, UnderWay, LoadsGood, Good, NoRequest
  <2> QED
    BY <2>1, FailedGood, OneGood
<1>8. ASSUME NEW r \in Reader, NEW p \in Provider, Answer(r, p)
      PROVE  LoadsGood'
  BY <1>8, AnswerStep
<1>9. ASSUME NEW r \in Reader, Upsert(r)
      PROVE  LoadsGood'
  BY <1>9, UpsertStep
<1> QED
  BY <1>2, <1>3, <1>4, <1>5, <1>6, <1>7, <1>8, <1>9 DEF CatalogNext, GoOn

-----------------------------------------------------------------------------
(* The theorems.                                                           *)
\* Every step is one of the catalogues, or leaves them as they are.
LEMMA OutsideStep ==
  ASSUME [Next]_outsideVars
  PROVE  \/ CatalogNext /\ UNCHANGED contentVars
         \/ ContentNext /\ UNCHANGED catalogVars
         \/ UNCHANGED outsideVars
  BY DEF Next

LEMMA LoadsHold == Spec => []LoadsGood
<1>1. Init => LoadsGood
  BY DEF Init, CatalogInit, LoadsGood, Good
<1>2. LoadsGood /\ [Next]_outsideVars => LoadsGood'
  <2> SUFFICES ASSUME LoadsGood, [Next]_outsideVars
               PROVE  LoadsGood'
    OBVIOUS
  <2>1. CASE CatalogNext
    BY <2>1, LoadsNext
  <2>2. CASE UNCHANGED catalogVars
    BY <2>2 DEF catalogVars, LoadsGood
  <2> QED
    BY <2>1, <2>2, OutsideStep DEF outsideVars
<1> QED
  BY <1>1, <1>2, PTL DEF Spec

\* A load or search that was answered imported, or reported as failed, every
\* readable book of the pages it was given; one that reports neither a
\* provider that failed nor the limit was given every position of every result
\* set, but for a guess; and the limit means that there was more
\* (importAllPages, importFromSearch and the providers' search), for any
\* result sets, page sizes, limits and number of requests.
THEOREM LoadIsCompleteHolds == Spec => []LoadIsComplete
<1>1. LoadsGood => LoadIsComplete
  <2> SUFFICES ASSUME LoadsGood, NEW r \in Reader, load[r].at = "done"
               PROVE  IsComplete(load[r])
    BY DEF LoadIsComplete, IsComplete, Beyond, Done
  <2> QED
    BY DEF LoadsGood, Good, NoRequest
<1> QED
  BY <1>1, LoadsHold, PTL

\* Every book about to be written can be read here, has the format of the link
\* that was chosen, and the authors and languages of an item of its provider,
\* none twice and none left out below the limit, whatever the provider
\* answered (toBookData of the four providers).
THEOREM BooksFitTablesHolds == Spec => []BooksFitTables
<1>1. LoadsGood => BooksFitTables
  <2> SUFFICES ASSUME LoadsGood, NEW r \in Reader, load[r].at = "store",
                      NEW found \in load[r].todo
               PROVE  \E item \in ItemsOf[found.book.provider] : Fits(found.book, item)
    BY DEF BooksFitTables, Fits
  <2>1. Stored(load[r])
    BY DEF LoadsGood, Good, NoRequest
  <2>2. PICK p \in Provider : found \in FoundBy(p) /\ IsReadableContent(found.book)
    BY <2>1 DEF Stored
  <2>3. found.book \in BooksBy(p)
    BY <2>2 DEF FoundBy
  <2> QED
    BY <2>2, <2>3, BooksByFit
<1> QED
  BY <1>1, LoadsHold, PTL

-----------------------------------------------------------------------------
(* arXiv.  While nothing is under way the code's clock, which starts at    *)
(* the end of the last request, is not ahead of the time since then.       *)
Timed ==
    /\ calling \in BOOLEAN /\ elapsed \in Nat /\ quiet \in Nat
    /\ ~ calling => elapsed <= quiet

LEMMA TimedInit == CatalogInit => Timed
<1>. SUFFICES ASSUME CatalogInit
              PROVE  Timed
  OBVIOUS
<1>1. calling \in BOOLEAN
  BY DEF CatalogInit
<1>2. elapsed \in Nat /\ quiet \in Nat /\ elapsed <= quiet
  BY CatalogAssumption DEF CatalogInit
<1>. QED
  BY <1>1, <1>2 DEF Timed

LEMMA TimedLeave ==
  ASSUME NEW r, LeaveQueue(r), quiet' = 0
  PROVE  Timed'
<1>1. calling' \in BOOLEAN
  BY DEF LeaveQueue
<1>2. elapsed' \in Nat /\ quiet' \in Nat /\ elapsed' <= quiet'
  BY DEF LeaveQueue
<1>. QED
  BY <1>1, <1>2 DEF Timed

\* Every step keeps arXiv's clock behind.
LEMMA TimedNext ==
  ASSUME Timed, CatalogNext
  PROVE  Timed'
<1>1. ASSUME UNCHANGED <<calling, elapsed, quiet>>
      PROVE  Timed'
  BY <1>1 DEF Timed
<1>2. CASE CatalogTick
  BY <1>2, CatalogAssumption DEF CatalogTick, Timed, Later
<1>3. ASSUME NEW r \in Reader, NEW p \in Provider, Unavailable(r, p) \/ Answer(r, p)
      PROVE  Timed'
  <2>1. CASE p = "ARXIV"
    BY <1>3, <2>1, TimedLeave DEF Unavailable, Answer, LeaveQueueFailed
  <2>2. CASE p # "ARXIV"
    BY <1>1, <1>3, <2>2 DEF Unavailable, Answer, arxiv
  <2>. QED
    BY <2>1, <2>2
<1>4. ASSUME NEW r \in Reader, FetchFeed(r)
      PROVE  Timed'
  BY <1>4 DEF FetchFeed, Timed
<1>5. ASSUME NEW r \in Reader, Ask(r) \/ ProviderDisabled(r) \/ Consult(r) \/ Upsert(r)
      PROVE  Timed'
  BY <1>1, <1>5 DEF Ask, AskOne, AskSearch, AskAll, ProviderDisabled, Consult, Upsert, arxiv
<1>6. CASE FindMissing \/ SaveMissing \/ Administer
  BY <1>1, <1>6 DEF FindMissing, SaveMissing, Administer, arxiv
<1>. QED
  BY <1>2, <1>3, <1>4, <1>5, <1>6 DEF CatalogNext, GoOn

\* Only FetchFeed begins a request, and it waits for the code's clock.
LEMMA IntervalStep ==
  ASSUME Timed, CatalogNext, calling', ~ calling
  PROVE  quiet >= Interval
<1>1. ASSUME NEW r \in Reader, FetchFeed(r)
      PROVE  quiet >= Interval
  BY <1>1, CatalogAssumption DEF FetchFeed, Timed
<1>2. ASSUME NEW r \in Reader, NEW p \in Provider, Unavailable(r, p) \/ Answer(r, p)
      PROVE  FALSE
  <2>1. calling' = FALSE \/ calling' = calling
    BY <1>2 DEF Unavailable, Answer, LeaveQueueFailed, LeaveQueue, arxiv
  <2>. QED
    BY <2>1
<1>3. ASSUME NEW r \in Reader, Ask(r) \/ ProviderDisabled(r) \/ Consult(r) \/ Upsert(r)
      PROVE  FALSE
  <2>1. calling' = calling
    BY <1>3 DEF Ask, AskOne, AskSearch, AskAll, ProviderDisabled, Consult, Upsert, arxiv
  <2>. QED
    BY <2>1
<1>4. CASE FindMissing \/ SaveMissing \/ Administer \/ CatalogTick
  <2>1. calling' = calling
    BY <1>4 DEF FindMissing, SaveMissing, Administer, CatalogTick, arxiv
  <2>. QED
    BY <2>1
<1>. QED
  BY <1>1, <1>2, <1>3, <1>4 DEF CatalogNext, GoOn

LEMMA TimedHolds == Spec => []Timed
<1>1. Init => Timed
  BY TimedInit DEF Init
<1>2. Timed /\ [Next]_outsideVars => Timed'
  <2>. SUFFICES ASSUME Timed, [Next]_outsideVars
                PROVE  Timed'
    OBVIOUS
  <2>1. CASE CatalogNext
    BY <2>1, TimedNext
  <2>2. CASE UNCHANGED catalogVars
    BY <2>2 DEF catalogVars, Timed
  <2>. QED
    BY <2>1, <2>2, OutsideStep DEF outsideVars
<1>. QED
  BY <1>1, <1>2, PTL DEF Spec

\* Between the end of one request to arXiv and the next lies the interval, for
\* any number of requests, any interval and however the requests end
\* (fetchFeed of arxiv.provider.ts).
THEOREM IntervalKeptHolds == Spec => IntervalKept
<1>1. Timed /\ [Next]_outsideVars
      => [calling' /\ ~ calling => quiet >= Interval]_catalogVars
  <2>. SUFFICES ASSUME Timed, [Next]_outsideVars, catalogVars' # catalogVars,
                       calling', ~ calling
                PROVE  quiet >= Interval
    OBVIOUS
  <2>1. CatalogNext
    BY OutsideStep DEF outsideVars
  <2>. QED
    BY <2>1, IntervalStep
<1>. QED
  BY <1>1, TimedHolds, PTL DEF Spec, IntervalKept
===============================================================================
