---------------------------- MODULE ContentProofs ----------------------------
(***************************************************************************)
(* Reading, for any documents and any limits: the pages a text and some    *)
(* HTML are cut into hold the whole of it, a chapter is the one asked for, *)
(* and a request for a page leaves nothing open.                           *)
(***************************************************************************)
EXTENDS Outside, ListsProofs

-----------------------------------------------------------------------------
(* The parts of a paragraph.                                               *)
Fragment ==
    {x \in [paragraph : Nat, from : Nat, to : Nat] : x.from <= x.to /\ PartLength(x) <= Target}

\* One part is before another; some parts hold these characters.
Before(x, y) ==
    \/ x.paragraph < y.paragraph
    \/ x.paragraph = y.paragraph /\ x.to < y.from
Holds(parts, i, chars) ==
    \E k \in 1..Len(parts) : /\ parts[k].paragraph = i
                             /\ chars \subseteq parts[k].from..parts[k].to

LEMMA PartType ==
  ASSUME NEW i \in Nat, NEW from \in Nat, NEW to \in Nat, from <= to, to - from < Target
  PROVE  /\ Part(i, from, to) \in Fragment
         /\ Part(i, from, to).paragraph = i
         /\ Part(i, from, to).from = from /\ Part(i, from, to).to = to
         /\ PartLength(Part(i, from, to)) = to - from + 1
<1> DEFINE x == Part(i, from, to)
<1>1. /\ x \in [paragraph : Nat, from : Nat, to : Nat]
      /\ x.paragraph = i /\ x.from = from /\ x.to = to
  BY DEF Part
<1> HIDE DEF x
<1>2. PartLength(x) = to - from + 1
  BY <1>1 DEF PartLength
<1>3. PartLength(x) <= Target
  BY <1>2, ContentAssumption
<1>4. x \in Fragment
  BY <1>1, <1>3 DEF Fragment
<1> QED
  BY <1>1, <1>2, <1>4 DEF x

LEMMA FragmentFields ==
  ASSUME NEW x \in Fragment
  PROVE  /\ x.paragraph \in Nat /\ x.from \in Nat /\ x.to \in Nat /\ x.from <= x.to
         /\ PartLength(x) \in Nat /\ PartLength(x) <= Target
<1>1. /\ x.paragraph \in Nat /\ x.from \in Nat /\ x.to \in Nat /\ x.from <= x.to
      /\ PartLength(x) <= Target
  BY DEF Fragment
<1> QED
  BY <1>1 DEF PartLength

\* Of two sequences of parts joined: their order, and what they hold.
LEMMA Joined ==
  ASSUME NEW a \in Seq(Fragment), NEW b \in Seq(Fragment)
  PROVE  /\ a \o b \in Seq(Fragment)
         /\ (/\ InOrder(a) /\ InOrder(b)
             /\ \A j \in 1..Len(a), k \in 1..Len(b) : Before(a[j], b[k]))
              => InOrder(a \o b)
         /\ \A i, chars : Holds(a, i, chars) \/ Holds(b, i, chars)
                            => Holds(a \o b, i, chars)
         /\ \A k \in 1..Len(a \o b) : \/ \E j \in 1..Len(a) : (a \o b)[k] = a[j]
                                      \/ \E j \in 1..Len(b) : (a \o b)[k] = b[j]
<1> DEFINE u == a \o b
           m == Len(a)
           n == Len(b)
<1>1. /\ m \in Nat /\ n \in Nat /\ u \in Seq(Fragment) /\ Len(u) = m + n
      /\ \A k \in 1..m + n : u[k] = IF k <= m THEN a[k] ELSE b[k - m]
  BY ConcatProperties
<1> HIDE DEF u, m, n
<1>2. \A k \in 1..m + n : \/ k \in 1..m /\ u[k] = a[k]
                          \/ k > m /\ k - m \in 1..n /\ u[k] = b[k - m]
  BY <1>1
<1>3. ASSUME InOrder(a), InOrder(b), \A j \in 1..m, k \in 1..n : Before(a[j], b[k])
      PROVE  InOrder(u)
  <2>1. SUFFICES ASSUME NEW j \in 1..m + n, NEW k \in 1..m + n, j < k
                 PROVE  Before(u[j], u[k])
    BY <1>1 DEF InOrder, Before
  <2>2. /\ \A x, y \in 1..m : x < y => Before(a[x], a[y])
        /\ \A x, y \in 1..n : x < y => Before(b[x], b[y])
    BY <1>3 DEF InOrder, Before, m, n
  <2>3. CASE k \in 1..m
    <3>1. j \in 1..m /\ u[j] = a[j] /\ u[k] = a[k]
      BY <1>1, <2>1, <2>3
    <3> QED
      BY <2>1, <2>2, <2>3, <3>1
  <2>4. CASE j \in 1..m /\ k > m
    <3>1. u[j] = a[j] /\ u[k] = b[k - m] /\ k - m \in 1..n
      BY <1>1, <2>1, <2>4
    <3> QED
      BY <1>3, <2>4, <3>1
  <2>5. CASE j > m
    <3>1. /\ u[j] = b[j - m] /\ u[k] = b[k - m] /\ k - m \in 1..n /\ j - m \in 1..n
          /\ j - m < k - m
      BY <1>1, <2>1, <2>5
    <3> QED
      BY <2>2, <3>1
  <2> QED
    BY <1>1, <2>3, <2>4, <2>5
<1>4. ASSUME NEW i, NEW chars, Holds(a, i, chars) \/ Holds(b, i, chars)
      PROVE  Holds(u, i, chars)
  <2>1. CASE Holds(a, i, chars)
    <3>1. PICK k \in 1..m : a[k].paragraph = i /\ chars \subseteq a[k].from..a[k].to
      BY <2>1 DEF Holds, m
    <3>2. k \in 1..m + n /\ u[k] = a[k]
      BY <1>1, <3>1
    <3>3. k \in 1..Len(u) /\ u[k].paragraph = i /\ chars \subseteq u[k].from..u[k].to
      BY <1>1, <3>1, <3>2
    <3> QED
      BY <3>3 DEF Holds
  <2>2. CASE Holds(b, i, chars)
    <3>1. PICK k \in 1..n : b[k].paragraph = i /\ chars \subseteq b[k].from..b[k].to
      BY <2>2 DEF Holds, n
    <3>2. m + k \in 1..m + n /\ u[m + k] = b[k]
      BY <1>1, <3>1
    <3>3. m + k \in 1..Len(u) /\ u[m + k].paragraph = i
            /\ chars \subseteq u[m + k].from..u[m + k].to
      BY <1>1, <3>1, <3>2
    <3> QED
      BY <3>3 DEF Holds
  <2> QED
    BY <1>4, <2>1, <2>2
<1>5. \A k \in 1..Len(u) : (\E j \in 1..m : u[k] = a[j]) \/ (\E j \in 1..n : u[k] = b[j])
  BY <1>1, <1>2
<1> QED
  BY <1>1, <1>3, <1>4, <1>5 DEF u, m, n

-----------------------------------------------------------------------------
(* How a paragraph is cut.                                                 *)
LEMMA ParagraphType ==
  ASSUME NEW p \in Paragraphs
  PROVE  /\ p.length \in Nat \ {0} /\ p.spaces \in SUBSET Nat
         /\ Ink(p) \in SUBSET (1..p.length) /\ Ink(p) \cap p.spaces = {}
         /\ 1 \in Ink(p) /\ p.length \in Ink(p)
<1>1. /\ p.length \in Nat \ {0} /\ p.spaces \in SUBSET Nat
      /\ 1 \in Ink(p) /\ p.length \in Ink(p)
  BY DEF Paragraphs
<1> QED
  BY <1>1 DEF Ink

\* Where a part ends and where the next one begins.
EndBefore(p, at) == Max({c \in Ink(p) : c < at})
Onward(p, at) == Min({c \in Ink(p) : c >= at})

\* The cut is after the place the part begins at, no further than a page, and
\* it is a space, unless there is none.
LEMMA WhereItIsCut ==
  ASSUME NEW p \in Paragraphs, NEW from \in 1..p.length
  PROVE  LET at == splitAt(p, from)
         IN /\ at \in Nat /\ from < at /\ at <= from + Target
            /\ \/ at \in p.spaces
               \/ /\ at = from + Target
                  /\ \A s \in p.spaces : ~ (from < s /\ s <= from + Target)
<1> DEFINE spaces == {s \in p.spaces : from < s /\ s <= from + Target}
           at == splitAt(p, from)
<1>1. /\ p.length \in Nat \ {0} /\ p.spaces \in SUBSET Nat /\ from \in Nat
      /\ Target \in Nat \ {0} /\ from + Target \in Nat
  BY ParagraphType, ContentAssumption
<1>2. at = IF spaces = {} THEN from + Target ELSE Max(spaces)
  BY DEF splitAt
<1>3. CASE spaces = {}
  BY <1>1, <1>2, <1>3
<1>4. CASE spaces # {}
  <2>1. spaces \in SUBSET (0..from + Target)
    BY <1>1
  <2>2. Max(spaces) \in spaces
    <3> HIDE DEF spaces
    <3> QED
      BY <1>1, <1>4, <2>1, MaxUpTo
  <2>3. at \in spaces
    BY <1>2, <1>4, <2>2
  <2> HIDE DEF at
  <2>4. at \in p.spaces /\ from < at /\ at <= from + Target
    BY <2>3
  <2> QED
    BY <1>1, <2>4 DEF at
<1> QED
  BY <1>3, <1>4

\* The part before the cut ends at the last of its characters, the next one
\* begins at the first of the rest.
LEMMA AroundTheCut ==
  ASSUME NEW p \in Paragraphs, NEW at \in Nat, 1 < at, at <= p.length
  PROVE  LET to == EndBefore(p, at)
             next == Onward(p, at)
         IN /\ to \in Ink(p) /\ to < at /\ \A c \in Ink(p) : c < at => c <= to
            /\ next \in Ink(p) /\ at <= next /\ \A c \in Ink(p) : c >= at => next <= c
<1> DEFINE left == {c \in Ink(p) : c < at}
           right == {c \in Ink(p) : c >= at}
<1>1. /\ p.length \in Nat /\ Ink(p) \in SUBSET (1..p.length)
      /\ 1 \in Ink(p) /\ p.length \in Ink(p)
  BY ParagraphType
<1>2. left \in SUBSET (0..p.length) /\ left # {} /\ right \in SUBSET Nat /\ right # {}
  BY <1>1
<1>3. EndBefore(p, at) = Max(left) /\ Onward(p, at) = Min(right)
  BY DEF EndBefore, Onward
<1>4. Max(left) \in left /\ \A c \in left : c <= Max(left)
  <2> HIDE DEF left
  <2> QED
    BY <1>1, <1>2, MaxUpTo
<1>5. Min(right) \in right /\ \A c \in right : Min(right) <= c
  <2> HIDE DEF right
  <2> QED
    BY <1>2, MinOf
<1> QED
  BY <1>3, <1>4, <1>5

\* splitLongParagraph goes from part to part.
LEMMA SplitRuns ==
  ASSUME NEW i \in Nat, NEW p \in Paragraphs
  PROVE  \E h : /\ splitLongParagraph(i, p) = h[1]
                /\ \A from \in 1..p.length :
                     h[from] = IF p.length - from < Target THEN <<Part(i, from, p.length)>>
                               ELSE <<Part(i, from, EndBefore(p, splitAt(p, from)))>>
                                      \o h[Onward(p, splitAt(p, from))]
<1> DEFINE L == p.length
           Ends(from) == L - from < Target
           last(from) == <<Part(i, from, L)>>
           part(from) == <<Part(i, from, EndBefore(p, splitAt(p, from)))>>
           next(from) == Onward(p, splitAt(p, from))
           Turn(h, from) == IF Ends(from) THEN last(from) ELSE part(from) \o h[next(from)]
           Rec(h) == h = [from \in 1..L |-> Turn(h, from)]
           f == CHOOSE h : Rec(h)
<1>1. splitLongParagraph(i, p) = f[1]
  BY DEF splitLongParagraph, EndBefore, Onward
<1>2. L \in Nat \ {0} /\ Target \in Nat \ {0}
  BY ParagraphType, ContentAssumption
<1>3. \A from \in 1..L : ~ Ends(from) => next(from) \in 1..L /\ next(from) > from
  <2>1. SUFFICES ASSUME NEW from \in 1..L, ~ Ends(from)
                 PROVE  next(from) \in 1..L /\ next(from) > from
    OBVIOUS
  <2> DEFINE at == splitAt(p, from)
  <2>2. at \in Nat /\ from < at /\ at <= from + Target
    BY WhereItIsCut
  <2> HIDE DEF at
  <2>3. 1 < at /\ at <= L
    BY <1>2, <2>1, <2>2
  <2>4. Onward(p, at) \in Ink(p) /\ at <= Onward(p, at)
    BY <2>2, <2>3, AroundTheCut
  <2>5. Onward(p, at) \in 1..L
    BY <2>4, ParagraphType
  <2> QED
    BY <2>2, <2>4, <2>5 DEF at
<1> HIDE DEF L, Ends, last, part, next, f
<1> DEFINE From(m, g) == /\ g = [from \in 1..L |-> g[from]]
                         /\ \A from \in 1..L : from > L - m => g[from] = Turn(g, from)
           S == {m \in Nat : m <= L => \E g : From(m, g)}
<1>4. 0 \in S
  <2> DEFINE g == [from \in 1..L |-> <<>>]
  <2>1. g = [from \in 1..L |-> g[from]]
    OBVIOUS
  <2>2. From(0, g)
    BY <1>2, <2>1
  <2> HIDE DEF g, From
  <2> QED
    BY <2>2
<1>5. ASSUME NEW m \in Nat, m \in S PROVE m + 1 \in S
  <2>1. SUFFICES ASSUME m + 1 <= L PROVE \E g : From(m + 1, g)
    OBVIOUS
  <2>2. PICK g : From(m, g)
    BY <1>2, <1>5, <2>1
  <2> DEFINE x == L - m
             h == [from \in 1..L |-> IF from = x THEN Turn(g, x) ELSE g[from]]
  <2>3. x \in 1..L
    BY <1>2, <2>1
  <2>4. h = [from \in 1..L |-> h[from]]
    OBVIOUS
  <2>5. ASSUME NEW from \in 1..L, from > L - (m + 1)
        PROVE  h[from] = Turn(h, from)
    <3>1. from = x \/ from > x
      BY <1>2, <2>5
    <3>2. ~ Ends(from) => next(from) \in 1..L /\ next(from) # x
      BY <1>2, <1>3, <2>3, <3>1
    <3>3. ~ Ends(from) => h[next(from)] = g[next(from)]
      BY <3>2
    <3>4. Turn(h, from) = Turn(g, from)
      BY <3>3
    <3>5. CASE from = x
      BY <2>3, <3>4, <3>5
    <3>6. CASE from > x
      <4>1. g[from] = Turn(g, from)
        BY <2>2, <3>6
      <4>2. h[from] = g[from]
        BY <2>3, <3>6
      <4> QED
        BY <3>4, <4>1, <4>2, Zenon
    <3> QED
      BY <3>1, <3>5, <3>6
  <2>6. From(m + 1, h)
    BY <2>4, <2>5
  <2> HIDE DEF From, h
  <2> QED
    BY <2>6
<1>6. \E g : From(L, g)
  <2>1. \A m \in Nat : m \in S
    <3> HIDE DEF S
    <3> QED
      BY <1>4, <1>5, NatAll
  <2> QED
    BY <1>2, <2>1
<1>7. PICK g : From(L, g)
  BY <1>6
<1>8. Rec(g)
  <2> HIDE DEF Turn
  <2>1. \A from \in 1..L : g[from] = Turn(g, from)
    <3>1. \A from \in 1..L : from > L - L
      BY <1>2
    <3> QED
      BY <1>7, <3>1
  <2> QED
    BY <1>7, <2>1
<1>9. Rec(f)
  <2> HIDE DEF Rec
  <2> QED
    BY <1>8 DEF f
<1>10. \A from \in 1..L : f[from] = Turn(f, from)
  <2> HIDE DEF Turn
  <2> QED
    BY <1>9
<1> QED
  BY <1>1, <1>10 DEF L, Ends, last, part, next

\* What the parts of a paragraph from a place on are.
PartsFrom(parts, i, p, from) ==
    /\ parts \in Seq(Fragment) /\ parts # <<>> /\ InOrder(parts)
    /\ \A k \in 1..Len(parts) : parts[k].paragraph = i /\ from <= parts[k].from
    /\ \A chars \in Uncut(p) : (\A c \in chars : from <= c) => Holds(parts, i, chars)

LEMMA UncutIsInk ==
  ASSUME NEW p, NEW chars \in Uncut(p)
  PROVE  chars \subseteq Ink(p)
BY DEF Uncut

\* One part.
LEMMA OnePart ==
  ASSUME NEW i \in Nat, NEW from \in Nat, NEW to \in Nat, from <= to, to - from < Target
  PROVE  LET parts == <<Part(i, from, to)>>
         IN /\ parts \in Seq(Fragment) /\ parts # <<>> /\ InOrder(parts)
            /\ Len(parts) = 1 /\ parts[1] = Part(i, from, to)
            /\ \A k \in 1..Len(parts) : parts[k].paragraph = i /\ parts[k].from = from
            /\ \A chars : chars \subseteq from..to => Holds(parts, i, chars)
<1> DEFINE x == Part(i, from, to)
           parts == <<x>>
<1>1. x \in Fragment /\ x.paragraph = i /\ x.from = from /\ x.to = to
  BY PartType
<1> HIDE DEF x
<1>2. parts \in Seq(Fragment) /\ Len(parts) = 1 /\ parts[1] = x /\ parts # <<>>
  BY <1>1
<1> HIDE DEF parts
<1>3. InOrder(parts)
  BY <1>2 DEF InOrder
<1>4. \A chars : chars \subseteq from..to => Holds(parts, i, chars)
  <2>1. SUFFICES ASSUME NEW chars, chars \subseteq from..to PROVE Holds(parts, i, chars)
    OBVIOUS
  <2>2. 1 \in 1..Len(parts)
    BY <1>2
  <2>3. parts[1].paragraph = i /\ chars \subseteq parts[1].from..parts[1].to
    BY <1>1, <1>2, <2>1
  <2> QED
    BY <2>2, <2>3 DEF Holds
<1>5. \A k \in 1..Len(parts) : parts[k].paragraph = i /\ parts[k].from = from
  BY <1>1, <1>2
<1> QED
  BY <1>2, <1>3, <1>4, <1>5 DEF parts, x

\* What is not to be cut is on one side of the cut.
LEMMA NothingIsCut ==
  ASSUME NEW p \in Paragraphs, NEW from \in Ink(p), ~ (p.length - from < Target),
         NEW chars \in Uncut(p), NEW c \in chars, c < splitAt(p, from)
  PROVE  \A d \in chars : d < splitAt(p, from)
<1> DEFINE at == splitAt(p, from)
<1>1. /\ p.length \in Nat \ {0} /\ p.spaces \in SUBSET Nat
      /\ Ink(p) \in SUBSET (1..p.length) /\ Ink(p) \cap p.spaces = {}
      /\ Target \in Nat \ {0} /\ chars \subseteq Ink(p)
  BY ParagraphType, UncutIsInk, ContentAssumption
<1>2. from \in 1..p.length /\ c \in 1..p.length /\ c \in Nat
  BY <1>1
<1>3. /\ at \in Nat /\ from < at /\ at <= from + Target
      /\ \/ at \in p.spaces
         \/ /\ at = from + Target
            /\ \A s \in p.spaces : ~ (from < s /\ s <= from + Target)
  BY <1>2, WhereItIsCut
<1>4. c < at
  OBVIOUS
<1> HIDE DEF at
<1>5. SUFFICES ASSUME NEW d \in chars, ~ (d < at) PROVE FALSE
  BY DEF at
<1>6. d \in 1..p.length /\ c # d
  BY <1>1, <1>4, <1>5
<1>7. PICK r \in ShortRuns(p) : chars = (r[1]..r[2]) \cap Ink(p)
  <2>1. ~ \E e \in Ink(p) : chars = {e}
    BY <1>6
  <2> QED
    BY <2>1 DEF Uncut
<1>8. /\ r[1] \in 1..p.length /\ r[2] \in 1..p.length /\ r[2] - r[1] < Target
      /\ r[1] = 1 \/ r[1] - 1 \in p.spaces
      /\ (r[1]..r[2]) \cap p.spaces = {}
  BY <1>7 DEF ShortRuns
<1>9. r[1] <= c /\ d <= r[2] /\ at \in r[1]..r[2]
  <2>1. c \in r[1]..r[2] /\ d \in r[1]..r[2]
    BY <1>7
  <2> QED
    BY <1>2, <1>3, <1>4, <1>5, <1>6, <1>8, <2>1
<1>10. at = from + Target /\ \A s \in p.spaces : ~ (from < s /\ s <= from + Target)
  BY <1>3, <1>8, <1>9
<1>11. r[1] <= from
  <2>1. SUFFICES ASSUME r[1] > from PROVE FALSE
    BY <1>2, <1>8
  <2>2. r[1] - 1 \in p.spaces
    BY <1>2, <1>8, <2>1
  <2>3. r[1] - 1 # from
    BY <1>1, <2>2
  <2>4. from < r[1] - 1 /\ r[1] - 1 <= from + Target
    BY <1>2, <1>4, <1>8, <1>9, <1>10, <2>1, <2>3
  <2> QED
    BY <1>10, <2>2, <2>4
<1> QED
  BY <1>1, <1>2, <1>8, <1>9, <1>10, <1>11

\* A part more in front of those of the rest.
LEMMA CutKeeps ==
  ASSUME NEW i \in Nat, NEW p \in Paragraphs, NEW from \in Ink(p),
         ~ (p.length - from < Target),
         NEW rest, PartsFrom(rest, i, p, Onward(p, splitAt(p, from)))
  PROVE  PartsFrom(<<Part(i, from, EndBefore(p, splitAt(p, from)))>> \o rest, i, p, from)
<1> DEFINE at == splitAt(p, from)
           to == EndBefore(p, at)
           next == Onward(p, at)
           one == <<Part(i, from, to)>>
<1>1. /\ p.length \in Nat \ {0} /\ Target \in Nat \ {0}
      /\ Ink(p) \in SUBSET (1..p.length) /\ from \in 1..p.length
  BY ParagraphType, ContentAssumption
<1>2. at \in Nat /\ from < at /\ at <= from + Target
  BY <1>1, WhereItIsCut
<1>3. 1 < at /\ at <= p.length
  BY <1>1, <1>2
<1>4. /\ to \in Ink(p) /\ to < at /\ \A c \in Ink(p) : c < at => c <= to
      /\ next \in Ink(p) /\ at <= next /\ \A c \in Ink(p) : c >= at => next <= c
  <2> HIDE DEF at
  <2> QED
    BY <1>2, <1>3, AroundTheCut
<1>5. /\ PartsFrom(rest, i, p, next)
      /\ \A chars \in Uncut(p) : \A c \in chars : c < at => \A d \in chars : d < at
  BY NothingIsCut
<1> HIDE DEF at, to, next
<1>6. to \in Nat /\ next \in Nat /\ from \in Nat /\ from <= to /\ to - from < Target /\ to < next
  BY <1>1, <1>2, <1>4
<1>7. /\ one \in Seq(Fragment) /\ one # <<>> /\ InOrder(one)
      /\ Len(one) = 1 /\ one[1] = Part(i, from, to)
      /\ \A k \in 1..Len(one) : one[k].paragraph = i /\ one[k].from = from
      /\ \A chars : chars \subseteq from..to => Holds(one, i, chars)
  BY <1>6, OnePart
<1>8. one[1].to = to
  BY <1>6, <1>7, PartType
<1> HIDE DEF one
<1>9. /\ rest \in Seq(Fragment) /\ rest # <<>> /\ InOrder(rest)
      /\ \A k \in 1..Len(rest) : rest[k].paragraph = i /\ next <= rest[k].from
      /\ \A chars \in Uncut(p) : (\A c \in chars : next <= c) => Holds(rest, i, chars)
  BY <1>5 DEF PartsFrom
<1>10. \A k \in 1..Len(rest) : rest[k].from \in Nat
  <2>1. \A k \in 1..Len(rest) : rest[k] \in Fragment
    BY <1>9
  <2> QED
    BY <2>1, FragmentFields
<1>11. \A j \in 1..Len(one), k \in 1..Len(rest) : Before(one[j], rest[k])
  <2>1. SUFFICES ASSUME NEW j \in 1..Len(one), NEW k \in 1..Len(rest)
                 PROVE  Before(one[j], rest[k])
    OBVIOUS
  <2>2. one[j].paragraph = rest[k].paragraph /\ one[j].to = to /\ to < rest[k].from
    BY <1>6, <1>7, <1>8, <1>9, <1>10
  <2> QED
    BY <2>2 DEF Before
<1>12. /\ one \o rest \in Seq(Fragment) /\ InOrder(one \o rest)
       /\ \A chars : Holds(one, i, chars) \/ Holds(rest, i, chars)
                       => Holds(one \o rest, i, chars)
       /\ \A k \in 1..Len(one \o rest) :
            \/ \E j \in 1..Len(one) : (one \o rest)[k] = one[j]
            \/ \E j \in 1..Len(rest) : (one \o rest)[k] = rest[j]
  BY <1>7, <1>9, <1>11, Joined
<1>13. one \o rest # <<>>
  <2>1. Len(one \o rest) = 1 + Len(rest) /\ Len(rest) \in Nat
    BY <1>7, <1>9, ConcatProperties
  <2> QED
    BY <2>1
<1>14. \A k \in 1..Len(one \o rest) :
          (one \o rest)[k].paragraph = i /\ from <= (one \o rest)[k].from
  <2>1. SUFFICES ASSUME NEW k \in 1..Len(one \o rest)
                 PROVE  (one \o rest)[k].paragraph = i /\ from <= (one \o rest)[k].from
    OBVIOUS
  <2>2. CASE \E j \in 1..Len(one) : (one \o rest)[k] = one[j]
    BY <1>6, <1>7, <2>2
  <2>3. CASE \E j \in 1..Len(rest) : (one \o rest)[k] = rest[j]
    BY <1>6, <1>9, <1>10, <2>3
  <2> QED
    BY <1>12, <2>2, <2>3
<1>15. ASSUME NEW chars \in Uncut(p), \A c \in chars : from <= c
       PROVE  Holds(one \o rest, i, chars)
  <2>1. chars \subseteq Ink(p) /\ \A c \in chars : c \in Nat
    BY <1>1, UncutIsInk
  <2>2. CASE \A c \in chars : next <= c
    BY <1>9, <1>12, <2>2
  <2>3. CASE \E c \in chars : ~ (next <= c)
    <3>1. PICK c \in chars : ~ (next <= c)
      BY <2>3
    <3>2. c < at
      BY <1>2, <1>4, <2>1, <3>1
    <3>3. \A d \in chars : d < at
      BY <1>5, <3>2
    <3>4. chars \subseteq from..to
      BY <1>4, <1>6, <1>15, <2>1, <3>3
    <3> QED
      BY <1>7, <1>12, <3>4
  <2> QED
    BY <2>2, <2>3
<1>16. PartsFrom(one \o rest, i, p, from)
  BY <1>12, <1>13, <1>14, <1>15 DEF PartsFrom
<1> QED
  BY <1>16 DEF one, to, at

\* A paragraph is cut into parts that hold it.
LEMMA Split ==
  ASSUME NEW i \in Nat, NEW p \in Paragraphs
  PROVE  PartsFrom(splitLongParagraph(i, p), i, p, 1)
<1> DEFINE L == p.length
<1>1. PICK h : /\ splitLongParagraph(i, p) = h[1]
               /\ \A from \in 1..L :
                    h[from] = IF L - from < Target THEN <<Part(i, from, L)>>
                              ELSE <<Part(i, from, EndBefore(p, splitAt(p, from)))>>
                                     \o h[Onward(p, splitAt(p, from))]
  BY SplitRuns
<1>2. /\ L \in Nat \ {0} /\ Target \in Nat \ {0} /\ Ink(p) \in SUBSET (1..L)
      /\ 1 \in Ink(p)
  BY ParagraphType, ContentAssumption
<1>3. ASSUME NEW from \in Ink(p), L - from < Target
      PROVE  PartsFrom(h[from], i, p, from)
  <2>1. from \in 1..L /\ h[from] = <<Part(i, from, L)>>
    BY <1>1, <1>2, <1>3
  <2> DEFINE parts == <<Part(i, from, L)>>
  <2>2. /\ parts \in Seq(Fragment) /\ parts # <<>> /\ InOrder(parts)
        /\ \A k \in 1..Len(parts) : parts[k].paragraph = i /\ parts[k].from = from
        /\ \A chars : chars \subseteq from..L => Holds(parts, i, chars)
    <3> HIDE DEF L
    <3> QED
      BY <1>2, <1>3, <2>1, OnePart
  <2> HIDE DEF parts, L
  <2>3. \A chars \in Uncut(p) : (\A c \in chars : from <= c) => Holds(parts, i, chars)
    <3>1. SUFFICES ASSUME NEW chars \in Uncut(p), \A c \in chars : from <= c
                   PROVE  Holds(parts, i, chars)
      OBVIOUS
    <3>2. chars \subseteq from..L
      <4>1. chars \subseteq 1..L
        BY <1>2, UncutIsInk
      <4> QED
        BY <1>2, <2>1, <3>1, <4>1
    <3> QED
      BY <2>2, <3>2
  <2>4. PartsFrom(parts, i, p, from)
    BY <1>2, <2>1, <2>2, <2>3 DEF PartsFrom
  <2> QED
    BY <2>1, <2>4 DEF parts
<1> DEFINE T == {m \in Nat : \A from \in Ink(p) : L - from <= m => PartsFrom(h[from], i, p, from)}
<1>4. 0 \in T
  <2>1. \A from \in Ink(p) : L - from <= 0 => L - from < Target
    BY <1>2
  <2> QED
    BY <1>3, <2>1
<1>5. ASSUME NEW m \in Nat, m \in T PROVE m + 1 \in T
  <2>1. SUFFICES ASSUME NEW from \in Ink(p), L - from <= m + 1
                 PROVE  PartsFrom(h[from], i, p, from)
    OBVIOUS
  <2>2. CASE L - from < Target
    BY <1>3, <2>2
  <2>3. CASE ~ (L - from < Target)
    <3> DEFINE at == splitAt(p, from)
               next == Onward(p, at)
    <3>1. from \in 1..L
      BY <1>2
    <3>2. h[from] = <<Part(i, from, EndBefore(p, at))>> \o h[next]
      BY <1>1, <2>3, <3>1
    <3>3. at \in Nat /\ from < at /\ at <= from + Target
      BY <3>1, WhereItIsCut
    <3>4. next \in Ink(p) /\ at <= next
      <4>1. 1 < at /\ at <= L
        BY <1>2, <2>3, <3>1, <3>3
      <4> HIDE DEF at
      <4> QED
        BY <3>3, <4>1, AroundTheCut
    <3>5. L - next <= m
      <4>1. next \in 1..L
        BY <1>2, <3>4
      <4> HIDE DEF next, at
      <4> QED
        BY <1>2, <2>1, <3>1, <3>3, <3>4, <4>1
    <3>6. PartsFrom(h[next], i, p, next)
      <4> HIDE DEF next, at
      <4> QED
        BY <1>5, <3>4, <3>5
    <3> QED
      BY <2>3, <3>2, <3>6, CutKeeps
  <2> QED
    BY <2>2, <2>3
<1> HIDE DEF T
<1>6. \A m \in Nat : m \in T
  BY <1>4, <1>5, NatAll
<1>7. PartsFrom(h[1], i, p, 1)
  <2>1. L \in T /\ L - 1 <= L
    BY <1>2, <1>6
  <2> HIDE DEF L
  <2> QED
    BY <1>2, <2>1 DEF T
<1> QED
  BY <1>1, <1>7

\* The parts a paragraph adds to the text.
PartsOf(i, p) ==
    IF p.length > Target THEN splitLongParagraph(i, p) ELSE <<Part(i, 1, p.length)>>

LEMMA PartsAreWhole ==
  ASSUME NEW i \in Nat, NEW p \in Paragraphs
  PROVE  /\ PartsOf(i, p) \in Seq(Fragment) /\ InOrder(PartsOf(i, p))
         /\ \A k \in 1..Len(PartsOf(i, p)) : PartsOf(i, p)[k].paragraph = i
         /\ \A chars \in Uncut(p) : Holds(PartsOf(i, p), i, chars)
<1>1. /\ p.length \in Nat \ {0} /\ Target \in Nat \ {0} /\ Ink(p) \in SUBSET (1..p.length)
  BY ParagraphType, ContentAssumption
<1>2. \A chars \in Uncut(p) : chars \subseteq 1..p.length
  BY <1>1, UncutIsInk
<1>3. CASE p.length > Target
  <2>1. PartsOf(i, p) = splitLongParagraph(i, p)
    BY <1>3 DEF PartsOf
  <2>2. PartsFrom(PartsOf(i, p), i, p, 1)
    BY <2>1, Split
  <2>3. \A chars \in Uncut(p) : \A c \in chars : 1 <= c
    BY <1>2
  <2> QED
    BY <2>2, <2>3 DEF PartsFrom
<1>4. CASE ~ (p.length > Target)
  <2>1. PartsOf(i, p) = <<Part(i, 1, p.length)>>
    BY <1>4 DEF PartsOf
  <2>2. 1 <= p.length /\ p.length - 1 < Target /\ p.length \in Nat
    BY <1>1, <1>4
  <2> QED
    BY <1>2, <2>1, <2>2, OnePart
<1> QED
  BY <1>3, <1>4

-----------------------------------------------------------------------------
(* Pages of a text.                                                        *)
Page == {p \in Seq(Fragment) \ {<<>>} : PageLength(p) <= Target}
Made == [pages : Seq(Page), current : Page \cup {<<>>}]
TextOf(acc) == FlattenSeq(acc.pages) \o acc.current

\* A page is as long as its paragraphs and what is between them.
LEMMA PageLengthType ==
  ASSUME NEW s \in Seq(Fragment)
  PROVE  PageLength(s) \in Int /\ (s # <<>> => PageLength(s) \in Nat)
<1> DEFINE L == [i \in 1..Len(s) |-> PartLength(s[i])]
<1>1. \A i \in 1..Len(s) : PartLength(s[i]) \in Nat
  BY FragmentFields
<1>2. L \in Seq(Nat) /\ Len(s) \in Nat /\ (s # <<>> => Len(s) >= 1)
  BY <1>1
<1>3. PageLength(s) = Sum(L) + 2 * (Len(s) - 1)
  BY DEF PageLength
<1> HIDE DEF L
<1>4. Sum(L) \in Nat
  BY <1>2, SumType
<1> QED
  BY <1>2, <1>3, <1>4

\* How long a page is with one paragraph, and with one more.
LEMMA PageLengthOf ==
  ASSUME NEW w \in Fragment, NEW cur \in Seq(Fragment)
  PROVE  /\ PageLength(<<w>>) = PartLength(w)
         /\ PageLength(Append(cur, w)) = PageLength(cur) + PartLength(w) + 2
         /\ PageLength(cur) \in Int /\ PartLength(w) \in Nat
<1> DEFINE L(s) == [i \in 1..Len(s) |-> PartLength(s[i])]
<1>1. \A s \in Seq(Fragment) : /\ L(s) \in Seq(Nat) /\ Len(L(s)) = Len(s) /\ Len(s) \in Nat
                               /\ PageLength(s) = Sum(L(s)) + 2 * (Len(s) - 1)
                               /\ Sum(L(s)) \in Nat
  <2> TAKE s \in Seq(Fragment)
  <2>1. \A i \in 1..Len(s) : PartLength(s[i]) \in Nat
    <3>1. \A i \in 1..Len(s) : s[i] \in Fragment
      OBVIOUS
    <3> QED
      BY <3>1, FragmentFields
  <2>2. L(s) \in Seq(Nat) /\ Len(L(s)) = Len(s) /\ Len(s) \in Nat
    BY <2>1
  <2>3. PageLength(s) = Sum(L(s)) + 2 * (Len(s) - 1)
    BY DEF PageLength
  <2> HIDE DEF L
  <2> QED
    BY <2>2, <2>3, SumType
<1>2. PartLength(w) \in Nat
  BY FragmentFields
<1>3. <<w>> \in Seq(Fragment) /\ Len(<<w>>) = 1 /\ L(<<w>>) = <<PartLength(w)>>
  OBVIOUS
<1>4. PageLength(<<w>>) = PartLength(w)
  <2>1. Sum(<<PartLength(w)>>) = PartLength(w)
    BY <1>2, SumOne
  <2>2. PageLength(<<w>>) = Sum(L(<<w>>)) + 2 * (Len(<<w>>) - 1)
    BY <1>1, <1>3
  <2> HIDE DEF L
  <2>3. PageLength(<<w>>) = PartLength(w) + 2 * (1 - 1)
    BY <1>3, <2>1, <2>2
  <2> QED
    BY <1>2, <2>3
<1>5. Append(cur, w) \in Seq(Fragment) /\ Len(Append(cur, w)) = Len(cur) + 1
  BY AppendProperties
<1>6. L(Append(cur, w)) = L(cur) \o <<PartLength(w)>>
  <2> DEFINE a == L(Append(cur, w))
             b == L(cur)
             n == Len(cur)
  <2>1. a \in Seq(Nat) /\ Len(a) = n + 1 /\ n \in Nat /\ b \in Seq(Nat) /\ Len(b) = n
    BY <1>1, <1>5
  <2>2. /\ \A i \in 1..n : Append(cur, w)[i] = cur[i]
        /\ Append(cur, w)[n + 1] = w
    BY AppendProperties
  <2>3. /\ \A i \in 1..n + 1 : a[i] = PartLength(Append(cur, w)[i])
        /\ \A i \in 1..n : b[i] = PartLength(cur[i])
    BY <1>5
  <2>4. \A i \in 1..n : a[i] = b[i]
    <3> TAKE i \in 1..n
    <3>1. i \in 1..n + 1
      BY <2>1
    <3> QED
      BY <2>2, <2>3, <3>1
  <2>5. a[n + 1] = PartLength(w)
    <3>1. n + 1 \in 1..n + 1
      BY <2>1
    <3> QED
      BY <2>2, <2>3, <3>1
  <2> HIDE DEF a, b, n
  <2>6. /\ Append(b, PartLength(w)) \in Seq(Nat) /\ Len(Append(b, PartLength(w))) = n + 1
        /\ \A i \in 1..n : Append(b, PartLength(w))[i] = b[i]
        /\ Append(b, PartLength(w))[n + 1] = PartLength(w)
    BY <1>2, <2>1, AppendProperties
  <2>7. \A i \in 1..n + 1 : a[i] = Append(b, PartLength(w))[i]
    <3> TAKE i \in 1..n + 1
    <3>1. i \in 1..n \/ i = n + 1
      BY <2>1
    <3> QED
      BY <2>4, <2>5, <2>6, <3>1
  <2>8. a = Append(b, PartLength(w))
    BY <2>1, <2>6, <2>7, SeqEqual
  <2>9. Append(b, PartLength(w)) = b \o <<PartLength(w)>>
    BY <1>2, <2>1, AppendIsConcat
  <2> QED
    BY <2>8, <2>9 DEF a, b
<1>7. Sum(L(cur) \o <<PartLength(w)>>) = Sum(L(cur)) + PartLength(w)
  <2>1. L(cur) \in Seq(Nat)
    BY <1>1
  <2> HIDE DEF L
  <2>2. <<PartLength(w)>> \in Seq(Nat)
    BY <1>2
  <2> QED
    BY <1>2, <2>1, <2>2, SumConcat, SumOne
<1>8. /\ PageLength(Append(cur, w)) = Sum(L(cur)) + PartLength(w) + 2 * (Len(cur) + 1 - 1)
      /\ PageLength(cur) = Sum(L(cur)) + 2 * (Len(cur) - 1)
      /\ Sum(L(cur)) \in Nat /\ Len(cur) \in Nat
  <2>1. /\ PageLength(Append(cur, w)) = Sum(L(Append(cur, w))) + 2 * (Len(Append(cur, w)) - 1)
        /\ PageLength(cur) = Sum(L(cur)) + 2 * (Len(cur) - 1)
        /\ Sum(L(cur)) \in Nat /\ Len(cur) \in Nat
    BY <1>1, <1>5
  <2> HIDE DEF L
  <2> QED
    BY <1>5, <1>6, <1>7, <2>1
<1> HIDE DEF L
<1> QED
  BY <1>2, <1>4, <1>8

LEMMA PagesAreTexts ==
  ASSUME NEW pages \in Seq(Page)
  PROVE  pages \in Seq(Seq(Fragment)) /\ FlattenSeq(pages) \in Seq(Fragment)
<1>1. Page \subseteq Seq(Fragment)
  BY DEF Page
<1>2. pages \in Seq(Seq(Fragment))
  <2> HIDE DEF Page
  <2> QED
    BY <1>1, SeqMonotonic
<1> QED
  BY <1>2, FlattenType

\* What has been made is a text, and closing the page under way keeps it.
LEMMA MadeType ==
  ASSUME NEW acc \in Made
  PROVE  /\ acc.pages \in Seq(Page) /\ (acc.current = <<>> \/ acc.current \in Page)
         /\ acc.current \in Seq(Fragment) /\ TextOf(acc) \in Seq(Fragment)
<1>1. acc.pages \in Seq(Page) /\ (acc.current = <<>> \/ acc.current \in Page)
  BY DEF Made
<1>2. acc.current \in Seq(Fragment)
  <2>1. <<>> \in Seq(Fragment) /\ Page \subseteq Seq(Fragment)
    BY DEF Page
  <2> HIDE DEF Page
  <2> QED
    BY <1>1, <2>1
<1>3. FlattenSeq(acc.pages) \in Seq(Fragment)
  BY <1>1, PagesAreTexts
<1> QED
  BY <1>1, <1>2, <1>3, ConcatProperties DEF TextOf

LEMMA ClosedKeeps ==
  ASSUME NEW acc \in Made
  PROVE  Closed(acc) \in Seq(Page) /\ FlattenSeq(Closed(acc)) = TextOf(acc)
<1>1. acc.pages \in Seq(Page) /\ (acc.current = <<>> \/ acc.current \in Page)
  BY MadeType
<1>2. acc.pages \in Seq(Seq(Fragment)) /\ FlattenSeq(acc.pages) \in Seq(Fragment)
  BY <1>1, PagesAreTexts
<1>3. CASE acc.current = <<>>
  <2>1. Closed(acc) = acc.pages
    BY <1>3 DEF Closed
  <2>2. FlattenSeq(acc.pages) \o <<>> = FlattenSeq(acc.pages)
    BY <1>2, ConcatEmptySeq
  <2> QED
    BY <1>1, <1>3, <2>1, <2>2 DEF TextOf
<1>4. CASE acc.current # <<>>
  <2>1. acc.current \in Page /\ acc.current \in Seq(Fragment)
    BY <1>1, <1>4, MadeType
  <2>2. Closed(acc) = Append(acc.pages, acc.current)
    BY <1>4 DEF Closed
  <2>3. Append(acc.pages, acc.current) \in Seq(Page)
    BY <1>1, <2>1, AppendProperties
  <2>4. FlattenSeq(Append(acc.pages, acc.current)) = FlattenSeq(acc.pages) \o acc.current
    BY <1>2, <2>1, FlattenAppend
  <2> QED
    BY <2>2, <2>3, <2>4, Zenon DEF TextOf
<1> QED
  BY <1>3, <1>4

\* The fragments of a paragraph as pages of their own.
LEMMA FragmentPages ==
  ASSUME NEW fragments \in Seq(Fragment)
  PROVE  LET own == [i \in 1..Len(fragments) |-> <<fragments[i]>>]
         IN own \in Seq(Page) /\ FlattenSeq(own) = fragments
<1>1. \A i \in 1..Len(fragments) : <<fragments[i]>> \in Page
  <2> TAKE i \in 1..Len(fragments)
  <2> DEFINE x == fragments[i]
  <2>1. x \in Fragment
    OBVIOUS
  <2> HIDE DEF x
  <2>2. PageLength(<<x>>) = PartLength(x) /\ PartLength(x) <= Target
    <3>1. PageLength(<<x>>) = PartLength(x)
      BY <2>1, PageLengthOf
    <3> QED
      BY <2>1, <3>1 DEF Fragment
  <2>3. <<x>> \in Seq(Fragment) \ {<<>>}
    BY <2>1
  <2>4. <<x>> \in Page
    BY <2>2, <2>3 DEF Page
  <2> QED
    BY <2>4 DEF x
<1>2. [i \in 1..Len(fragments) |-> <<fragments[i]>>] \in Seq(Page)
  BY <1>1
<1> QED
  BY <1>2, FlattenSingletons

\* A paragraph more adds its parts to the text.
LEMMA AddParagraphKeeps ==
  ASSUME NEW acc \in Made, NEW i \in Nat, NEW p \in Paragraphs
  PROVE  /\ AddParagraph(acc, i, p) \in Made
         /\ TextOf(AddParagraph(acc, i, p)) = TextOf(acc) \o PartsOf(i, p)
<1> DEFINE full == /\ acc.current # <<>>
                   /\ PageLength(acc.current) + p.length + 2 > Target
           before == IF full THEN [pages |-> Append(acc.pages, acc.current), current |-> <<>>]
                     ELSE acc
           fragments == splitLongParagraph(i, p)
           new == AddParagraph(acc, i, p)
<1>1. /\ p.length > Target =>
           new = [pages |-> before.pages \o [k \in 1..Len(fragments) |-> <<fragments[k]>>],
                  current |-> <<>>]
      /\ ~ (p.length > Target) =>
           new = [pages |-> before.pages, current |-> Append(before.current, Part(i, 1, p.length))]
  BY DEF AddParagraph
<1>2. /\ acc.pages \in Seq(Page) /\ (acc.current = <<>> \/ acc.current \in Page)
      /\ Target \in Nat \ {0} /\ p.length \in Nat \ {0}
      /\ PartsOf(i, p) \in Seq(Fragment)
  BY MadeType, ParagraphType, PartsAreWhole, ContentAssumption
<1>3. /\ before \in Made /\ TextOf(before) = TextOf(acc)
      /\ before.current # <<>> => PageLength(before.current) + p.length + 2 <= Target
      /\ p.length > Target => before.current = <<>>
  <2>1. CASE full
    <3>1. before = [pages |-> Append(acc.pages, acc.current), current |-> <<>>]
      BY <2>1
    <3>2. acc.current # <<>> /\ acc.current \in Page /\ Closed(acc) = Append(acc.pages, acc.current)
      BY <1>2, <2>1 DEF Closed
    <3> HIDE DEF before, full
    <3>3. before.pages = Closed(acc) /\ before.current = <<>>
      BY <3>1, <3>2
    <3>4. before \in Made
      BY <3>1, <3>2, ClosedKeeps DEF Made
    <3>5. FlattenSeq(before.pages) \in Seq(Fragment)
      BY <3>4, MadeType, PagesAreTexts
    <3>6. FlattenSeq(before.pages) \o <<>> = FlattenSeq(before.pages)
      BY <3>5, ConcatEmptySeq
    <3>7. TextOf(before) = FlattenSeq(Closed(acc))
      BY <3>3, <3>6, Zenon DEF TextOf
    <3> QED
      BY <3>3, <3>4, <3>7, ClosedKeeps
  <2>2. CASE ~ full
    <3>1. before = acc
      BY <2>2
    <3>2. acc.current # <<>> => /\ PageLength(acc.current) + p.length + 2 <= Target
                                /\ PageLength(acc.current) \in Nat
      <4>1. SUFFICES ASSUME acc.current # <<>>
                     PROVE  /\ PageLength(acc.current) + p.length + 2 <= Target
                            /\ PageLength(acc.current) \in Nat
        OBVIOUS
      <4>2. PageLength(acc.current) \in Nat
        BY <4>1, MadeType, PageLengthType
      <4>3. ~ (PageLength(acc.current) + p.length + 2 > Target)
        BY <2>2, <4>1
      <4> QED
        BY <1>2, <4>2, <4>3
    <3>3. p.length > Target => acc.current = <<>>
      BY <1>2, <3>2
    <3> HIDE DEF before, full
    <3> QED
      BY <3>1, <3>2, <3>3
  <2> QED
    BY <2>1, <2>2
<1> HIDE DEF before, full
<1>4. /\ before.pages \in Seq(Page) /\ (before.current = <<>> \/ before.current \in Page)
      /\ before.current \in Seq(Fragment)
      /\ before.pages \in Seq(Seq(Fragment)) /\ FlattenSeq(before.pages) \in Seq(Fragment)
  BY <1>3, MadeType, PagesAreTexts
<1>5. CASE p.length > Target
  <2> DEFINE own == [k \in 1..Len(fragments) |-> <<fragments[k]>>]
  <2>1. fragments \in Seq(Fragment) /\ fragments = PartsOf(i, p)
    BY <1>2, <1>5 DEF PartsOf
  <2>2. own \in Seq(Page) /\ FlattenSeq(own) = fragments
    <3> HIDE DEF fragments
    <3> QED
      BY <2>1, FragmentPages
  <2>3. new = [pages |-> before.pages \o own, current |-> <<>>]
    BY <1>1, <1>5
  <2> HIDE DEF own, fragments, new
  <2>4. new.pages = before.pages \o own /\ new.current = <<>>
    BY <2>3
  <2>5. new \in Made
    <3>1. before.pages \o own \in Seq(Page)
      BY <1>4, <2>2, ConcatProperties
    <3> QED
      BY <2>3, <3>1 DEF Made
  <2>6. FlattenSeq(before.pages \o own) = FlattenSeq(before.pages) \o PartsOf(i, p)
    <3>1. own \in Seq(Seq(Fragment))
      BY <2>2, PagesAreTexts
    <3> QED
      BY <1>4, <2>1, <2>2, <3>1, FlattenConcat
  <2>7. before.current = <<>>
    BY <1>3, <1>5
  <2>8. FlattenSeq(new.pages) \in Seq(Fragment)
    BY <2>5, MadeType, PagesAreTexts
  <2>9. /\ FlattenSeq(before.pages) \o <<>> = FlattenSeq(before.pages)
        /\ FlattenSeq(new.pages) \o <<>> = FlattenSeq(new.pages)
    BY <1>4, <2>8, ConcatEmptySeq
  <2>10. TextOf(new) = TextOf(acc) \o PartsOf(i, p)
    BY <1>3, <2>4, <2>6, <2>7, <2>9, Zenon DEF TextOf
  <2> QED
    BY <2>5, <2>10 DEF new
<1>6. CASE ~ (p.length > Target)
  <2> DEFINE x == Part(i, 1, p.length)
  <2>1. new = [pages |-> before.pages, current |-> Append(before.current, x)]
    BY <1>1, <1>6
  <2>2. x \in Fragment /\ PartLength(x) = p.length
    <3>1. p.length \in Nat /\ 1 <= p.length /\ p.length - 1 < Target
      BY <1>2, <1>6
    <3>2. x \in Fragment /\ PartLength(x) = p.length - 1 + 1
      BY <3>1, PartType
    <3> HIDE DEF x
    <3> QED
      BY <3>1, <3>2
  <2>3. PartsOf(i, p) = <<x>>
    BY <1>6 DEF PartsOf
  <2> DEFINE cur == before.current
  <2>4. cur \in Seq(Fragment) /\ x \in Fragment
    BY <1>4, <2>2
  <2> HIDE DEF x, cur
  <2>5. /\ Append(cur, x) \in Seq(Fragment) \ {<<>>}
        /\ Append(cur, x) = cur \o <<x>> /\ <<x>> \in Seq(Fragment)
    BY <2>4, AppendProperties, AppendIsConcat
  <2>6. Append(before.current, x) \in Page
    <3>1. Append(before.current, x) \in Seq(Fragment) \ {<<>>}
      BY <2>5 DEF cur
    <3>2. PageLength(Append(before.current, x)) <= Target
      <4>1. CASE before.current = <<>>
        <5>1. Append(before.current, x) = <<x>>
          BY <4>1
        <5>2. PageLength(<<x>>) = PartLength(x)
          BY <1>4, <2>2, PageLengthOf
        <5> QED
          BY <1>2, <1>6, <2>2, <5>1, <5>2
      <4>2. CASE before.current # <<>>
        <5>1. PageLength(Append(before.current, x)) = PageLength(before.current) + PartLength(x) + 2
          BY <1>4, <2>2, PageLengthOf
        <5> QED
          BY <1>3, <2>2, <4>2, <5>1
      <4> QED
        BY <4>1, <4>2
    <3> QED
      BY <3>1, <3>2 DEF Page
  <2> HIDE DEF new
  <2>7. new \in Made /\ new.pages = before.pages /\ new.current = Append(before.current, x)
    BY <1>4, <2>1, <2>6 DEF Made
  <2>8. Append(before.current, x) = before.current \o <<x>> /\ <<x>> \in Seq(Fragment)
    BY <2>5 DEF cur
  <2>9. (FlattenSeq(before.pages) \o before.current) \o <<x>>
          = FlattenSeq(before.pages) \o (before.current \o <<x>>)
    <3>1. \A a, b, c \in Seq(Fragment) : (a \o b) \o c = a \o (b \o c)
      BY ConcatAssociative
    <3> QED
      BY <1>4, <2>8, <3>1, Zenon
  <2>10. TextOf(new) = TextOf(acc) \o PartsOf(i, p)
    BY <1>3, <2>3, <2>7, <2>8, <2>9, Zenon DEF TextOf
  <2> QED
    BY <2>7, <2>10 DEF new
<1> QED
  BY <1>5, <1>6

\* A text is cut paragraph by paragraph.
LEMMA TextRuns ==
  ASSUME NEW paragraphs \in Seq(Paragraphs)
  PROVE  \E f \in [0..Len(paragraphs) -> Made] :
            /\ f[0] = NothingMade
            /\ \A i \in 1..Len(paragraphs) : f[i] = AddParagraph(f[i - 1], i, paragraphs[i])
            /\ TextPages(paragraphs) = Closed(f[Len(paragraphs)])
<1> DEFINE n == Len(paragraphs)
           A == Made
           base == NothingMade
           Turn(a, i) == AddParagraph(a, i, paragraphs[i])
           step == [i \in 1..n |-> [a \in A |-> Turn(a, i)]]
           Rec(h) == h = [i \in 0..n |-> IF i = 0 THEN base ELSE Turn(h[i - 1], i)]
           f == CHOOSE h : Rec(h)
<1>1. n \in Nat /\ base \in A
  <2>1. <<>> \in Seq(Page)
    OBVIOUS
  <2> QED
    BY <2>1 DEF NothingMade, Made
<1>2. \A a \in A, i \in 1..n : Turn(a, i) \in A
  <2>1. \A i \in 1..n : i \in Nat /\ paragraphs[i] \in Paragraphs
    OBVIOUS
  <2> QED
    BY <2>1, AddParagraphKeeps
<1>3. TextPages(paragraphs) = Closed(f[n])
  BY DEF TextPages
<1> HIDE DEF n, A, base, Turn, f
<1>4. \E g \in [0..n -> A] : g[0] = base /\ \A i \in 1..n : g[i] = Turn(g[i - 1], i)
  <2>1. \A a \in A, i \in 1..n : step[i][a] = Turn(a, i)
    OBVIOUS
  <2>2. \A a \in A, i \in 1..n : step[i][a] \in A
    BY <1>2, <2>1
  <2> HIDE DEF step
  <2>3. HasRun(A, n, base, step)
    BY <1>1, <2>2, Recursion
  <2>4. PICK g \in [0..n -> A] :
             g[0] = base /\ \A i \in 1..n : g[i] = step[i][g[i - 1]]
    BY <2>3 DEF HasRun
  <2>5. \A i \in 1..n : g[i - 1] \in A
    BY <1>1
  <2> QED
    BY <2>1, <2>4, <2>5
<1>5. PICK g \in [0..n -> A] : g[0] = base /\ \A i \in 1..n : g[i] = Turn(g[i - 1], i)
  BY <1>4
<1>6. Rec(g)
  BY <1>1, <1>5
<1>7. Rec(f)
  <2> HIDE DEF Rec
  <2> QED
    BY <1>6 DEF f
<1>8. f[0] = base /\ \A i \in 1..n : f[i] = Turn(f[i - 1], i)
  BY <1>1, <1>7
<1>9. \A i \in 0..n : f[i] = g[i]
  <2> DEFINE T == {i \in Nat : f[i] = g[i]}
  <2>1. 0 \in T
    BY <1>5, <1>8
  <2>2. ASSUME NEW i \in 0..n - 1, i \in T PROVE i + 1 \in T
    <3>1. i + 1 \in 1..n /\ (i + 1) - 1 = i
      BY <1>1
    <3> QED
      BY <1>5, <1>8, <2>2, <3>1
  <2> HIDE DEF T
  <2>3. \A i \in 0..n : i \in T
    BY <1>1, <2>1, <2>2, UpToAll
  <2> QED
    BY <2>3 DEF T
<1>10. TextPages(paragraphs) = Closed(g[n])
  BY <1>1, <1>3, <1>9
<1> QED
  BY <1>5, <1>10 DEF n, A, base, Turn

\* The pages of a text hold it, whatever its paragraphs are.
LEMMA TextPagesAreWhole ==
  ASSUME NEW paragraphs \in Seq(Paragraphs)
  PROVE  TextIsWhole(paragraphs)
<1> DEFINE n == Len(paragraphs)
           pages == TextPages(paragraphs)
<1>1. PICK f \in [0..n -> Made] :
         /\ f[0] = NothingMade
         /\ \A i \in 1..n : f[i] = AddParagraph(f[i - 1], i, paragraphs[i])
         /\ pages = Closed(f[n])
  BY TextRuns
<1>2. n \in Nat /\ \A i \in 1..n : paragraphs[i] \in Paragraphs
  OBVIOUS
<1> DEFINE WholeUpTo(text, m) ==
             /\ text \in Seq(Fragment) /\ InOrder(text)
             /\ \A k \in 1..Len(text) : text[k].paragraph <= m
             /\ \A i \in 1..m : \A chars \in Uncut(paragraphs[i]) : Holds(text, i, chars)
           T == {i \in Nat : WholeUpTo(TextOf(f[i]), i)}
<1>3. 0 \in T
  <2>1. NothingMade.pages = <<>> /\ NothingMade.current = <<>>
    BY DEF NothingMade
  <2>2. FlattenSeq(<<>>) = <<>> /\ <<>> \o <<>> = <<>>
    <3>1. <<>> \in Seq(Fragment)
      OBVIOUS
    <3> QED
      BY <3>1, FlattenEmpty, ConcatEmptySeq
  <2>3. TextOf(f[0]) = <<>>
    BY <1>1, <2>1, <2>2, Zenon DEF TextOf
  <2>4. WholeUpTo(<<>>, 0)
    BY DEF InOrder
  <2> HIDE DEF WholeUpTo
  <2> QED
    BY <2>3, <2>4
<1>4. ASSUME NEW i \in 0..n - 1, i \in T
      PROVE  i + 1 \in T
  <2>1. i + 1 \in 1..n /\ (i + 1) - 1 = i /\ i \in 0..n /\ i + 1 \in Nat /\ i \in Nat
    BY <1>2
  <2> DEFINE p == paragraphs[i + 1]
             a == TextOf(f[i])
             b == PartsOf(i + 1, p)
  <2>2. f[i] \in Made /\ p \in Paragraphs /\ f[i + 1] = AddParagraph(f[i], i + 1, p)
    BY <1>1, <1>2, <2>1
  <2>3. WholeUpTo(a, i)
    BY <1>4
  <2>4. TextOf(f[i + 1]) = a \o b
    <3> HIDE DEF p
    <3> QED
      BY <2>1, <2>2, AddParagraphKeeps
  <2>5. /\ b \in Seq(Fragment) /\ InOrder(b)
        /\ \A k \in 1..Len(b) : b[k].paragraph = i + 1
        /\ \A chars \in Uncut(p) : Holds(b, i + 1, chars)
    BY <2>1, <2>2, PartsAreWhole
  <2> HIDE DEF a, b, T, n
  <2>6. \A k \in 1..Len(a) : a[k] \in Fragment /\ a[k].paragraph \in Nat
    <3>1. \A k \in 1..Len(a) : a[k] \in Fragment
      BY <2>3
    <3> QED
      BY <3>1, FragmentFields
  <2>7. \A j \in 1..Len(a), k \in 1..Len(b) : Before(a[j], b[k])
    <3>1. SUFFICES ASSUME NEW j \in 1..Len(a), NEW k \in 1..Len(b)
                   PROVE  Before(a[j], b[k])
      OBVIOUS
    <3>2. a[j].paragraph < b[k].paragraph
      BY <2>1, <2>3, <2>5, <2>6
    <3> QED
      BY <3>2 DEF Before
  <2>8. /\ a \o b \in Seq(Fragment) /\ InOrder(a \o b)
        /\ \A q, chars : Holds(a, q, chars) \/ Holds(b, q, chars) => Holds(a \o b, q, chars)
        /\ \A k \in 1..Len(a \o b) : \/ \E j \in 1..Len(a) : (a \o b)[k] = a[j]
                                     \/ \E j \in 1..Len(b) : (a \o b)[k] = b[j]
    BY <2>3, <2>5, <2>7, Joined
  <2>9. \A k \in 1..Len(a \o b) : (a \o b)[k].paragraph <= i + 1
    <3>1. SUFFICES ASSUME NEW k \in 1..Len(a \o b) PROVE (a \o b)[k].paragraph <= i + 1
      OBVIOUS
    <3>2. CASE \E j \in 1..Len(a) : (a \o b)[k] = a[j]
      BY <2>1, <2>3, <2>6, <3>2
    <3>3. CASE \E j \in 1..Len(b) : (a \o b)[k] = b[j]
      BY <2>1, <2>5, <3>3
    <3> QED
      BY <2>8, <3>2, <3>3
  <2>10. ASSUME NEW j \in 1..i + 1, NEW chars \in Uncut(paragraphs[j])
         PROVE  Holds(a \o b, j, chars)
    <3>1. CASE j = i + 1
      BY <2>5, <2>8, <3>1
    <3>2. CASE j # i + 1
      <4>1. j \in 1..i
        BY <2>1, <3>2
      <4>2. Holds(a, j, chars)
        BY <2>3, <4>1
      <4> QED
        BY <2>8, <4>2
    <3> QED
      BY <3>1, <3>2
  <2>11. WholeUpTo(a \o b, i + 1)
    BY <2>8, <2>9, <2>10
  <2> HIDE DEF WholeUpTo
  <2>12. WholeUpTo(TextOf(f[i + 1]), i + 1)
    BY <2>4, <2>11
  <2> QED
    BY <2>1, <2>12 DEF T
<1> HIDE DEF T
<1>5. \A i \in 0..n : i \in T
  <2> HIDE DEF n
  <2> QED
    BY <1>2, <1>3, <1>4, UpToAll
<1>6. WholeUpTo(TextOf(f[n]), n)
  <2>1. n \in T
    BY <1>2, <1>5
  <2> QED
    BY <2>1 DEF T
<1>7. pages \in Seq(Page) /\ FlattenSeq(pages) = TextOf(f[n])
  <2>1. f[n] \in Made
    BY <1>2
  <2>2. Closed(f[n]) \in Seq(Page) /\ FlattenSeq(Closed(f[n])) = TextOf(f[n])
    BY <2>1, ClosedKeeps
  <2> HIDE DEF pages, n
  <2> QED
    BY <1>1, <2>2, Zenon
<1> HIDE DEF pages
<1>8. WholeUpTo(FlattenSeq(pages), n)
  <2> HIDE DEF WholeUpTo, n
  <2> QED
    BY <1>6, <1>7, Zenon
<1>9. \A j \in 1..Len(pages) : pages[j] # <<>> /\ PageLength(pages[j]) <= Target
  BY <1>7 DEF Page
<1>10. /\ InOrder(FlattenSeq(pages))
       /\ \A i \in 1..Len(paragraphs) : \A chars \in Uncut(paragraphs[i]) :
             Holds(FlattenSeq(pages), i, chars)
  BY <1>8
<1> QED
  BY <1>9, <1>10 DEF TextIsWhole, Holds, pages

-----------------------------------------------------------------------------
(* Pages of HTML.                                                          *)
Word == Nat \ {0}

LEMMA WordsAreNumbers ==
  ASSUME NEW w \in Seq(Word)
  PROVE  w \in Seq(Nat)
<1>1. Word \subseteq Nat
  BY DEF Word
<1> HIDE DEF Word
<1> QED
  BY <1>1, SeqMonotonic

Sheet == {p \in Seq(Word) \ {<<>>} : Len(p) > 1 => Sum(p) < Target}
MadeSheets == [pages : Seq(Sheet), current : Sheet \cup {<<>>}]
BlocksOf(acc) == FlattenSeq(acc.pages) \o acc.current

LEMMA SheetsAreBlocks ==
  ASSUME NEW pages \in Seq(Sheet)
  PROVE  pages \in Seq(Seq(Word)) /\ FlattenSeq(pages) \in Seq(Word)
<1>1. Sheet \subseteq Seq(Word)
  BY DEF Sheet
<1>2. pages \in Seq(Seq(Word))
  <2> HIDE DEF Sheet
  <2> QED
    BY <1>1, SeqMonotonic
<1> QED
  BY <1>2, FlattenType

\* Closing the page under way keeps its blocks.
LEMMA ClosedSheets ==
  ASSUME NEW acc \in MadeSheets
  PROVE  Closed(acc) \in Seq(Sheet) /\ FlattenSeq(Closed(acc)) = BlocksOf(acc)
<1>1. acc.pages \in Seq(Sheet) /\ (acc.current = <<>> \/ acc.current \in Sheet)
  BY DEF MadeSheets
<1>2. CASE acc.current = <<>>
  <2>1. Closed(acc) = acc.pages
    BY <1>2 DEF Closed
  <2>2. FlattenSeq(acc.pages) \o <<>> = FlattenSeq(acc.pages)
    BY <1>1, SheetsAreBlocks, ConcatEmptySeq
  <2> QED
    BY <1>1, <1>2, <2>1, <2>2, Zenon DEF BlocksOf
<1>3. CASE acc.current # <<>>
  <2>1. acc.current \in Sheet /\ acc.current \in Seq(Word)
    BY <1>1, <1>3 DEF Sheet
  <2>2. Closed(acc) = Append(acc.pages, acc.current)
    BY <1>3 DEF Closed
  <2>3. Append(acc.pages, acc.current) \in Seq(Sheet)
    BY <1>1, <2>1, AppendProperties
  <2>4. FlattenSeq(Append(acc.pages, acc.current)) = FlattenSeq(acc.pages) \o acc.current
    BY <1>1, <2>1, SheetsAreBlocks, FlattenAppend
  <2> QED
    BY <2>2, <2>3, <2>4, Zenon DEF BlocksOf
<1> QED
  BY <1>2, <1>3

\* A block more, and nothing of it is lost.
LEMMA AddBlockKeeps ==
  ASSUME NEW acc \in MadeSheets, NEW block \in Word
  PROVE  /\ AddBlock(acc, block) \in MadeSheets
         /\ BlocksOf(AddBlock(acc, block)) = Append(BlocksOf(acc), block)
<1> DEFINE length == Sum(acc.current)
           new == AddBlock(acc, block)
<1>1. /\ acc.pages \in Seq(Sheet) /\ (acc.current = <<>> \/ acc.current \in Sheet)
      /\ Target \in Nat \ {0} /\ block \in Nat /\ block > 0
  BY ContentAssumption DEF MadeSheets, Word
<1>2. acc.current \in Seq(Word) /\ acc.current \in Seq(Nat)
  <2>1. <<>> \in Seq(Word) /\ Sheet \subseteq Seq(Word)
    BY DEF Sheet
  <2> HIDE DEF Sheet
  <2>2. acc.current \in Seq(Word)
    BY <1>1, <2>1
  <2> QED
    BY <2>2, WordsAreNumbers
<1>3. length \in Nat /\ FlattenSeq(acc.pages) \in Seq(Word) /\ acc.pages \in Seq(Seq(Word))
  BY <1>1, <1>2, SumType, SheetsAreBlocks
<1>4. CASE length > 0 /\ length + 1 + block > Target
  <2>1. new = [pages |-> Append(acc.pages, acc.current), current |-> <<block>>]
    BY <1>4 DEF AddBlock
  <2>2. acc.current # <<>>
    <3>1. acc.current = <<>> => length = 0
      BY SumEmpty
    <3> QED
      BY <1>4, <3>1
  <2>3. acc.current \in Sheet /\ Closed(acc) = Append(acc.pages, acc.current)
    BY <1>1, <2>2 DEF Closed
  <2>4. <<block>> \in Sheet
    <3>1. <<block>> \in Seq(Word) /\ <<block>> # <<>> /\ Len(<<block>>) = 1
      OBVIOUS
    <3> QED
      BY <3>1 DEF Sheet
  <2> HIDE DEF new
  <2>5. new.pages = Closed(acc) /\ new.current = <<block>>
    BY <2>1, <2>3
  <2>6. new \in MadeSheets
    BY <2>1, <2>3, <2>4, ClosedSheets DEF MadeSheets
  <2>7. BlocksOf(new) = BlocksOf(acc) \o <<block>>
    BY <2>5, ClosedSheets, Zenon DEF BlocksOf
  <2>8. BlocksOf(acc) \in Seq(Word)
    BY <1>2, <1>3, ConcatProperties DEF BlocksOf
  <2>9. Append(BlocksOf(acc), block) = BlocksOf(acc) \o <<block>>
    BY <2>8, AppendIsConcat
  <2> QED
    BY <2>6, <2>7, <2>9 DEF new
<1>5. CASE ~ (length > 0 /\ length + 1 + block > Target)
  <2>1. new = [pages |-> acc.pages, current |-> Append(acc.current, block)]
    BY <1>5 DEF AddBlock
  <2>2. Append(acc.current, block) \in Sheet
    <3>1. /\ Append(acc.current, block) \in Seq(Word) \ {<<>>}
          /\ Append(acc.current, block) = acc.current \o <<block>>
          /\ Len(Append(acc.current, block)) = Len(acc.current) + 1
      <4> DEFINE current == acc.current
      <4>1. current \in Seq(Word) /\ block \in Word
        BY <1>2
      <4> HIDE DEF current
      <4>2. /\ Append(current, block) \in Seq(Word) /\ Append(current, block) # <<>>
            /\ Len(Append(current, block)) = Len(current) + 1
        BY <4>1, AppendProperties
      <4>3. Append(current, block) = current \o <<block>>
        BY <4>1, AppendIsConcat
      <4> QED
        BY <4>2, <4>3 DEF current
    <3>2. Sum(Append(acc.current, block)) = length + block
      <4>1. <<block>> \in Seq(Nat) /\ Sum(<<block>>) = block
        BY <1>1, SumOne
      <4>2. Sum(acc.current \o <<block>>) = Sum(acc.current) + Sum(<<block>>)
        BY <1>2, <4>1, SumConcat
      <4> QED
        BY <3>1, <4>1, <4>2
    <3>3. ASSUME Len(Append(acc.current, block)) > 1
          PROVE  Sum(Append(acc.current, block)) < Target
      <4>1. Len(acc.current) \in Nat /\ Len(acc.current) > 0
        BY <1>2, <3>1, <3>3
      <4>2. 1 \in 1..Len(acc.current) /\ acc.current[1] \in Word
        BY <1>2, <4>1
      <4>3. acc.current[1] <= length
        BY <1>2, <4>2, SumBounds
      <4>4. length > 0
        BY <1>3, <4>2, <4>3 DEF Word
      <4> QED
        BY <1>1, <1>3, <1>5, <3>2, <4>4
    <3> QED
      BY <3>1, <3>3 DEF Sheet
  <2> HIDE DEF new
  <2>3. new \in MadeSheets /\ new.pages = acc.pages /\ new.current = Append(acc.current, block)
    BY <1>1, <2>1, <2>2 DEF MadeSheets
  <2>4. Append(acc.current, block) = acc.current \o <<block>>
    BY <1>2, AppendIsConcat
  <2>5. BlocksOf(acc) \in Seq(Word)
    BY <1>2, <1>3, ConcatProperties DEF BlocksOf
  <2>6. Append(BlocksOf(acc), block) = BlocksOf(acc) \o <<block>>
    BY <2>5, AppendIsConcat
  <2>7. \A a, b, c \in Seq(Word) : (a \o b) \o c = a \o (b \o c)
    BY ConcatAssociative
  <2>8. <<block>> \in Seq(Word)
    OBVIOUS
  <2>9. (FlattenSeq(acc.pages) \o acc.current) \o <<block>>
          = FlattenSeq(acc.pages) \o (acc.current \o <<block>>)
    BY <1>2, <1>3, <2>7, <2>8, Zenon
  <2>10. BlocksOf(new) = BlocksOf(acc) \o <<block>>
    BY <2>3, <2>4, <2>9, Zenon DEF BlocksOf
  <2> QED
    BY <2>3, <2>6, <2>10 DEF new
<1> QED
  BY <1>4, <1>5

\* The blocks that have text are words, as it were.
LEMMA WithTextType ==
  ASSUME NEW blocks \in Seq(Nat)
  PROVE  WithText(blocks) \in Seq(Word)
<1> DEFINE K == {i \in 1..Len(blocks) : blocks[i] > 0}
           a == At(blocks, K)
<1>1. a \in Seq(Nat) /\ Selects(a, blocks, K, Len(blocks))
  <2> HIDE DEF K
  <2> QED
    BY AtElements
<1>2. \A k \in 1..Len(a) : \E j \in K \cap 1..Len(blocks) : a[k] = blocks[j]
  BY <1>1 DEF Selects
<1>3. \A j \in K : blocks[j] \in Word
  BY DEF Word
<1>4. WithText(blocks) = a
  BY DEF WithText
<1> HIDE DEF K, a
<1>5. \A k \in 1..Len(a) : a[k] \in Word
  BY <1>2, <1>3
<1>6. a \in Seq(Word)
  BY <1>1, <1>5
<1> QED
  BY <1>4, <1>6

\* Some HTML is cut block by block.
LEMMA SheetRuns ==
  ASSUME NEW blocks \in Seq(Nat), WithText(blocks) \in Seq(Word)
  PROVE  \E f \in [0..Len(WithText(blocks)) -> MadeSheets] :
            /\ f[0] = NothingMade
            /\ \A i \in 1..Len(WithText(blocks)) : f[i] = AddBlock(f[i - 1], WithText(blocks)[i])
            /\ HtmlPages(blocks) = Closed(f[Len(WithText(blocks))])
<1> DEFINE n == Len(WithText(blocks))
           A == MadeSheets
           base == NothingMade
           Turn(a, i) == AddBlock(a, WithText(blocks)[i])
           step == [i \in 1..n |-> [a \in A |-> Turn(a, i)]]
           Rec(h) == h = [i \in 0..n |-> IF i = 0 THEN base ELSE Turn(h[i - 1], i)]
           f == CHOOSE h : Rec(h)
<1>1. n \in Nat /\ base \in A
  <2>1. <<>> \in Seq(Sheet)
    OBVIOUS
  <2> QED
    BY <2>1 DEF NothingMade, MadeSheets
<1>2. \A a \in A, i \in 1..n : Turn(a, i) \in A
  BY AddBlockKeeps
<1>3. HtmlPages(blocks) = Closed(f[n])
  BY DEF HtmlPages
<1> HIDE DEF n, A, base, Turn, f
<1>4. \E g \in [0..n -> A] : g[0] = base /\ \A i \in 1..n : g[i] = Turn(g[i - 1], i)
  <2>1. \A a \in A, i \in 1..n : step[i][a] = Turn(a, i)
    OBVIOUS
  <2>2. \A a \in A, i \in 1..n : step[i][a] \in A
    BY <1>2, <2>1
  <2> HIDE DEF step
  <2>3. HasRun(A, n, base, step)
    BY <1>1, <2>2, Recursion
  <2>4. PICK g \in [0..n -> A] :
             g[0] = base /\ \A i \in 1..n : g[i] = step[i][g[i - 1]]
    BY <2>3 DEF HasRun
  <2>5. \A i \in 1..n : g[i - 1] \in A
    BY <1>1
  <2> QED
    BY <2>1, <2>4, <2>5
<1>5. PICK g \in [0..n -> A] : g[0] = base /\ \A i \in 1..n : g[i] = Turn(g[i - 1], i)
  BY <1>4
<1>6. Rec(g)
  BY <1>1, <1>5
<1>7. Rec(f)
  <2> HIDE DEF Rec
  <2> QED
    BY <1>6 DEF f
<1>8. f[0] = base /\ \A i \in 1..n : f[i] = Turn(f[i - 1], i)
  BY <1>1, <1>7
<1>9. \A i \in 0..n : f[i] = g[i]
  <2> DEFINE T == {i \in Nat : f[i] = g[i]}
  <2>1. 0 \in T
    BY <1>5, <1>8
  <2>2. ASSUME NEW i \in 0..n - 1, i \in T PROVE i + 1 \in T
    <3>1. i + 1 \in 1..n /\ (i + 1) - 1 = i
      BY <1>1
    <3> QED
      BY <1>5, <1>8, <2>2, <3>1
  <2> HIDE DEF T
  <2>3. \A i \in 0..n : i \in T
    BY <1>1, <2>1, <2>2, UpToAll
  <2> QED
    BY <2>3 DEF T
<1>10. HtmlPages(blocks) = Closed(g[n])
  BY <1>1, <1>3, <1>9
<1> QED
  BY <1>5, <1>10 DEF n, A, base, Turn

\* The pages of some HTML hold it, whatever its blocks are.
LEMMA HtmlPagesAreWhole ==
  ASSUME NEW blocks \in Seq(Nat)
  PROVE  HtmlIsWhole(blocks)
<1> DEFINE shown == WithText(blocks)
           n == Len(shown)
           pages == HtmlPages(blocks)
<1>1. shown \in Seq(Word)
  BY WithTextType
<1>2. PICK f \in [0..n -> MadeSheets] :
         /\ f[0] = NothingMade
         /\ \A i \in 1..n : f[i] = AddBlock(f[i - 1], shown[i])
         /\ pages = Closed(f[n])
  BY <1>1, SheetRuns
<1> HIDE DEF shown, pages
<1>3. n \in Nat
  BY <1>1
<1> DEFINE T == {i \in Nat : /\ BlocksOf(f[i]) \in Seq(Word) /\ Len(BlocksOf(f[i])) = i
                             /\ \A k \in 1..i : BlocksOf(f[i])[k] = shown[k]}
<1>4. 0 \in T
  <2>1. NothingMade.pages = <<>> /\ NothingMade.current = <<>>
    BY DEF NothingMade
  <2>2. FlattenSeq(<<>>) = <<>> /\ <<>> \o <<>> = <<>>
    <3>1. <<>> \in Seq(Word)
      OBVIOUS
    <3> QED
      BY <3>1, FlattenEmpty, ConcatEmptySeq
  <2>3. BlocksOf(f[0]) = <<>>
    BY <1>2, <2>1, <2>2, Zenon DEF BlocksOf
  <2>4. <<>> \in Seq(Word) /\ Len(<<>>) = 0 /\ 1..0 = {} /\ 0 \in Nat
    OBVIOUS
  <2>5. BlocksOf(f[0]) \in Seq(Word) /\ Len(BlocksOf(f[0])) = 0
    BY <2>3, <2>4, Zenon
  <2> QED
    BY <2>4, <2>5
<1>5. ASSUME NEW i \in 0..n - 1, i \in T
      PROVE  i + 1 \in T
  <2>1. i + 1 \in 1..n /\ (i + 1) - 1 = i /\ i \in 0..n /\ i + 1 \in Nat /\ i \in Nat
    BY <1>3
  <2> DEFINE b == BlocksOf(f[i])
             x == shown[i + 1]
  <2>2. /\ b \in Seq(Word) /\ Len(b) = i /\ x \in Word
        /\ \A k \in 1..i : b[k] = shown[k]
    BY <1>1, <1>5, <2>1
  <2>3. f[i + 1] = AddBlock(f[i], x) /\ f[i] \in MadeSheets
    BY <1>2, <2>1
  <2>4. BlocksOf(f[i + 1]) = Append(b, x)
    BY <2>2, <2>3, AddBlockKeeps
  <2> HIDE DEF b
  <2>5. /\ Append(b, x) \in Seq(Word) /\ Len(Append(b, x)) = i + 1
        /\ \A k \in 1..i : Append(b, x)[k] = b[k]
        /\ Append(b, x)[i + 1] = x
    BY <2>2, AppendProperties
  <2>6. \A k \in 1..i + 1 : Append(b, x)[k] = shown[k]
    <3> TAKE k \in 1..i + 1
    <3>1. k \in 1..i \/ k = i + 1
      BY <2>1
    <3> QED
      BY <2>2, <2>5, <3>1
  <2> QED
    BY <2>1, <2>4, <2>5, <2>6
<1> HIDE DEF T
<1>6. \A i \in 0..n : i \in T
  <2> HIDE DEF n
  <2> QED
    BY <1>3, <1>4, <1>5, UpToAll
<1>7. /\ BlocksOf(f[n]) \in Seq(Word) /\ Len(BlocksOf(f[n])) = n
      /\ \A k \in 1..n : BlocksOf(f[n])[k] = shown[k]
  <2>1. n \in T
    BY <1>3, <1>6
  <2> QED
    BY <2>1 DEF T
<1>8. BlocksOf(f[n]) = shown
  BY <1>1, <1>7, SeqEqual
<1>9. f[n] \in MadeSheets
  BY <1>3
<1>10. pages \in Seq(Sheet) /\ FlattenSeq(pages) = shown
  <2>1. Closed(f[n]) \in Seq(Sheet) /\ FlattenSeq(Closed(f[n])) = BlocksOf(f[n])
    BY <1>9, ClosedSheets
  <2> HIDE DEF n
  <2> QED
    BY <1>2, <1>8, <2>1, Zenon
<1>11. \A i \in 1..Len(pages) : pages[i] # <<>> /\ (Len(pages[i]) > 1 => Sum(pages[i]) < Target)
  BY <1>10 DEF Sheet
<1> QED
  BY <1>10, <1>11 DEF HtmlIsWhole, pages, shown

-----------------------------------------------------------------------------
(* Chapters.                                                               *)

\* The chapter of a number is the document of that many references of the
\* reading order, and there are as many chapters as such references.
LEMMA ChaptersInPlace ==
  ASSUME NEW package \in Packages
  PROVE  /\ Len(Chapters(package)) = Cardinality(Reading(package))
         /\ \A k \in 1..Len(Chapters(package)) : \E i \in Reading(package) :
              /\ BuildManifest(package.items)[package.spine[i].idref].href = Chapters(package)[k]
              /\ Cardinality(Reading(package) \cap 1..i - 1) = k - 1
<1> DEFINE S == [idref : STRING, linear : BOOLEAN]
           spine == package.spine
           n == Len(spine)
           K == Reading(package)
           html == At(spine, K)
           manifest == BuildManifest(package.items)
<1>1. spine \in Seq(S)
  BY DEF Packages
<1>2. K \cap 1..n = K
  BY DEF Reading
<1>3. Chapters(package) = [i \in 1..Len(html) |-> manifest[html[i].idref].href]
  BY DEF Chapters
<1> HIDE DEF S, spine, K, manifest
<1>4. html \in Seq(S) /\ Selects(html, spine, K, n)
  BY <1>1, AtElements
<1>5. /\ Len(html) = Cardinality(K)
      /\ \A k \in 1..Len(html) : \E j \in K :
           html[k] = spine[j] /\ Cardinality(K \cap 1..j - 1) = k - 1
  BY <1>2, <1>4 DEF Selects
<1> HIDE DEF html
<1>6. Len(html) \in Nat
  BY <1>4
<1>7. /\ Len(Chapters(package)) = Len(html)
      /\ \A k \in 1..Len(html) : Chapters(package)[k] = manifest[html[k].idref].href
  BY <1>3, <1>6
<1>8. /\ Len(Chapters(package)) = Cardinality(K)
      /\ \A k \in 1..Len(Chapters(package)) : \E i \in K :
           /\ manifest[spine[i].idref].href = Chapters(package)[k]
           /\ Cardinality(K \cap 1..i - 1) = k - 1
  <2>1. Len(Chapters(package)) = Cardinality(K)
    BY <1>5, <1>7
  <2>2. ASSUME NEW k \in 1..Len(Chapters(package))
        PROVE  \E i \in K : /\ manifest[spine[i].idref].href = Chapters(package)[k]
                            /\ Cardinality(K \cap 1..i - 1) = k - 1
    <3>1. k \in 1..Len(html)
      BY <1>7
    <3>2. PICK j \in K : html[k] = spine[j] /\ Cardinality(K \cap 1..j - 1) = k - 1
      BY <1>5, <3>1
    <3>3. Chapters(package)[k] = manifest[spine[j].idref].href
      BY <1>7, <3>1, <3>2
    <3> QED
      BY <3>2, <3>3
  <2> QED
    BY <2>1, <2>2
<1> QED
  BY <1>8 DEF K, spine, manifest

-----------------------------------------------------------------------------
(* A request.  Its fields, and what is right of it at every stage.         *)
Fields == {"at", "doc", "number", "redirects", "bytes", "part", "entry", "content", "next"}
Whole(g) == g.bytes = g.doc.bytes /\ g.bytes <= MaxBytes
Asked(g) ==
    /\ g = [x \in Fields |-> g[x]]
    /\ g.doc \in Documents /\ g.number \in Int /\ g.bytes \in Nat
Rightly(g) ==
    /\ g.at \in {"check", "send"} => g.bytes = 0
    /\ g.at = "body" => g.bytes <= g.doc.bytes /\ g.bytes <= MaxBytes
    /\ g.at \in {"process", "zip", "find", "stream", "pdf", "page", "render", "answered"} =>
         Whole(g)
    /\ g.at \in {"zip", "find", "stream"} =>
         /\ g.doc.format = "EPUB" /\ g.number >= 1
         /\ g.part \in {"container", "package", "chapter"}
         /\ g.part = "chapter" =>
              /\ g.number <= Len(Chapters(g.doc.text))
              /\ g.entry = Chapters(g.doc.text)[g.number]
    /\ g.at \in {"pdf", "page", "render"} => g.doc.format = "PDF"
    /\ g.at = "answered" => IsPageOfDocument(g)
Right(g) == g = NoPage \/ (Asked(g) /\ Rightly(g))

\* What documents are, by their format.
LEMMA DocumentTypes ==
  ASSUME NEW doc \in Documents
  PROVE  /\ doc.bytes \in Nat
         /\ doc.format = "TEXT" => doc.text \in Seq(Paragraphs)
         /\ doc.format = "HTML" => doc.text \in Seq(Nat)
         /\ doc.format = "EPUB" => doc.text \in Packages
<1>1. doc.bytes \in Nat /\ doc.text \in Texts(doc.format)
  BY ContentAssumption
<1>2. Texts("TEXT") = Seq(Paragraphs)
  BY DEF Texts
<1>3. Texts("HTML") = Seq(Nat)
  BY DEF Texts
<1>4. Texts("EPUB") = Packages
  BY DEF Texts
<1> QED
  BY <1>1, <1>2, <1>3, <1>4

LEMMA NoPageIdle == NoPage.at = "idle"
BY DEF NoPage

\* A request that goes on is one still, and is where it went.
LEMMA Moves ==
  ASSUME NEW g, Asked(g), NEW at
  PROVE  LET h == [g EXCEPT !.at = at]
         IN /\ Asked(h) /\ h.at = at
            /\ h.doc = g.doc /\ h.number = g.number /\ h.bytes = g.bytes
            /\ h.part = g.part /\ h.entry = g.entry
BY DEF Asked, Fields

\* A request that is refused answers nothing.
LEMMA RefusedIsRight ==
  ASSUME NEW g, Asked(g)
  PROVE  Right(Refused(g)) /\ Asked(Refused(g)) /\ Refused(g).at = "refused"
<1>1. Asked(Refused(g)) /\ Refused(g).at = "refused"
  BY Moves DEF Refused
<1> QED
  BY <1>1 DEF Right, Rightly

\* An answer of the whole of the document is right.
LEMMA AnswerIsRight ==
  ASSUME NEW h, Asked(h), h.at = "answered", Whole(h), IsPageOfDocument(h)
  PROVE  Right(h)
BY DEF Right, Rightly

\* A page of the pages a document was cut into.
LEMMA PageOfRight ==
  ASSUME NEW g, Asked(g), Whole(g), NEW pages,
         ASSUME NEW h, Asked(h), h.doc = g.doc, h.number = g.number, h.content = pages[g.number],
                h.next <=> g.number < Len(pages)
         PROVE  IsPageOfDocument(h)
  PROVE  Right(PageOf(g, pages))
<1>1. CASE g.number \in 1..Len(pages)
  <2> DEFINE content == pages[g.number]
             next == g.number < Len(pages)
             h == [g EXCEPT !.at = "answered", !.content = content, !.next = next]
  <2>1. PageOf(g, pages) = h
    BY <1>1 DEF PageOf
  <2> HIDE DEF content, next
  <2>2. /\ Asked(h) /\ h.at = "answered" /\ h.content = content /\ h.next = next
        /\ h.doc = g.doc /\ h.number = g.number /\ h.bytes = g.bytes
    BY DEF Asked, Fields
  <2> HIDE DEF h
  <2>3. h.next <=> next
    BY <2>2
  <2>4. /\ Asked(h) /\ h.at = "answered" /\ h.content = pages[g.number]
        /\ h.next <=> g.number < Len(pages)
        /\ h.doc = g.doc /\ h.number = g.number /\ h.bytes = g.bytes
    BY <2>2, <2>3 DEF content, next
  <2>5. IsPageOfDocument(h)
    BY <2>4
  <2>6. Whole(h)
    BY <2>4 DEF Whole
  <2> QED
    BY <2>1, <2>4, <2>5, <2>6, AnswerIsRight
<1>2. CASE g.number \notin 1..Len(pages)
  BY <1>2, RefusedIsRight DEF PageOf
<1> QED
  BY <1>1, <1>2

\* Text and HTML: the page asked for of the whole.
LEMMA ProcessedRight ==
  ASSUME NEW g, Asked(g), Whole(g)
  PROVE  /\ g.doc.format = "TEXT" => Right(TextPage(g))
         /\ g.doc.format = "HTML" => Right(HtmlPage(g))
<1>1. ASSUME g.doc.format = "TEXT"
      PROVE  Right(TextPage(g))
  <2>1. g.doc.text \in Seq(Paragraphs)
    BY <1>1, DocumentTypes DEF Asked
  <2>2. TextIsWhole(g.doc.text)
    BY <2>1, TextPagesAreWhole
  <2>3. ASSUME NEW h, Asked(h), h.doc = g.doc, h.number = g.number,
               h.content = TextPages(g.doc.text)[g.number],
               h.next <=> g.number < Len(TextPages(g.doc.text))
        PROVE  IsPageOfDocument(h)
    BY <1>1, <2>2, <2>3 DEF IsPageOfDocument
  <2>4. Right(PageOf(g, TextPages(g.doc.text)))
    BY <2>3, PageOfRight
  <2> QED
    BY <2>4 DEF TextPage
<1>2. ASSUME g.doc.format = "HTML"
      PROVE  Right(HtmlPage(g))
  <2>1. g.doc.text \in Seq(Nat)
    BY <1>2, DocumentTypes DEF Asked
  <2>2. HtmlIsWhole(g.doc.text)
    BY <2>1, HtmlPagesAreWhole
  <2>3. ASSUME NEW h, Asked(h), h.doc = g.doc, h.number = g.number,
               h.content = HtmlPages(g.doc.text)[g.number],
               h.next <=> g.number < Len(HtmlPages(g.doc.text))
        PROVE  IsPageOfDocument(h)
    BY <1>2, <2>2, <2>3 DEF IsPageOfDocument
  <2>4. Right(PageOf(g, HtmlPages(g.doc.text)))
    BY <2>3, PageOfRight
  <2> QED
    BY <2>4 DEF HtmlPage
<1> QED
  BY <1>1, <1>2

\* What the entry that was read leads to: the next one, or the chapter.
LEMMA AfterEntryRight ==
  ASSUME NEW g, Asked(g), Rightly(g), g.at = "stream"
  PROVE  Right(AfterEntry(g))
<1> DEFINE package == g.doc.text
<1>1. /\ g.doc.format = "EPUB" /\ g.number >= 1 /\ g.number \in Int /\ Whole(g)
      /\ g.part \in {"container", "package", "chapter"}
      /\ g.part = "chapter" => /\ g.number <= Len(Chapters(package))
                               /\ g.entry = Chapters(package)[g.number]
  BY DEF Rightly, Asked
<1>2. ASSUME NEW part \in {"package", "chapter"}, NEW entry,
             part = "chapter" => /\ g.number <= Len(Chapters(package))
                                 /\ entry = Chapters(package)[g.number]
      PROVE  Right(Wants(g, part, entry))
  <2> DEFINE h == Wants(g, part, entry)
  <2>1. /\ Asked(h) /\ h.at = "zip" /\ h.part = part /\ h.entry = entry
        /\ h.doc = g.doc /\ h.number = g.number /\ h.bytes = g.bytes
    BY DEF Wants, Asked, Fields
  <2> HIDE DEF h
  <2> QED
    BY <1>1, <1>2, <2>1 DEF Right, Rightly, Whole, h
<1>3. CASE g.part = "container"
  <2>1. AfterEntry(g) = Wants(g, "package", "package")
    BY <1>3 DEF AfterEntry
  <2> QED
    BY <1>2, <2>1
<1>4. CASE g.part = "package"
  <2>1. \/ AfterEntry(g) = Refused(g)
        \/ /\ AfterEntry(g) = Wants(g, "chapter", Chapters(package)[g.number])
           /\ g.number <= Len(Chapters(package))
    BY <1>4 DEF AfterEntry
  <2> QED
    BY <1>2, <2>1, RefusedIsRight
<1>5. CASE g.part = "chapter"
  <2> DEFINE content == g.entry
             next == g.number < Len(Chapters(package))
             h == [g EXCEPT !.at = "answered", !.content = content, !.next = next]
  <2>1. AfterEntry(g) = h
    BY <1>5 DEF AfterEntry
  <2>2. package \in Packages
    BY <1>1, DocumentTypes DEF Asked
  <2> HIDE DEF content, next
  <2>3. /\ Asked(h) /\ h.at = "answered" /\ h.content = content /\ h.next = next
        /\ h.doc = g.doc /\ h.number = g.number /\ h.bytes = g.bytes
    BY DEF Asked, Fields
  <2> HIDE DEF h, package
  <2>4. h.next <=> next
    BY <2>3
  <2>5. /\ Asked(h) /\ h.at = "answered" /\ h.content = g.entry
        /\ h.next <=> g.number < Len(Chapters(package))
        /\ h.doc = g.doc /\ h.number = g.number /\ h.bytes = g.bytes
    BY <2>3, <2>4 DEF content, next
  <2>6. g.number \in 1..Len(Chapters(package))
    <3>1. Len(Chapters(package)) \in Nat
      <4>1. Chapters(package) = [i \in 1..Len(At(package.spine, Reading(package))) |->
                                   Chapters(package)[i]]
        BY DEF Chapters
      <4>2. At(package.spine, Reading(package)) \in Seq([idref : STRING, linear : BOOLEAN])
        BY <2>2, AtElements DEF Packages
      <4>3. Len(At(package.spine, Reading(package))) \in Nat
        BY <4>2
      <4> HIDE DEF package
      <4> QED
        BY <4>1, <4>3
    <3> QED
      BY <1>1, <1>5, <3>1
  <2>7. PICK i \in Reading(package) :
           /\ BuildManifest(package.items)[package.spine[i].idref].href
                = Chapters(package)[g.number]
           /\ Cardinality(Reading(package) \cap 1..i - 1) = g.number - 1
    BY <2>2, <2>6, ChaptersInPlace
  <2>8. Len(Chapters(package)) = Cardinality(Reading(package))
    BY <2>2, ChaptersInPlace
  <2>9. h.next <=> Cardinality(Reading(package)) > h.number
    <3>1. h.next <=> g.number < Cardinality(Reading(package))
      BY <2>5, <2>8
    <3> QED
      BY <2>5, <3>1
  <2>10. h.content = Chapters(package)[g.number] /\ package = h.doc.text
    BY <1>1, <1>5, <2>5 DEF package
  <2>11. ChapterIsInPlace(h)
    BY <2>5, <2>7, <2>9, <2>10 DEF ChapterIsInPlace
  <2>12. IsPageOfDocument(h) /\ Whole(h)
    BY <1>1, <2>5, <2>11 DEF IsPageOfDocument, Whole
  <2> QED
    BY <2>1, <2>5, <2>12, AnswerIsRight
<1> QED
  BY <1>1, <1>3, <1>4, <1>5

\* The fetch: nothing is processed before all bytes are there.
LEMMA FetchRight ==
  ASSUME Asked(get), Rightly(get),
         EnsurePublicDestination \/ FetchElsewhere \/ FetchContent \/ ReadLimitedBody
  PROVE  Right(get')
<1>1. get.doc.bytes \in Nat /\ MaxBytes \in Nat /\ get.bytes \in Nat
  BY ContentAssumption DEF Asked
<1>2. Right(Refused(get))
  BY RefusedIsRight
<1>3. ASSUME NEW at \in {"check", "send", "body", "process"},
             at \in {"check", "send"} => get.bytes = 0,
             at = "body" => get.bytes <= get.doc.bytes /\ get.bytes <= MaxBytes,
             at = "process" => Whole(get)
      PROVE  Right([get EXCEPT !.at = at])
  <2> DEFINE h == [get EXCEPT !.at = at]
  <2>1. /\ Asked(h) /\ h.at = at
        /\ h.doc = get.doc /\ h.number = get.number /\ h.bytes = get.bytes
    BY Moves
  <2> HIDE DEF h
  <2>2. Right(h)
    BY <1>3, <2>1 DEF Right, Rightly, Whole
  <2> QED
    BY <2>2 DEF h
<1>4. CASE EnsurePublicDestination
  <2>1. get.bytes = 0
    BY <1>4 DEF EnsurePublicDestination, Rightly
  <2>2. get' = [get EXCEPT !.at = "send"] \/ get' = Refused(get)
    BY <1>4 DEF EnsurePublicDestination
  <2>3. Right([get EXCEPT !.at = "send"])
    BY <1>3, <2>1
  <2> QED
    BY <1>2, <2>2, <2>3
<1>5. CASE FetchElsewhere
  <2>1. get.bytes = 0
    BY <1>5 DEF FetchElsewhere, Rightly
  <2> DEFINE h == [get EXCEPT !.at = "check", !.redirects = get.redirects + 1]
  <2>2. Asked(h) /\ h.at = "check" /\ h.bytes = get.bytes
    BY DEF Asked, Fields
  <2>3. get' = h \/ get' = Refused(get)
    BY <1>5 DEF FetchElsewhere, Redirected
  <2> HIDE DEF h
  <2>4. Right(h)
    BY <2>1, <2>2 DEF Right, Rightly
  <2> QED
    BY <1>2, <2>3, <2>4
<1>6. CASE FetchContent
  <2>1. get.bytes = 0
    BY <1>6 DEF FetchContent, Rightly
  <2>2. get' = [get EXCEPT !.at = "body"] \/ get' = Refused(get)
    BY <1>6 DEF FetchContent
  <2>3. Right([get EXCEPT !.at = "body"])
    BY <1>1, <1>3, <2>1
  <2> QED
    BY <1>2, <2>2, <2>3
<1>7. CASE ReadLimitedBody
  <2>1. get.at = "body" /\ get.bytes <= get.doc.bytes /\ get.bytes <= MaxBytes
    BY <1>7 DEF ReadLimitedBody, Rightly
  <2>2. CASE get' = [get EXCEPT !.bytes = @ + 1] /\ get.bytes < get.doc.bytes
             /\ ~ (get.bytes + 1 > MaxBytes)
    <3> DEFINE h == [get EXCEPT !.bytes = @ + 1]
    <3>1. Asked(h) /\ h.at = get.at /\ h.bytes = get.bytes + 1 /\ h.doc = get.doc
      BY DEF Asked, Fields
    <3> HIDE DEF h
    <3>2. h.bytes <= h.doc.bytes /\ h.bytes <= MaxBytes
      BY <1>1, <2>2, <3>1
    <3>3. Right(h)
      BY <2>1, <3>1, <3>2 DEF Right, Rightly
    <3> QED
      BY <2>2, <3>3 DEF h
  <2>3. CASE get' = [get EXCEPT !.at = "process"] /\ get.bytes = get.doc.bytes
    <3>1. Whole(get)
      BY <2>1, <2>3 DEF Whole
    <3> QED
      BY <1>3, <2>3, <3>1
  <2>4. CASE get' = Refused(get)
    BY <1>2, <2>4
  <2> QED
    BY <1>7, <2>2, <2>3, <2>4 DEF ReadLimitedBody
<1> QED
  BY <1>4, <1>5, <1>6, <1>7

\* EPUB: the chapter is settled by the package, and then read.
LEMMA EpubRight ==
  ASSUME Asked(get), Rightly(get), ProcessEpub \/ OpenArchive \/ FindEntry \/ ReadEntry
  PROVE  Right(get')
<1>1. Right(Refused(get))
  BY RefusedIsRight
<1>2. CASE ProcessEpub
  <2> DEFINE h == Wants(get, "container", "container")
  <2>1. /\ Asked(h) /\ h.at = "zip" /\ h.part = "container"
        /\ h.doc = get.doc /\ h.number = get.number /\ h.bytes = get.bytes
    BY DEF Wants, Asked, Fields
  <2>2. /\ get.doc.format = "EPUB" /\ Whole(get)
        /\ get' = Refused(get) \/ (get' = h /\ ~ (get.number < 1))
    BY <1>2 DEF ProcessEpub, Rightly
  <2> HIDE DEF h
  <2>3. ~ (get.number < 1) => get.number >= 1
    BY DEF Asked
  <2>4. ~ (get.number < 1) => Right(h)
    BY <2>1, <2>2, <2>3 DEF Right, Rightly, Whole
  <2> QED
    BY <1>1, <2>2, <2>4
<1>3. ASSUME NEW at \in {"find", "stream"}, get.at \in {"zip", "find"}
      PROVE  Right([get EXCEPT !.at = at])
  <2> DEFINE h == [get EXCEPT !.at = at]
  <2>1. /\ Asked(h) /\ h.at = at /\ h.part = get.part /\ h.entry = get.entry
        /\ h.doc = get.doc /\ h.number = get.number /\ h.bytes = get.bytes
    BY Moves
  <2> HIDE DEF h
  <2>2. Right(h)
    BY <1>3, <2>1 DEF Right, Rightly, Whole
  <2> QED
    BY <2>2 DEF h
<1>4. CASE OpenArchive
  BY <1>1, <1>3, <1>4 DEF OpenArchive
<1>5. CASE FindEntry
  BY <1>1, <1>3, <1>5 DEF FindEntry
<1>6. CASE ReadEntry
  BY <1>1, <1>6, AfterEntryRight DEF ReadEntry
<1> QED
  BY <1>2, <1>4, <1>5, <1>6

\* PDF: the page is rendered from the document that was loaded.
LEMMA PdfRight ==
  ASSUME Asked(get), Rightly(get), LoadPdf \/ GetPdfPage \/ CreateCanvas \/ RenderPdf
  PROVE  Right(get')
<1>1. Right(Refused(get))
  BY RefusedIsRight
<1>2. ASSUME NEW at \in {"pdf", "page", "render"}, Whole(get), get.doc.format = "PDF"
      PROVE  Right([get EXCEPT !.at = at])
  <2> DEFINE h == [get EXCEPT !.at = at]
  <2>1. Asked(h) /\ h.at = at /\ h.doc = get.doc /\ h.bytes = get.bytes
    BY Moves
  <2> HIDE DEF h
  <2>2. Right(h)
    BY <1>2, <2>1 DEF Right, Rightly, Whole
  <2> QED
    BY <2>2 DEF h
<1>3. CASE LoadPdf
  <2>1. get.doc.format = "PDF" /\ Whole(get)
    BY <1>3 DEF LoadPdf, Rightly
  <2> QED
    BY <1>1, <1>2, <1>3, <2>1 DEF LoadPdf
<1>4. CASE GetPdfPage
  <2>1. get.doc.format = "PDF" /\ Whole(get)
    BY <1>4 DEF GetPdfPage, Rightly
  <2> QED
    BY <1>1, <1>2, <1>4, <2>1 DEF GetPdfPage
<1>5. CASE CreateCanvas
  <2>1. get.doc.format = "PDF" /\ Whole(get)
    BY <1>5 DEF CreateCanvas, Rightly
  <2> QED
    BY <1>1, <1>2, <1>5, <2>1 DEF CreateCanvas
<1>6. CASE RenderPdf
  <2>1. get.doc.format = "PDF" /\ Whole(get)
    BY <1>6 DEF RenderPdf, Rightly
  <2> DEFINE content == get.doc.text[get.number]
             next == get.number < Len(get.doc.text)
             h == [get EXCEPT !.at = "answered", !.content = content, !.next = next]
  <2>2. get' = h \/ get' = Refused(get)
    BY <1>6 DEF RenderPdf
  <2> HIDE DEF content, next
  <2>3. /\ Asked(h) /\ h.at = "answered" /\ h.content = content /\ h.next = next
        /\ h.doc = get.doc /\ h.number = get.number /\ h.bytes = get.bytes
    BY DEF Asked, Fields
  <2> HIDE DEF h
  <2>4. h.next <=> next
    BY <2>3
  <2>5. /\ Asked(h) /\ h.at = "answered" /\ h.content = get.doc.text[get.number]
        /\ h.next <=> get.number < Len(get.doc.text)
        /\ h.doc = get.doc /\ h.number = get.number /\ h.bytes = get.bytes
    BY <2>3, <2>4 DEF content, next
  <2>6. Whole(h) /\ IsPageOfDocument(h)
    BY <2>1, <2>5 DEF Whole, IsPageOfDocument
  <2>7. Right(h)
    BY <2>5, <2>6, AnswerIsRight
  <2> QED
    BY <1>1, <2>2, <2>7
<1> QED
  BY <1>3, <1>4, <1>5, <1>6

\* Every step keeps what is right of the request.
LEMMA ContentRight ==
  ASSUME Right(get), ContentNext
  PROVE  Right(get')
<1>1. get = NoPage => get.at = "idle"
  BY NoPageIdle
<1>2. CASE GetPage
  <2>1. PICK doc \in Documents, number \in 0..LastPage :
          get' = [at |-> "check", doc |-> doc, number |-> number, redirects |-> 0,
                  bytes |-> 0, part |-> "none", entry |-> "", content |-> <<>>, next |-> FALSE]
    BY <1>2 DEF GetPage
  <2>2. number \in Int
    BY ContentAssumption
  <2>3. /\ get' = [x \in Fields |-> get'[x]]
        /\ get'.doc \in Documents /\ get'.number \in Int /\ get'.bytes = 0 /\ get'.at = "check"
    BY <2>1, <2>2 DEF Fields
  <2> QED
    BY <2>3 DEF Right, Rightly, Asked
<1>3. CASE NextPage
  BY <1>3 DEF NextPage, Right
<1>4. CASE PageStep
  <2>1. get.at # "idle"
    BY <1>4 DEF PageStep, EnsurePublicDestination, FetchElsewhere, FetchContent,
                ReadLimitedBody, Process, ProcessEpub, OpenArchive, FindEntry, ReadEntry,
                LoadPdf, GetPdfPage, CreateCanvas, RenderPdf
  <2>2. Asked(get) /\ Rightly(get)
    BY <1>1, <2>1 DEF Right
  <2>3. CASE Process
    <3>1. Whole(get)
      BY <2>2, <2>3 DEF Process, Rightly
    <3>2. CASE get.doc.format = "TEXT"
      <4>1. get' = TextPage(get)
        BY <2>3, <3>2 DEF Process
      <4> QED
        BY <2>2, <3>1, <3>2, <4>1, ProcessedRight
    <3>3. CASE get.doc.format = "HTML"
      <4>1. get' = HtmlPage(get)
        BY <2>3, <3>3 DEF Process
      <4> QED
        BY <2>2, <3>1, <3>3, <4>1, ProcessedRight
    <3>4. CASE get.doc.format \notin {"TEXT", "HTML"}
      <4>1. get' = Refused(get)
        BY <2>3, <3>4 DEF Process
      <4> QED
        BY <2>2, <4>1, RefusedIsRight
    <3> QED
      BY <3>2, <3>3, <3>4
  <2> QED
    BY <1>4, <2>2, <2>3, FetchRight, EpubRight, PdfRight DEF PageStep
<1> QED
  BY <1>2, <1>3, <1>4 DEF ContentNext

\* Every step is one of the catalogues, or leaves them as they are.
LEMMA OutsideStep ==
  ASSUME [Next]_outsideVars
  PROVE  \/ CatalogNext /\ UNCHANGED contentVars
         \/ ContentNext /\ UNCHANGED catalogVars
         \/ UNCHANGED outsideVars
  BY DEF Next

\* For any documents, any size of a page and any limits, whatever the redirects,
\* chunks and failures on the way: what is answered is the page asked for, from
\* the whole of the document, of pages that are the document with nothing left
\* out or repeated (getPage and the processors of the formats).
THEOREM PageIsOfDocumentHolds == Spec => []PageIsOfDocument
<1>1. Init => Right(get)
  BY DEF Init, ContentInit, Right
<1>2. Right(get) /\ [Next]_outsideVars => Right(get)'
  <2> SUFFICES ASSUME Right(get), [Next]_outsideVars
               PROVE  Right(get)'
    OBVIOUS
  <2>1. CASE ContentNext
    BY <2>1, ContentRight
  <2>2. CASE UNCHANGED contentVars
    BY <2>2 DEF contentVars
  <2> QED
    BY <2>1, <2>2, OutsideStep DEF outsideVars
<1>3. Right(get) => PageIsOfDocument
  BY NoPageIdle DEF Right, Rightly, Whole, PageIsOfDocument
<1> QED
  BY <1>1, <1>2, <1>3, PTL DEF Spec

-----------------------------------------------------------------------------
(* What is open at every stage of a request.                               *)
OpenAt(at, held) ==
    /\ at = "body" => held = {"body"}
    /\ at = "find" => held = {"archive"}
    /\ at = "stream" => held = {"archive", "stream"}
    /\ at = "pdf" => held = {"document"}
    /\ at = "page" => held = {"document", "page"}
    /\ at = "render" => held = {"document", "page", "canvas"}
    /\ at \notin {"body", "find", "stream", "pdf", "page", "render"} => held = {}

\* The stages there are after the step of a request.
LEMMA WhereItGoes ==
  ASSUME NEW g, Asked(g)
  PROVE  /\ Refused(g).at = "refused"
         /\ \A at : [g EXCEPT !.at = at].at = at
         /\ [g EXCEPT !.bytes = @ + 1].at = g.at
         /\ Redirected(g).at \in {"check", "refused"}
         /\ \A pages : PageOf(g, pages).at \in {"answered", "refused"}
         /\ \A part, entry : Wants(g, part, entry).at = "zip"
         /\ AfterEntry(g).at \in {"zip", "answered", "refused"}
<1>1. Refused(g).at = "refused"
  BY RefusedIsRight
<1>2. \A at : [g EXCEPT !.at = at].at = at
  BY DEF Asked, Fields
<1>3. [g EXCEPT !.bytes = @ + 1].at = g.at
  BY DEF Asked, Fields
<1>4. Redirected(g).at \in {"check", "refused"}
  <2>1. [g EXCEPT !.at = "check", !.redirects = g.redirects + 1].at = "check"
    BY DEF Asked, Fields
  <2> QED
    BY <1>1, <2>1 DEF Redirected
<1>5. ASSUME NEW pages
      PROVE  PageOf(g, pages).at \in {"answered", "refused"}
  <2> DEFINE content == pages[g.number]
             next == g.number < Len(pages)
  <2>1. PageOf(g, pages) = [g EXCEPT !.at = "answered", !.content = content, !.next = next]
        \/ PageOf(g, pages) = Refused(g)
    BY DEF PageOf
  <2> HIDE DEF content, next
  <2>2. [g EXCEPT !.at = "answered", !.content = content, !.next = next].at = "answered"
    BY DEF Asked, Fields
  <2> QED
    BY <1>1, <2>1, <2>2
<1>6. ASSUME NEW part, NEW entry
      PROVE  Wants(g, part, entry).at = "zip"
  BY DEF Wants, Asked, Fields
<1>7. AfterEntry(g).at \in {"zip", "answered", "refused"}
  <2> DEFINE next == g.number < Len(Chapters(g.doc.text))
             chapter == Chapters(g.doc.text)[g.number]
  <2>1. \/ AfterEntry(g) = Wants(g, "package", "package")
        \/ AfterEntry(g) = Wants(g, "chapter", chapter)
        \/ AfterEntry(g) = Refused(g)
        \/ AfterEntry(g) = [g EXCEPT !.at = "answered", !.content = g.entry, !.next = next]
    BY DEF AfterEntry
  <2> HIDE DEF next, chapter
  <2>2. [g EXCEPT !.at = "answered", !.content = g.entry, !.next = next].at = "answered"
    BY DEF Asked, Fields
  <2> QED
    BY <1>1, <1>6, <2>1, <2>2
<1> QED
  BY <1>1, <1>2, <1>3, <1>4, <1>5, <1>6, <1>7

\* The steps before the content is there to be processed.
LEMMA FetchHeld ==
  ASSUME Asked(get), OpenAt(get.at, open),
         EnsurePublicDestination \/ FetchElsewhere \/ FetchContent \/ ReadLimitedBody
  PROVE  OpenAt(get'.at, open')
<1>1. /\ \A at \in {"send", "body", "process"} : [get EXCEPT !.at = at].at = at
      /\ Refused(get).at = "refused" /\ Redirected(get).at \in {"check", "refused"}
      /\ [get EXCEPT !.bytes = @ + 1].at = get.at
  BY WhereItGoes
<1>2. CASE EnsurePublicDestination
  <2>1. [get EXCEPT !.at = "send"].at = "send"
    BY <1>1
  <2>2. open = {} /\ open' = open
    BY <1>2 DEF EnsurePublicDestination, OpenAt
  <2>3. get' = [get EXCEPT !.at = "send"] \/ get' = Refused(get)
    BY <1>2 DEF EnsurePublicDestination
  <2> QED
    BY <1>1, <2>1, <2>2, <2>3 DEF OpenAt
<1>3. CASE FetchElsewhere
  BY <1>1, <1>3 DEF FetchElsewhere, OpenAt
<1>4. CASE FetchContent
  <2>1. \/ get' = Refused(get) /\ open' = open
        \/ get' = [get EXCEPT !.at = "body"] /\ open' = open \cup {"body"}
    BY <1>4 DEF FetchContent
  <2>2. open = {}
    BY <1>4 DEF FetchContent, OpenAt
  <2>3. [get EXCEPT !.at = "body"].at = "body"
    BY <1>1
  <2> QED
    BY <1>1, <2>1, <2>2, <2>3 DEF OpenAt
<1>5. CASE ReadLimitedBody
  <2>1. \/ get' = Refused(get) /\ open' = open \ {"body"}
        \/ get' = [get EXCEPT !.at = "process"] /\ open' = open \ {"body"}
        \/ get' = [get EXCEPT !.bytes = @ + 1] /\ open' = open
    BY <1>5 DEF ReadLimitedBody
  <2>2. get.at = "body" /\ open = {"body"}
    BY <1>5 DEF ReadLimitedBody, OpenAt
  <2>3. [get EXCEPT !.at = "process"].at = "process"
    BY <1>1
  <2> QED
    BY <1>1, <2>1, <2>2, <2>3 DEF OpenAt
<1> QED
  BY <1>2, <1>3, <1>4, <1>5

\* The archive and its streams.
LEMMA EpubHeld ==
  ASSUME Asked(get), OpenAt(get.at, open),
         ProcessEpub \/ OpenArchive \/ FindEntry \/ ReadEntry
  PROVE  OpenAt(get'.at, open')
<1>1. /\ Refused(get).at = "refused" /\ Wants(get, "container", "container").at = "zip"
      /\ AfterEntry(get).at \in {"zip", "answered", "refused"}
      /\ \A at \in {"find", "stream"} : [get EXCEPT !.at = at].at = at
  BY WhereItGoes
<1>2. CASE ProcessEpub
  BY <1>1, <1>2 DEF ProcessEpub, OpenAt
<1>3. CASE OpenArchive
  <2>1. open = {}
    BY <1>3 DEF OpenArchive, OpenAt
  <2>2. [get EXCEPT !.at = "find"].at = "find"
    BY <1>1
  <2>3. \/ get' = [get EXCEPT !.at = "find"] /\ open' = open \cup {"archive"}
        \/ get' = Refused(get) /\ open' = open
    BY <1>3 DEF OpenArchive
  <2> QED
    BY <1>1, <2>1, <2>2, <2>3 DEF OpenAt
<1>4. CASE FindEntry
  <2>1. open = {"archive"}
    BY <1>4 DEF FindEntry, OpenAt
  <2>2. [get EXCEPT !.at = "stream"].at = "stream"
    BY <1>1
  <2>3. \/ get' = [get EXCEPT !.at = "stream"] /\ open' = open \cup {"stream"}
        \/ get' = Refused(get) /\ open' = open \ {"archive"}
    BY <1>4 DEF FindEntry
  <2> QED
    BY <1>1, <2>1, <2>2, <2>3 DEF OpenAt
<1>5. CASE ReadEntry
  <2>1. open' = {}
    BY <1>5 DEF ReadEntry, OpenAt
  <2>2. get'.at \in {"zip", "answered", "refused"}
    BY <1>1, <1>5 DEF ReadEntry
  <2> QED
    BY <2>1, <2>2 DEF OpenAt
<1> QED
  BY <1>2, <1>3, <1>4, <1>5

\* The document, its page and the canvas.
LEMMA PdfHeld ==
  ASSUME Asked(get), OpenAt(get.at, open), LoadPdf \/ GetPdfPage \/ CreateCanvas \/ RenderPdf
  PROVE  OpenAt(get'.at, open')
<1>1. CASE LoadPdf
  <2>1. open = {}
    BY <1>1 DEF LoadPdf, OpenAt
  <2>2. \/ get' = Refused(get) /\ open' = open
        \/ get' = [get EXCEPT !.at = "pdf"] /\ open' = open \cup {"document"}
    BY <1>1 DEF LoadPdf
  <2>3. [get EXCEPT !.at = "pdf"].at = "pdf" /\ Refused(get).at = "refused"
    BY WhereItGoes
  <2> QED
    BY <2>1, <2>2, <2>3 DEF OpenAt
<1>2. CASE GetPdfPage
  <2>1. open = {"document"}
    BY <1>2 DEF GetPdfPage, OpenAt
  <2>2. \/ get' = Refused(get) /\ open' = open \ {"document"}
        \/ get' = [get EXCEPT !.at = "page"] /\ open' = open \cup {"page"}
    BY <1>2 DEF GetPdfPage
  <2>3. [get EXCEPT !.at = "page"].at = "page" /\ Refused(get).at = "refused"
    BY WhereItGoes
  <2> QED
    BY <2>1, <2>2, <2>3 DEF OpenAt
<1>3. CASE CreateCanvas
  <2>1. open = {"document", "page"}
    BY <1>3 DEF CreateCanvas, OpenAt
  <2>2. \/ get' = Refused(get) /\ open' = open \ {"page", "document"}
        \/ get' = [get EXCEPT !.at = "render"] /\ open' = open \cup {"canvas"}
    BY <1>3 DEF CreateCanvas
  <2>3. [get EXCEPT !.at = "render"].at = "render" /\ Refused(get).at = "refused"
    BY WhereItGoes
  <2> QED
    BY <2>1, <2>2, <2>3 DEF OpenAt
<1>4. CASE RenderPdf
  <2> DEFINE content == get.doc.text[get.number]
             next == get.number < Len(get.doc.text)
  <2>1. \/ get' = [get EXCEPT !.at = "answered", !.content = content, !.next = next]
        \/ get' = Refused(get)
    BY <1>4 DEF RenderPdf
  <2> HIDE DEF content, next
  <2>2. [get EXCEPT !.at = "answered", !.content = content, !.next = next].at = "answered"
    BY DEF Asked, Fields
  <2>3. get'.at \in {"answered", "refused"}
    <3>1. Refused(get).at = "refused"
      BY WhereItGoes
    <3> QED
      BY <2>1, <2>2, <3>1
  <2>4. open' = {}
    BY <1>4 DEF RenderPdf, OpenAt
  <2> QED
    BY <2>3, <2>4 DEF OpenAt
<1> QED
  BY <1>1, <1>2, <1>3, <1>4

\* Every step opens and closes as its stage says.
LEMMA ContentHeld ==
  ASSUME Right(get), OpenAt(get.at, open), ContentNext
  PROVE  OpenAt(get'.at, open')
<1>1. get = NoPage => get.at = "idle"
  BY NoPageIdle
<1>2. CASE GetPage
  <2>1. get'.at = "check"
    <3>1. PICK doc \in Documents, number \in 0..LastPage :
            get' = [at |-> "check", doc |-> doc, number |-> number, redirects |-> 0,
                    bytes |-> 0, part |-> "none", entry |-> "", content |-> <<>>,
                    next |-> FALSE]
      BY <1>2 DEF GetPage
    <3> QED
      BY <3>1
  <2>2. open' = {}
    BY <1>2 DEF GetPage, OpenAt
  <2> QED
    BY <2>1, <2>2 DEF OpenAt
<1>3. CASE NextPage
  <2>1. open' = {} /\ get' = NoPage
    BY <1>3 DEF NextPage, OpenAt
  <2> QED
    BY <2>1, NoPageIdle DEF OpenAt
<1>4. CASE PageStep
  <2>1. get.at # "idle"
    BY <1>4 DEF PageStep, EnsurePublicDestination, FetchElsewhere, FetchContent,
                ReadLimitedBody, Process, ProcessEpub, OpenArchive, FindEntry, ReadEntry,
                LoadPdf, GetPdfPage, CreateCanvas, RenderPdf
  <2>2. Asked(get)
    BY <1>1, <2>1 DEF Right
  <2>3. CASE Process
    <3>1. open' = {}
      BY <2>3 DEF Process, OpenAt
    <3>2. get'.at \in {"answered", "refused"}
      <4>1. /\ Refused(get).at = "refused"
            /\ TextPage(get).at \in {"answered", "refused"}
            /\ HtmlPage(get).at \in {"answered", "refused"}
        BY <2>2, WhereItGoes DEF TextPage, HtmlPage
      <4>2. get' = TextPage(get) \/ get' = HtmlPage(get) \/ get' = Refused(get)
        BY <2>3 DEF Process
      <4> QED
        BY <4>1, <4>2
    <3> QED
      BY <3>1, <3>2 DEF OpenAt
  <2> QED
    BY <1>4, <2>2, <2>3, FetchHeld, EpubHeld, PdfHeld DEF PageStep
<1> QED
  BY <1>2, <1>3, <1>4 DEF ContentNext

\* However a request for a page ends, and for any documents and limits, nothing
\* it opened stays open, and its body is closed before its content is
\* processed (fetchContent, readEntry and the processors).
THEOREM NothingLeftOpenHolds == Spec => []NothingLeftOpen
<1> DEFINE Held == Right(get) /\ OpenAt(get.at, open)
<1>1. Init => Held
  BY NoPageIdle DEF Init, ContentInit, OpenAt, Right
<1>2. Held /\ [Next]_outsideVars => Held'
  <2> SUFFICES ASSUME Held, [Next]_outsideVars
               PROVE  Held'
    OBVIOUS
  <2>1. CASE ContentNext
    BY <2>1, ContentRight, ContentHeld
  <2>2. CASE UNCHANGED contentVars
    BY <2>2 DEF contentVars
  <2> QED
    BY <2>1, <2>2, OutsideStep DEF outsideVars
<1>3. Held => NothingLeftOpen
  BY DEF OpenAt, NothingLeftOpen
<1> QED
  BY <1>1, <1>2, <1>3, PTL DEF Spec
=============================================================================
