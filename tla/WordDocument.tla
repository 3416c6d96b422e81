----------------------------- MODULE WordDocument -----------------------------
(* Articles out of a Word document of the gazette.  Paragraphs are read in    *)
(* document order; the label Word shows before a paragraph of a list is not   *)
(* stored with it and is rendered from counters (scripts/docx_numbering.py).  *)
(* From the lines, stored or displayed, the main articles 1..N are located    *)
(* and their bodies cut out: by the release builder from the stored lines     *)
(* (scripts/build_official_docx_release.py), by the binding audit from the    *)
(* displayed ones, then the stored ones, then the titles of the portal's      *)
(* corpus (scripts/audit_canonical_source_binding.py).                        *)
(*                                                                            *)
(* A text is [kind, n, title]: kind "article" stands for "Dieu n. title",     *)
(* "chapter" for a heading between articles, "page" for a header of the       *)
(* gazette, "signature" and "appendix" for what stands behind the articles,   *)
(* "closing" for a text that ends in "/.", "office" for one that begins with  *)
(* the government or a minister, "signed" for one with both in its middle,    *)
(* "text" for everything else and "empty" for a paragraph without text.       *)
EXTENDS Integers, Sequences, FiniteSets, SequencesExt

CONSTANTS
    Layouts,       \* documents: for each position the paragraphs [text, style, num, level] it may hold
    Styles,        \* style -> [basedOn, num, level]
    Abstracts,     \* abstract list -> level -> [start, restart, shape, refs], as the file states them
    Lists,         \* numbering instance -> [abstract, starts, levels], the last two its own
    Wanted,        \* the number of main articles, at least one
    SelectedNumbers, \* the articles the release takes
    BaseTitles,    \* article -> its title in the portal's corpus
    NoValue

ASSUME WantedAssumption == Wanted \in Nat \ {0}

\* The paragraphs a document may hold
Paragraphs == UNION {UNION {layout[i] : i \in 1..Len(layout)} : layout \in Layouts}

VARIABLES
    word,          \* the paragraphs read so far
    counters,      \* instance -> level -> the last number given out
    labels,        \* the label of every paragraph, NoValue without one or where none is rendered
    reading        \* what was made of the document: [by, headings, bodies]

wordVars == <<word, counters, labels, reading>>

Unread == [by |-> "nobody", headings |-> <<>>, bodies |-> <<>>]
Rejected(by) == [by |-> by, headings |-> <<>>, bodies |-> <<>>]

-----------------------------------------------------------------------------
(* Automatic numbering                                                       *)

\* The style of a paragraph, the style it is based on, and so on
Ancestors(style) ==
    LET up[n \in Nat] == IF n = 0 THEN style
                         ELSE IF up[n - 1] \in DOMAIN Styles THEN Styles[up[n - 1]].basedOn ELSE NoValue
    IN  [n \in 1..(Cardinality(DOMAIN Styles) + 1) |-> up[n - 1]]

Cyclic(style) == Last(Ancestors(style)) \in DOMAIN Styles

\* The nearest value of a field along the styles
Inherited(style, field) ==
    LET known == SelectSeq(Ancestors(style), LAMBDA s : s \in DOMAIN Styles /\ Styles[s][field] # NoValue)
    IN  IF known = <<>> THEN NoValue ELSE Styles[Head(known)][field]

\* The list and the level of a paragraph: its own before its style's
ListOf(p) ==
    IF p.num # NoValue THEN p.num ELSE Inherited(p.style, "num")
LevelOf(p) ==
    IF p.level # NoValue THEN p.level
    ELSE IF Inherited(p.style, "level") # NoValue THEN Inherited(p.style, "level") ELSE 0

Numbered(p) == ListOf(p) \notin {NoValue, 0}

\* A level of a list: the instance's own before the abstract list's
HasLevel(list, level) ==
    \/ level \in DOMAIN Lists[list].levels
    \/ Lists[list].abstract \in DOMAIN Abstracts /\ level \in DOMAIN Abstracts[Lists[list].abstract]

LevelDefinition(list, level) ==
    IF level \in DOMAIN Lists[list].levels THEN Lists[list].levels[level] ELSE Abstracts[Lists[list].abstract][level]

Start(list, level) ==
    IF level \in DOMAIN Lists[list].starts THEN Lists[list].starts[level] ELSE LevelDefinition(list, level).start

\* The level after which a level starts again: stated counting from one, zero
\* for never; unstated, the level above.
RestartAfter(list, level) ==
    LET stated == LevelDefinition(list, level).restart
    IN  IF stated = 0 THEN NoValue
        ELSE IF stated # NoValue THEN stated - 1
        ELSE IF level > 0 THEN level - 1 ELSE NoValue

\* Levels and starts are read as integers, whatever the file says of them
ASSUME NumberingAssumption ==
    /\ \A layout \in Layouts : Len(layout) \in Nat
    /\ \A p \in Paragraphs : LevelOf(p) \in Int
    /\ \A list \in DOMAIN Lists :
          /\ \A level \in DOMAIN Lists[list].starts : Lists[list].starts[level] \in Int
          /\ \A level \in DOMAIN Lists[list].levels : Lists[list].levels[level].start \in Int
    /\ \A abstract \in DOMAIN Abstracts : \A level \in DOMAIN Abstracts[abstract] :
          Abstracts[abstract][level].start \in Int

\* A paragraph Word's own definitions do not explain: a ValueError
Resolvable(p) ==
    /\ ~Cyclic(p.style)
    /\ Numbered(p) =>
         /\ ListOf(p) \in DOMAIN Lists /\ HasLevel(ListOf(p), LevelOf(p))
         /\ \A l \in ToSet(LevelDefinition(ListOf(p), LevelOf(p)).refs) : HasLevel(ListOf(p), l)

\* Up to the first such paragraph labels are rendered, and only a document
\* without any has displayed lines.
Renderable(paragraphs) == \A i \in DOMAIN paragraphs : Resolvable(paragraphs[i])

NeverRestarts(list, deeper, level) == FALSE

\* A deeper level starts again after a paragraph at the level it names or above
Restarts(list, deeper, level) ==
    /\ deeper > level
    /\ RestartAfter(list, deeper) # NoValue /\ level <= RestartAfter(list, deeper)

\* The counters of a list after a paragraph at this level
Advanced(list, level) ==
    LET now == counters[list]
        next == IF level \in DOMAIN now THEN now[level] + 1 ELSE Start(list, level)
        kept == {l \in DOMAIN now : ~Restarts(list, l, level)} \cup {level}
    IN  [l \in kept |-> IF l = level THEN next ELSE now[l]]

\* The label: its shape and the numbers of the levels it shows
Label(list, level, now) ==
    LET refs == LevelDefinition(list, level).refs
    IN  [shape |-> LevelDefinition(list, level).shape,
         numbers |-> [i \in DOMAIN refs |-> IF refs[i] \in DOMAIN now THEN now[refs[i]] ELSE Start(list, refs[i])]]

-----------------------------------------------------------------------------
(* Lines                                                                     *)

\* A label is shown before a text that is not a heading already, if it says
\* anything; "Dieu %1." makes a heading of the title that follows it.
Displayed(text, label) ==
    IF label = NoValue \/ text.kind \in {"empty", "article", "chapter"} THEN text
    ELSE IF label.shape = "mark" THEN text
    ELSE [kind |-> IF label.shape \in {"article", "chapter"} THEN label.shape
                   ELSE IF text.kind \in {"closing", "signed"} THEN text.kind ELSE "text",
          n |-> Last(label.numbers), title |-> text.title]

\* The lines of the document; a paragraph without text is none, and nothing
\* below takes one of kind "empty" for a line.
StoredLines == [i \in DOMAIN word |-> word[i].text]
DisplayedLines == [i \in DOMAIN word |-> Displayed(word[i].text, labels[i])]

-----------------------------------------------------------------------------
(* The main articles                                                         *)

\* A line that is the next main heading
IsNext(line, found) == line.kind = "article" /\ found < Wanted /\ line.n = found + 1

\* Before Dieu 1 nothing counts; afterwards another main number is an error
\* and a higher one is text.
IsMisplaced(line, found) ==
    line.kind = "article" /\ found \in 1..(Wanted - 1) /\ line.n \in (0..Wanted) \ {found + 1}

\* How many main headings there are in the first lines
FoundBy(lines) ==
    LET found[i \in 0..Len(lines)] ==
          IF i = 0 THEN 0 ELSE IF IsNext(lines[i], found[i - 1]) THEN found[i - 1] + 1 ELSE found[i - 1]
    IN  found

LocatedSkipping(lines) ==
    LET found == FoundBy(lines)
        place(n) == CHOOSE i \in DOMAIN lines : found[i] = n /\ found[i - 1] # n
    IN  [ok |-> TRUE,
         headings |-> [n \in 1..found[Len(lines)] |-> [n |-> n, at |-> place(n), title |-> lines[place(n)].title]]]

\* Headings 1, 2, ... in order up to Wanted
Located(lines) ==
    LET found == FoundBy(lines)
        place(n) == CHOOSE i \in DOMAIN lines : found[i] = n /\ found[i - 1] # n
    IN  [ok |-> \A i \in DOMAIN lines : ~IsMisplaced(lines[i], found[i - 1]),
         headings |-> [n \in 1..found[Len(lines)] |-> [n |-> n, at |-> place(n), title |-> lines[place(n)].title]]]

Complete(found) == found.ok /\ Len(found.headings) = Wanted

\* Before the first line of an administrative tail, or after the last line
TailIndex(lines, from) ==
    LET tails == {i \in from..Len(lines) : lines[i].kind \in {"signature", "appendix"}}
    IN  IF tails = {} THEN Len(lines) + 1 ELSE CHOOSE i \in tails : \A j \in tails : i <= j

\* What is left of an article: up to the first heading of a chapter, without
\* the headers of the gazette's pages
Stripped(lines, from, to) ==
    {i \in from..to : lines[i].kind \notin {"page", "empty"} /\ \A j \in from..i : lines[j].kind # "chapter"}

\* The lines of the article at a position: to the next heading, the last
\* article to the tail
BodyLines(lines, headings, position) ==
    LET from == headings[position].at + 1
        to == IF position < Len(headings) THEN headings[position + 1].at - 1 ELSE TailIndex(lines, from) - 1
    IN  Stripped(lines, from, to)

\* "/." and then an office, on the same line or at the beginning of the next
\* one of the body, is taken for a signature ...
IsSignedAt(lines, body, i) ==
    \/ lines[i].kind = "signed"
    \/ /\ lines[i].kind = "closing"
       /\ \E j \in body : /\ j > i /\ lines[j].kind \in {"office", "signature"}
                         /\ \A k \in body : k > i => j <= k

\* ... and what follows is cut off, in whatever article it stands.
BeforeInlineTail(lines, body) ==
    {i \in body : \A j \in body : j < i => ~IsSignedAt(lines, body, j)}

Articles(by, lines, headings) ==
    [by |-> by, headings |-> headings,
     bodies |-> [p \in DOMAIN headings |-> BeforeInlineTail(lines, BodyLines(lines, headings, p))]]

-----------------------------------------------------------------------------
(* The titles of the portal's corpus                                         *)

\* The places of a title among the stored lines; a heading's line is not its title
Places(lines, number) ==
    {i \in DOMAIN lines : lines[i].kind \notin {"article", "empty"} /\ lines[i].title = BaseTitles[number]}

\* In how many ways a line can follow what was counted before it, two for more
CappedSum(count, i) ==
    LET before == {j \in DOMAIN count : j < i /\ count[j] > 0}
    IN  IF before = {} THEN 0 ELSE IF \E j \in before : before = {j} /\ count[j] = 1 THEN 1 ELSE 2

\* The same for every place of the next title
NextWays(lines, number, count) ==
    [i \in DOMAIN lines |-> IF i \notin Places(lines, number) THEN 0
                            ELSE IF number = 1 THEN 1 ELSE CappedSum(count, i)]

\* How many increasing chains of the titles up to a number end at each line
Ways(lines) ==
    LET ways[n \in 0..Wanted] ==
          IF n = 0 THEN [i \in DOMAIN lines |-> 0] ELSE NextWays(lines, n, ways[n - 1])
    IN  ways

TheEnd(count) == CHOOSE i \in DOMAIN count : count[i] = 1
TheOneBefore(count, i) == CHOOSE j \in DOMAIN count : j < i /\ count[j] > 0

\* From the end of a chain back to its beginning
WalkBack(lines) ==
    LET ways == Ways(lines)
        place[k \in 0..(Wanted - 1)] ==
          IF k = 0 THEN TheEnd(ways[Wanted]) ELSE TheOneBefore(ways[Wanted - k], place[k - 1])
    IN  [n \in 1..Wanted |-> place[Wanted - n]]

AnyChain(lines, titled) ==
    IF \E i \in DOMAIN lines : Ways(lines)[Wanted][i] = 1 THEN WalkBack(lines) ELSE <<>>

\* Exactly one chain in all, of titles that the base has for every main article
UniqueChain(lines, titled) ==
    IF titled = 1..Wanted /\ CappedSum(Ways(lines)[Wanted], Len(lines) + 1) = 1 THEN WalkBack(lines) ELSE <<>>

TitleHeadings(lines, titled) ==
    LET chain == UniqueChain(lines, titled)
    IN  [n \in DOMAIN chain |-> [n |-> n, at |-> chain[n], title |-> BaseTitles[n]]]

-----------------------------------------------------------------------------

WordInit ==
    /\ word = <<>> /\ labels = <<>> /\ reading = Unread
    /\ counters = [l \in DOMAIN Lists |-> <<>>]

\* The next paragraph: its label is rendered even when it has no text, unless
\* this paragraph or an earlier one ended the rendering.
ReadParagraph(p) ==
    /\ reading = Unread
    /\ word' = Append(word, p)
    /\ IF Renderable(word') /\ Numbered(p)
       THEN /\ counters' = [counters EXCEPT ![ListOf(p)] = Advanced(ListOf(p), LevelOf(p))]
            /\ labels' = Append(labels, Label(ListOf(p), LevelOf(p), counters'[ListOf(p)]))
       ELSE labels' = Append(labels, NoValue) /\ UNCHANGED counters
    /\ UNCHANGED reading

\* The release builder: stored lines whatever the numbering, and no article it
\* takes may be empty
BuildArticles ==
    LET found == Located(StoredLines)
        built == Articles("builder", StoredLines, found.headings)
    IN  /\ reading = Unread /\ word # <<>>
        /\ reading' = IF Complete(found) /\ \A n \in SelectedNumbers : built.bodies[n] # {}
                      THEN built ELSE Rejected("refused build")
        /\ UNCHANGED <<word, counters, labels>>

\* The binding audit: displayed lines if they can be rendered, stored lines,
\* titles; the base has those of the articles it was told to take
ExtractArticles(titled) ==
    LET shown == Located(DisplayedLines)
        kept == Located(StoredLines)
    IN  /\ reading = Unread /\ word # <<>>
        /\ reading' = IF Renderable(word) /\ Complete(shown)
                      THEN Articles("displayed", DisplayedLines, shown.headings)
                      ELSE IF Complete(kept) THEN Articles("stored", StoredLines, kept.headings)
                      ELSE IF UniqueChain(StoredLines, titled) # <<>>
                      THEN Articles("titles", StoredLines, TitleHeadings(StoredLines, titled))
                      ELSE Rejected(IF titled = 1..Wanted THEN "refused audit" ELSE "too few titles")
        /\ UNCHANGED <<word, counters, labels>>

ReadNext ==
    \/ \E layout \in Layouts :
          /\ Len(word) < Len(layout) /\ \A i \in DOMAIN word : word[i] \in layout[i]
          /\ \E p \in layout[Len(word) + 1] : ReadParagraph(p)
    \/ BuildArticles
    \/ \E titled \in {SelectedNumbers, 1..Wanted} : ExtractArticles(titled)

-----------------------------------------------------------------------------
(* Properties                                                                *)

\* Whether a paragraph makes the numbers of a list and level start again
Resets(i, list, level) ==
    /\ Numbered(word[i]) /\ ListOf(word[i]) = list /\ LevelOf(word[i]) < level
    /\ RestartAfter(list, level) # NoValue /\ LevelOf(word[i]) <= RestartAfter(list, level)

\* How often a level was counted since it last started again
Counted(i, list, level) ==
    LET resets == {j \in 1..i : Resets(j, list, level)}
        from == IF resets = {} THEN 0 ELSE CHOOSE j \in resets : \A k \in resets : k <= j
    IN  Cardinality({j \in (from + 1)..i : Numbered(word[j]) /\ ListOf(word[j]) = list /\ LevelOf(word[j]) = level})

\* Every number in every label is the start of its level plus the paragraphs of
\* that level since the last paragraph that makes it start again, whatever the
\* styles, the empty paragraphs and the other lists in between: the incremental
\* counters of the resolver agree with the document as a whole.
LabelsAsCounted ==
    \A i \in DOMAIN labels : labels[i] # NoValue =>
        LET list == ListOf(word[i])
            refs == LevelDefinition(list, LevelOf(word[i])).refs
        IN  \A r \in DOMAIN refs :
               labels[i].numbers[r] =
                   Start(list, refs[r])
                     + (IF Counted(i, list, refs[r]) = 0 THEN 0 ELSE Counted(i, list, refs[r]) - 1)

\* The lines a reading was made from
LinesRead == IF reading.by = "displayed" THEN DisplayedLines ELSE StoredLines

\* A line of the article between two places is signed: "/." and an office on it,
\* or at its end and at the beginning of the next line with text before the second place
SignedBetween(lines, from, to) ==
    \E j \in from..(to - 1) :
        \/ lines[j].kind = "signed"
        \/ /\ lines[j].kind = "closing"
           /\ \E k \in (j + 1)..to : /\ lines[k].kind \in {"office", "signature"}
                                    /\ \A m \in (j + 1)..(k - 1) : lines[m].kind \in {"page", "empty"}

\* In the articles of a reading every line from the first heading to the tail
\* of the last article is a heading, a line of exactly one article, a header of
\* the gazette, or stands in the same article behind a chapter's heading or
\* behind what is taken for a signature; and no article but the last hides a
\* heading that belongs to the main sequence. (What stands behind a "signature"
\* in the middle of a document is dropped: the code does not ask whether the
\* article is the last.)
EveryLineHasAPlace ==
    (reading.headings # <<>>) =>
        LET lines == LinesRead
            headings == reading.headings
            last == headings[Wanted].at
            owner(i) == CHOOSE p \in DOMAIN headings :
                            /\ headings[p].at <= i
                            /\ p < Wanted => headings[p + 1].at > i
        IN  \A i \in headings[1].at..(TailIndex(lines, last + 1) - 1) :
               LET holders == {p \in DOMAIN headings : i \in reading.bodies[p]}
               IN  IF i = headings[owner(i)].at THEN holders = {}
                   ELSE /\ holders \subseteq {owner(i)}
                        /\ holders = {} => \/ lines[i].kind \in {"page", "empty"}
                                           \/ \E j \in (headings[owner(i)].at + 1)..i : lines[j].kind = "chapter"
                                           \/ SignedBetween(lines, headings[owner(i)].at + 1, i)
                        /\ (reading.by # "titles" /\ owner(i) < Wanted /\ lines[i].kind = "article") =>
                              lines[i].n \notin 1..Wanted

\* The titles locate the articles exactly when they can be read in one way: the
\* counting of chains, capped at two, against all increasing choices of lines.
\* An ambiguous document is refused, never bound to one of its readings, also
\* where the numbering could not be rendered and only the titles are left. (A
\* base without the title of some main article is another refusal.)
OneReadingOnly ==
    LET choices == {c \in [1..Wanted -> DOMAIN StoredLines] :
                      /\ \A n \in 1..Wanted : c[n] \in Places(StoredLines, n)
                      /\ \A n \in 1..(Wanted - 1) : c[n] < c[n + 1]}
    IN  reading.by \in {"titles", "refused audit"} =>
            IF \E c \in choices : choices = {c}
            THEN reading.by = "titles" /\ {[n \in 1..Wanted |-> reading.headings[n].at]} = choices
            ELSE reading.by = "refused audit"
=============================================================================
