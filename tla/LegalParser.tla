----------------------------- MODULE LegalParser -----------------------------
(***************************************************************************)
(* parse_legal_document: the HTML of one topic of the legal code becomes   *)
(* articles made of units, attachments, relations and a validation report. *)
(*                                                                         *)
(* The document is a sequence of tags that grows as it is read. The code   *)
(* walks it twice, for the structure and for the articles; neither walk    *)
(* uses a result of the other, and the model makes both steps of a tag at  *)
(* once. A paragraph is what the parser's patterns recognise in it, a      *)
(* position in the document stands for the text found there.               *)
(***************************************************************************)
EXTENDS Integers, Sequences, FiniteSets, SequencesExt

CONSTANTS
    Alphabets,  \* Alphabets[a][n]: the tags that documents of kind a may have
                \* in position n; none is longer than Alphabets[a]
    Topic,      \* the document id used when an article names no source
    Nil         \* no clause, no anchor, no title

\* What the patterns recognise in a tag, and the links of a citation
Tags == [kind : STRING, value : STRING \cup {Nil}, opens : BOOLEAN, closes : BOOLEAN,
         links : Seq(Seq(STRING))]

ASSUME ParserAssumption == \A a \in DOMAIN Alphabets : Alphabets[a] \in Seq(SUBSET Tags)

VARIABLES
    alphabet,   \* the kind of this document
    html,       \* the tags read so far
    outline,    \* chapter, section and heading items, and which one awaits its title
    preface,    \* for each link of a citation outside the articles: its chapter or section
    articles,   \* the articles; the last one may still be open
    attachments,\* the appendixes of the document
    mode,       \* where the next tag goes: "outside", "article" or "appendix"
    relations,  \* of the articles and, last, of the structure
    verdict     \* "reading", "parsed", "failed", or the errors of the validation

parserVars == <<alphabet, html, outline, preface, articles, attachments, mode, relations, verdict>>

-----------------------------------------------------------------------------
(* Structure: parse_structure_and_contexts *)

NoOutline == [items |-> <<>>, chapter |-> 0, section |-> 0, pending |-> 0]

\* A marker opens a chapter or a section and waits for its title.
AddMarker(o, kind, anchor) ==
    LET n == Len(o.items) + 1
    IN [items |-> Append(o.items, [kind |-> kind, anchor |-> anchor, title |-> Nil]),
        chapter |-> IF kind = "chapter" THEN n ELSE o.chapter,
        section |-> IF kind = "chapter" THEN 0 ELSE n,
        pending |-> n]

\* Any other line of class pChuong names the waiting marker or stands alone.
AddHeading(o, text) ==
    IF o.pending # 0
    THEN [o EXCEPT !.items[o.pending].title = text, !.pending = 0]
    ELSE IF text = Nil THEN o
    ELSE [o EXCEPT !.items = Append(@, [kind |-> "unclassified", anchor |-> Nil, title |-> text])]

\* The item that a citation outside the articles belongs to
CitationOwner(o) == IF o.section # 0 THEN o.section ELSE o.chapter

-----------------------------------------------------------------------------
(* Content units: build_content_units *)

NewArticle(id, o) ==
    [id |-> id, chapter |-> o.chapter, section |-> o.section, note |-> Nil,
     marked |-> FALSE, early |-> FALSE, citations |-> {}, blocks |-> <<>>,
     tables |-> 0, units |-> <<>>, clause |-> Nil, preambles |-> 0, continuations |-> 0,
     stack |-> <<>>]

\* How many units of the article have this id without its occurrence suffix
Occurrences(units, base) == Cardinality({i \in DOMAIN units : units[i].base = base})

AddUnit(art, type, base, clause, at) ==
    [art EXCEPT !.units = Append(@,
        [base |-> base, occurrence |-> Occurrences(@, base) + 1,
         type |-> type, clause |-> clause, at |-> at])]

ClauseUnit(art, tag, at) ==
    AddUnit([art EXCEPT !.clause = tag.value, !.continuations = 0],
            "clause", <<"clause", tag.value>>, tag.value, at)

\* A point without a clause is kept under the clause "unknown", with a warning.
PointUnit(art, tag, at) ==
    LET clause == IF art.clause = Nil THEN "unknown" ELSE art.clause
    IN AddUnit(art, "point", <<"clause", clause, "point", tag.value>>, art.clause, at)

PlainUnit(art, at) ==
    IF art.clause = Nil
    THEN AddUnit([art EXCEPT !.preambles = @ + 1], "preamble",
                 <<"preamble", ToString(art.preambles + 1)>>, Nil, at)
    ELSE AddUnit([art EXCEPT !.continuations = @ + 1], "clause_continuation",
                 <<"clause", art.clause, "continuation", ToString(art.continuations + 1)>>,
                 art.clause, at)

\* A quoted article starts its own numbering.
OpenQuote(art, tag) ==
    IF tag.opens
    THEN [art EXCEPT !.stack = Append(@, <<art.clause, art.continuations>>),
                     !.clause = Nil, !.continuations = 0]
    ELSE art

\* Mutant: a quoted article that ends leaves its numbering behind.
ForgetClause(art, tag) ==
    IF tag.closes /\ art.stack # <<>> THEN [art EXCEPT !.stack = Front(@)] ELSE art

\* Its end restores the numbering around it.
CloseQuote(art, tag) ==
    IF tag.closes /\ art.stack # <<>>
    THEN [art EXCEPT !.clause = Last(art.stack)[1], !.continuations = Last(art.stack)[2],
                     !.stack = Front(@)]
    ELSE art

UnitOf(art, tag, at) ==
    CASE tag.kind = "clause" -> ClauseUnit(art, tag, at)
      [] tag.kind = "point" -> PointUnit(art, tag, at)
      [] OTHER -> PlainUnit(art, at)

\* Text makes a unit and then moves the stack; a table is a unit of the clause;
\* markers and links to files are none.
ExtendUnits(art, tag, at) ==
    CASE tag.kind \in {"marker", "file"} -> art
      [] tag.kind = "table" ->
            AddUnit(art, "table", <<"table", ToString(art.tables)>>, art.clause, at)
      [] OTHER -> CloseQuote(OpenQuote(UnitOf(art, tag, at), tag), tag)

-----------------------------------------------------------------------------
(* Citations: a link is the place of a citation and its number in it *)

LinksOf(tag, at) == {<<at, k>> : k \in DOMAIN tag.links}

-----------------------------------------------------------------------------
(* parse_article: the siblings of the heading up to the next boundary *)

\* parse_content_block; what comes before the content marker is kept with a warning.
AddBlock(art, tag, at) ==
    LET counted == [art EXCEPT !.tables = IF tag.kind = "table" THEN @ + 1 ELSE @]
    IN [ExtendUnits(counted, tag, at) EXCEPT
            !.blocks = Append(@, at),
            !.marked = @ \/ tag.kind = "marker",
            !.early = @ \/ (tag.kind # "marker" /\ ~art.marked)]

\* The last note counts.
AddToArticle(art, tag, at) ==
    CASE tag.kind = "note" -> [art EXCEPT !.note = tag.value]
      [] tag.kind = "citation" -> [art EXCEPT !.citations = @ \cup LinksOf(tag, at)]
      [] tag.kind = "blank" -> art
      [] OTHER -> AddBlock(art, tag, at)

ParentDocument == IF Last(articles).note # Nil THEN Last(articles).note ELSE Topic

\* Mutant: only an appendix right before this one is counted.
NumberInArticle(parent) ==
    1 + Cardinality({i \in DOMAIN attachments :
            i = Len(attachments) /\ mode = "appendix" /\ attachments[i].parent = parent})

\* Appendixes of one legal document are numbered through all its articles.
AttachmentNumber(parent) ==
    1 + Cardinality({i \in DOMAIN attachments : attachments[i].parent = parent})

NewAttachment(at) ==
    [parent |-> ParentDocument, number |-> AttachmentNumber(ParentDocument),
     blocks |-> <<at>>, form |-> Nil, tables |-> <<>>]

\* In an appendix notes and citations are text; a table belongs to the form above it.
AddToAttachment(a, tag, at) ==
    IF tag.kind = "blank" THEN a
    ELSE [a EXCEPT !.blocks = Append(@, at),
                   !.form = IF tag.kind = "form" THEN tag.value ELSE @,
                   !.tables = IF tag.kind = "table" THEN Append(@, a.form) ELSE @]

-----------------------------------------------------------------------------
(* Reading *)

ParserInit ==
    /\ alphabet \in DOMAIN Alphabets
    /\ html = <<>> /\ outline = NoOutline /\ preface = <<>>
    /\ articles = <<>> /\ attachments = <<>> /\ mode = "outside"
    /\ relations = <<>> /\ verdict = "reading"

NextTags ==
    IF Len(html) < Len(Alphabets[alphabet]) THEN Alphabets[alphabet][Len(html) + 1] ELSE {}

Read(tag) ==
    /\ verdict = "reading"
    /\ tag \in NextTags
    /\ html' = Append(html, tag)
    /\ UNCHANGED <<alphabet, relations>>

At == Len(html) + 1

\* A line of class pChuong ends the article before it.
ReadStructure(tag) ==
    /\ Read(tag) /\ tag.kind \in {"chapter", "section", "heading"}
    /\ outline' = IF tag.kind = "heading" THEN AddHeading(outline, tag.value)
                  ELSE AddMarker(outline, tag.kind, tag.value)
    /\ mode' = "outside"
    /\ UNCHANGED <<preface, articles, attachments, verdict>>

\* A heading the parser cannot read, or of another topic, stops it.
ReadArticle(tag) ==
    /\ Read(tag) /\ tag.kind \in {"article", "unreadable"}
    /\ IF tag.kind = "unreadable"
       THEN verdict' = "failed" /\ UNCHANGED <<articles, mode>>
       ELSE /\ articles' = Append(articles, NewArticle(tag.value, outline))
            /\ mode' = "article" /\ UNCHANGED verdict
    /\ UNCHANGED <<outline, preface, attachments>>

\* Before the first article and after a chapter only citations are kept.
ReadOutside(tag) ==
    /\ Read(tag) /\ mode = "outside"
    /\ tag.kind \notin {"chapter", "section", "heading", "article", "unreadable"}
    /\ preface' = IF tag.kind = "citation"
                  THEN [link \in DOMAIN preface \cup LinksOf(tag, At) |->
                           IF link \in DOMAIN preface THEN preface[link] ELSE CitationOwner(outline)]
                  ELSE preface
    /\ UNCHANGED <<outline, articles, attachments, mode, verdict>>

ReadInArticle(tag) ==
    /\ Read(tag) /\ mode = "article"
    /\ tag.kind \notin {"chapter", "section", "heading", "article", "unreadable", "appendix"}
    /\ articles' = [articles EXCEPT ![Len(articles)] = AddToArticle(@, tag, At)]
    /\ UNCHANGED <<outline, preface, attachments, mode, verdict>>

ReadAppendix(tag) ==
    /\ Read(tag) /\ mode # "outside" /\ tag.kind = "appendix"
    /\ attachments' = Append(attachments, NewAttachment(At))
    /\ mode' = "appendix"
    /\ UNCHANGED <<outline, preface, articles, verdict>>

ReadInAppendix(tag) ==
    /\ Read(tag) /\ mode = "appendix"
    /\ tag.kind \notin {"chapter", "section", "heading", "article", "unreadable", "appendix"}
    /\ attachments' = [attachments EXCEPT ![Len(attachments)] = AddToAttachment(@, tag, At)]
    /\ UNCHANGED <<outline, preface, articles, mode, verdict>>

-----------------------------------------------------------------------------
(* Relations and validation *)

\* What a link says: <<type, target>>
LinkAt(link) == html[link[1]].links[link[2]]

\* flatten_* keep one relation per source, target and type, with the number of
\* its mentions; source[link] is the source of a link.
Mentions(source) ==
    [key \in {<<source[link], LinkAt(link)>> : link \in DOMAIN source} |->
        Cardinality({link \in DOMAIN source : <<source[link], LinkAt(link)>> = key})]

ArticleIds == {articles[i].id : i \in DOMAIN articles} \ {Nil}

ArticleRelations(art) == Mentions([link \in art.citations |-> art.id])

\* The source of a structure relation is the anchor of its chapter or section.
AnchorOf(owner) == IF owner = 0 THEN Nil ELSE outline.items[owner].anchor

StructureRelations == Mentions([link \in DOMAIN preface |-> AnchorOf(preface[link])])

Relate ==
    /\ verdict = "reading"
    /\ relations' = Append([i \in DOMAIN articles |-> ArticleRelations(articles[i])],
                           StructureRelations)
    /\ verdict' = "parsed"
    /\ UNCHANGED <<alphabet, html, outline, preface, articles, attachments, mode>>

UnitId(art, u) == <<art.id, u.base, u.occurrence>>

UnitPlaces == {place \in (DOMAIN articles) \X (1..Len(html)) :
                place[2] \in DOMAIN articles[place[1]].units}

\* An internal link into this topic whose article the document does not have
Unresolved ==
    {key \in UNION {DOMAIN relations[i] : i \in DOMAIN relations} :
        key[2][1] = "same_topic" /\ key[2][2] \notin ArticleIds}

Errors ==
    {e \in {"missing_id", "duplicate_id", "duplicate_unit", "empty", "no_chapter", "unresolved"} :
        CASE e = "missing_id" -> \E i \in DOMAIN articles : articles[i].id = Nil
          [] e = "duplicate_id" ->
                \E i, j \in DOMAIN articles :
                    i < j /\ articles[i].id = articles[j].id /\ articles[i].id # Nil
          [] e = "duplicate_unit" ->
                \E p, q \in UnitPlaces :
                    p # q /\ UnitId(articles[p[1]], articles[p[1]].units[p[2]])
                           = UnitId(articles[q[1]], articles[q[1]].units[q[2]])
          [] e = "empty" -> \E i \in DOMAIN articles : articles[i].units = <<>>
          [] e = "no_chapter" -> \E i \in DOMAIN articles : articles[i].chapter = 0
          [] e = "unresolved" -> Unresolved # {}}

Validate ==
    /\ verdict = "parsed"
    /\ verdict' = IF Errors = {} THEN "valid" ELSE "invalid"
    /\ UNCHANGED <<alphabet, html, outline, preface, articles, attachments, mode, relations>>

ParserNext ==
    \/ \E tag \in NextTags :
        \/ ReadStructure(tag) \/ ReadArticle(tag) \/ ReadOutside(tag)
        \/ ReadInArticle(tag) \/ ReadAppendix(tag) \/ ReadInAppendix(tag)
    \/ Relate \/ Validate

-----------------------------------------------------------------------------

LastOf(S) == CHOOSE x \in S : \A y \in S : y <= x

\* The heading of the article that position p follows, or 0
Home(p) ==
    LET boundaries == {q \in 1..(p - 1) :
            html[q].kind \in {"chapter", "section", "heading", "article"}}
    IN IF boundaries = {} \/ html[LastOf(boundaries)].kind # "article"
       THEN 0 ELSE LastOf(boundaries)

InAppendix(p) == Home(p) # 0 /\ \E q \in (Home(p) + 1)..p : html[q].kind = "appendix"

ArticleOf(p) == Cardinality({q \in 1..Home(p) : html[q].kind = "article"})

\* The anchor of the chapter or section that position p stands under
AnchorAt(p) ==
    LET markers == {q \in 1..(p - 1) : html[q].kind \in {"chapter", "section"}}
    IN  IF markers = {} THEN Nil ELSE html[LastOf(markers)].value

\* The links of all citations that are not text of an appendix
LinkPlaces ==
    UNION {LinksOf(html[p], p) : p \in {q \in DOMAIN html : html[q].kind = "citation" /\ ~InAppendix(q)}}

\* Every piece of text after an article's heading is kept exactly once, in
\* that article or in the appendix it stands in.
TextInItsPlace ==
    /\ \A p \in DOMAIN html :
          html[p].kind \in {"clause", "point", "plain", "form", "table", "file", "marker"} =>
              /\ {i \in DOMAIN articles : p \in Range(articles[i].blocks)} =
                  IF Home(p) = 0 \/ InAppendix(p) THEN {} ELSE {ArticleOf(p)}
              /\ Cardinality({i \in DOMAIN attachments : p \in Range(attachments[i].blocks)}) =
                  IF InAppendix(p) THEN 1 ELSE 0
    /\ \A i \in DOMAIN articles : IsInjective(articles[i].blocks)
    /\ \A i \in DOMAIN attachments : IsInjective(attachments[i].blocks)

\* Every text and table of an article is one unit with an id of its own,
\* however often a quotation repeats a clause.
TextIsUnits ==
    \A i \in DOMAIN articles : LET art == articles[i] IN
        /\ {art.units[j].at : j \in DOMAIN art.units} =
            {p \in Range(art.blocks) : html[p].kind \notin {"file", "marker"}}
        /\ IsInjective([j \in DOMAIN art.units |-> art.units[j].at])
        /\ IsInjective([j \in DOMAIN art.units |-> UnitId(art, art.units[j])])

\* The number of mentions of a relation
MentionsIn(relation, key) == IF key \in DOMAIN relation THEN relation[key] ELSE 0

\* The relations mention every link as often as it stands in the article, or
\* outside the articles under the chapter or section.
LinksAreMentioned ==
    verdict \in {"parsed", "valid", "invalid"} =>
        /\ DOMAIN relations = 1..(Len(articles) + 1)
        /\ \A i \in DOMAIN articles : \A link \in LinkPlaces :
              MentionsIn(relations[i], <<articles[i].id, LinkAt(link)>>) =
                  Cardinality({other \in LinkPlaces : ArticleOf(other[1]) = i /\ LinkAt(other) = LinkAt(link)})
        /\ \A p \in DOMAIN html : \A link \in LinkPlaces :
              MentionsIn(relations[Len(articles) + 1], <<AnchorAt(p), LinkAt(link)>>) =
                  Cardinality({other \in LinkPlaces : /\ Home(other[1]) = 0 /\ AnchorAt(other[1]) = AnchorAt(p)
                                                      /\ LinkAt(other) = LinkAt(link)})

\* No text is lost, moved or kept twice, no two units of an article and no two
\* appendixes share an id, and no citation is lost.
NothingLost ==
    /\ TextInItsPlace
    /\ TextIsUnits
    /\ IsInjective([i \in DOMAIN attachments |-> <<attachments[i].parent, attachments[i].number>>])
    /\ LinksAreMentioned

\* How many quotations are open after one more unit
OpenAfter(unit, open) ==
    LET tag == html[unit.at]
        opened == IF tag.opens THEN open + 1 ELSE open
    IN  IF unit.type = "table" THEN open
        ELSE IF tag.closes /\ opened > 0 THEN opened - 1 ELSE opened

\* How many are open after the first units
Depth(art) ==
    LET depth[n \in 0..Len(art.units)] ==
            IF n = 0 THEN 0 ELSE OpenAfter(art.units[n], depth[n - 1])
    IN  depth

\* What stands outside quotations belongs to the last clause outside
\* quotations: an amending article may quote whole articles, with clauses of
\* their own and to any depth, without moving the text that follows them.
QuotesRestored ==
    \A i \in DOMAIN articles :
        LET art == articles[i]
            outer == {n \in DOMAIN art.units : Depth(art)[n - 1] = 0}
            clauses(n) == {m \in outer : m <= n /\ art.units[m].type = "clause"}
        IN \A n \in outer :
            art.units[n].clause =
                IF clauses(n) = {} THEN Nil ELSE html[art.units[LastOf(clauses(n))].at].value
=============================================================================
