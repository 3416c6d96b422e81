------------------------------- MODULE MCCorpus -------------------------------
(* Documents for the offline pipeline.                                        *)
EXTENDS LegalParser, LegalChunker, VbplPortal, GazetteSources, WordDocument, CanonicalRelease

Line(kind, value) == [kind |-> kind, value |-> value, opens |-> FALSE, closes |-> FALSE, links |-> <<>>]
Opening == [Line("plain", "quoted") EXCEPT !.opens = TRUE]
Closing == [Line("plain", "last") EXCEPT !.closes = TRUE]
QuotedClause == [Line("clause", "1") EXCEPT !.closes = TRUE]
QuotedLine == [Line("plain", "whole") EXCEPT !.opens = TRUE, !.closes = TRUE]
Citing(links) == [Line("citation", "see") EXCEPT !.links = links]

\* An amending article: clauses, points and quoted articles
Quoting ==
    <<{Line("article", "a1")}>> \o
    [n \in 1..5 |-> {Line("clause", "1"), Line("point", "a"), Line("table", "t"),
                     Opening, Closing, QuotedClause, QuotedLine}]

\* Chapters, sections, articles with and without anchors, and their citations
Structure ==
    <<{Line("chapter", "I"), Line("heading", "preamble"), Line("article", "a1")},
      {Line("section", "1"), Line("heading", "general"), Line("chapter", Nil)}>> \o
    [n \in 1..3 |->
        {Line("article", "a2"), Line("article", Nil), Line("unreadable", "x"), Line("plain", "text"),
         Line("heading", Nil), Citing(<<<<"same_topic", "a2">>, <<"same_topic", "a2">>>>),
         Citing(<<<<"external", "law">>>>)}]

\* Notes, files, and appendixes of several articles
Appendixes ==
    <<{Line("article", "a1")}, {Line("note", "decree"), Line("marker", ""), Line("plain", "text")}>> \o
    [n \in 1..4 |->
        {Line("article", "a2"), Line("note", "decree"), Line("plain", "text"), Line("file", "f"),
         Line("blank", ""), Line("appendix", "I"), Line("form", "01"), Line("table", "t"),
         Citing(<<<<"same_topic", "a1">>>>)}]

MCAlphabets == [a \in {"quoting", "structure", "appendix"} |->
    CASE a = "quoting" -> Quoting [] a = "structure" -> Structure [] OTHER -> Appendixes]

-----------------------------------------------------------------------------

Word(end) == [end |-> end, sub |-> Blank, of |-> Blank]
Sub(label, of) == [end |-> "space", sub |-> label, of |-> of]
Unit(type, clause, label, occurrence, text) ==
    [type |-> type, clause |-> clause, label |-> label, occurrence |-> occurrence, text |-> text]

Short == <<Word("colon"), Word("space")>>
Long == <<Word("space"), Word("comma"), Word("semicolon"), Word("space"), Word("comma"),
          Word("space"), Word("space"), Word("space")>>
Phrase == [w \in 1..11 |-> Word(IF w = 11 THEN "space" ELSE "glue")]
Nested == <<Word("colon"), Sub("a1", "a"), Word("space"), Sub("a2", "a"), Word("comma")>>

Clauses == {Unit("clause", "1", Blank, 1, Short), Unit("clause", "1", Blank, 1, Long)}
Points == {Unit("point", "1", "a", 1, t) : t \in {Short, Long, Nested, Phrase}}
Lines == {Unit("clause_continuation", "1", Blank, 1, t) :
            t \in {Short, Long, <<Sub("a1", "a"), Word("space")>>}}
Others == {Unit("clause", "1", Blank, 2, Short), Unit("clause", "2", Blank, 1, Long),
           Unit("point", "1", "b", 1, Short), Unit("point", "1", "a", 2, Long), Unit("quote", Blank, Blank, 1, Short)}

MCShapes == [s \in {"clauses", "opening", "table"} |->
    IF s = "table" THEN <<>>
    ELSE IF s = "clauses" THEN <<Clauses, Points \cup Lines, Lines \cup Others, Lines \cup Others>>
    ELSE <<{Unit("preamble", Blank, Blank, 1, t) : t \in {Short, Long}}, Clauses \cup Lines \cup Points,
           Points \cup Others>>]

MCTables == [s \in DOMAIN MCShapes |->
    IF s = "table"
    THEN {[header |-> h, rows |-> r] :
            h \in {0, 2, 7, 8, 9, 11}, r \in {<<>>, <<1>>, <<2, 1>>, <<1, 6, 2>>, <<9, 1>>, <<1, 1, 1, 1>>}}
    ELSE {}]

Listing(url) == [name |-> "form", url |-> url, extension |-> "pdf"]
Published(text, numbers) == [text |-> text, articles |-> numbers, size |-> text]
Record(number, text, listed) ==
    [number |-> number, body |-> text, item |-> "i1", effect |-> TRUE, listed |-> listed]
Good(text) == Record("d1", Published(text, <<1, 2, 1>>), <<Listing(Absent), Listing("u1")>>)
Served(bytes) == [u \in {"u1", "u2"} |-> bytes]

MCAnswers ==
    [d \in {"d1"} |->
        {[gateway |-> <<Good(1)>>, browser |-> <<Good(1)>>, files |-> Served("genuine")],
         [gateway |-> <<Record("d2", Published(3, <<1>>), <<>>), Record("d1", Absent, <<Listing("u1")>>)>>,
          browser |-> <<Good(2)>>, files |-> Served("html")],
         [gateway |-> <<Record("d1", Published(2, <<2, 1>>), <<>>)>>, browser |-> <<>>,
          files |-> Served("unavailable")]}]

Collecting(policy, configured) ==
    [document |-> "d1", item |-> "i1", articles |-> 2, policy |-> policy, configured |-> configured]
Collector(items, resume, force) ==
    [items |-> items, resume |-> resume, force |-> force, keepGoing |-> TRUE]

MCPlans ==
    LET strict == Collecting("required_if_listed", {Listing("u2")})
        lenient == Collecting("best_effort", {})
        plain == Collecting("ignore", {})
    IN  {"p1" :> Collector(<<strict>>, TRUE, FALSE) @@ "p2" :> Collector(<<lenient>>, TRUE, FALSE),
         "p1" :> Collector(<<strict>>, FALSE, FALSE) @@ "p2" :> Collector(<<strict>>, TRUE, TRUE),
         "p1" :> Collector(<<plain, Collecting("required", {})>>, TRUE, FALSE)
            @@ "p2" :> Collector(<<>>, FALSE, FALSE)}

-----------------------------------------------------------------------------

Link(kind, exact, bytes) == [kind |-> kind, exact |-> exact, bytes |-> bytes]
Page(links) == [html |-> TRUE, conflict |-> FALSE, links |-> links]

MCRegistry ==
    <<[number |-> "g1", found |-> TRUE, fallback |-> FALSE], [number |-> "g2", found |-> FALSE, fallback |-> TRUE]>>

MCOptions ==
    {[replace |-> FALSE, force |-> FALSE], [replace |-> TRUE, force |-> FALSE], [replace |-> FALSE, force |-> TRUE]}

MCConverted == 7 :> {5, 6}

MCPages ==
    [n \in {"g1", "g2"} |->
        {Page(<<Link("pdf", TRUE, 9), Link("docx", TRUE, 1), Link("docx", TRUE, 2), Link("doc", TRUE, 7)>>),
         Page(<<Link("docx", TRUE, 3), Link("docx", TRUE, 4)>>),
         Page(<<Link("doc", FALSE, 7)>>),
         Page(<<Link("pdf", TRUE, 9)>>),
         [Page(<<Link("docx", TRUE, 8)>>) EXCEPT !.conflict = TRUE],
         [Page(<<>>) EXCEPT !.html = FALSE]}]

Told(n, kind, title) == [kind |-> kind, n |-> n, title |-> title]
Bare(text) == [text |-> text, style |-> NoValue, num |-> NoValue, level |-> NoValue]
OfList(number, depth, text) == [text |-> text, style |-> NoValue, num |-> number, level |-> depth]
Styled(name, text) == [text |-> text, style |-> name, num |-> NoValue, level |-> NoValue]

MCBaseTitles == <<"A", "B", "C">>

MCStyles ==
    "clause" :> [basedOn |-> "list", num |-> NoValue, level |-> 1]
    @@ "list" :> [basedOn |-> NoValue, num |-> 1, level |-> 0]
    @@ "loop" :> [basedOn |-> "pool", num |-> 1, level |-> 0]
    @@ "pool" :> [basedOn |-> "loop", num |-> 1, level |-> 0]

MCAbstracts ==
    LET level(start, restart, form, refs) == [start |-> start, restart |-> restart, shape |-> form, refs |-> refs]
    IN  1 :> (0 :> level(1, NoValue, "article", <<0>>) @@ 1 :> level(1, NoValue, "plain", <<1>>)
              @@ 2 :> level(1, 1, "plain", <<1, 2>>))
        @@ 2 :> (0 :> level(2, NoValue, "chapter", <<0>>) @@ 1 :> level(1, 0, "plain", <<0, 1>>))

MCLists ==
    1 :> [abstract |-> 1, starts |-> 2 :> 3, levels |-> <<>>]
    @@ 2 :> [abstract |-> 2, starts |-> <<>>,
             levels |-> 1 :> [start |-> 1, restart |-> 0, shape |-> "mark", refs |-> <<1>>]]

\* Documents of titles, of numbered paragraphs, and of written headings
MCLayouts ==
    LET body == Told(0, "text", "x")
        titles == {Bare(Told(0, "text", t)) : t \in {"A", "B", "C"}}
        numbered == {OfList(1, 0, Told(0, "text", "A")), Styled("list", Told(0, "text", "B")),
                     Styled("clause", body), OfList(NoValue, 2, body), OfList(1, 2, body),
                     [Styled("clause", Told(0, "empty", "")) EXCEPT !.level = 0],
                     OfList(1, 1, Told(0, "empty", "")), OfList(2, 0, body), OfList(2, 1, Told(1, "article", "A"))}
        deep == {OfList(1, 0, Told(0, "text", "A")), Styled("clause", body), OfList(1, 2, body),
                 OfList(1, 1, Told(0, "empty", ""))}
        broken == {Styled("loop", body), OfList(3, 0, body), OfList(1, 5, body), OfList(0, 0, body)}
        article(n) == Bare(Told(n, "article", MCBaseTitles[n]))
        other == Bare(Told(9, "article", "other"))
        line(kind) == Bare(Told(0, kind, "x"))
    IN  {[i \in 1..6 |-> titles],
         [i \in 1..3 |-> IF i = 2 THEN numbered \cup broken ELSE numbered],
         [i \in 1..4 |-> deep],
         <<{OfList(3, 0, Told(0, "text", "A")), article(1)}, titles \cup {OfList(3, 0, body)},
           {line("text"), article(2)}, titles, {line("text"), article(3)}, {line("text")}>>,
         <<{article(1)}, {line("closing"), line("signed"), OfList(1, 1, Told(0, "closing", "x"))},
           {line("page"), line("office"), line("signature"), line("text")},
           {line("office"), article(2)}, {line("text"), line("closing"), article(2), article(3)},
           {line("office"), line("appendix"), article(3)}, {line("text"), line("signed")}>>,
         <<{article(1), line("text"), article(2)}, {line("text"), line("page"), other, OfList(1, 0, body)},
           {line("text"), line("chapter"), article(2)}, {line("text"), article(2), article(3)},
           {line("text"), line("chapter"), other, article(1)},
           {article(3), article(1), line("text")}, {line("text"), line("signature"), article(2)}>>}

Piece(path, value) == [path |-> path, text |-> value]

MCBaseArticles ==
    {[id |-> "a1", units |-> {Piece(<<"a1", "1">>, 11), Piece(<<"a1", "1", "a">>, 12), Piece(<<"a1", "2">>, 13)}],
     [id |-> "a2", units |-> {Piece(<<"a2", "1">>, 14)}]}

Ruling(exclude, replace, insert) ==
    [exclude |-> exclude, replace |-> replace, insert |-> insert, gaps |-> FALSE,
     evidence |-> "e1" :> [required |-> TRUE, hashed |-> TRUE, intact |-> TRUE]]
Inserting(after, path, value) ==
    [article |-> "a1", after |-> after, unit |-> Piece(path, value), evidence |-> "e1"]

MCRulings ==
    LET replacing(path, value) == path :> [text |-> value, evidence |-> "e1"]
        none == Ruling({}, <<>>, <<>>)
    IN  {Ruling({<<"a1", "1">>}, replacing(<<"a1", "2">>, 20), <<>>),
         Ruling({}, replacing(<<"a2", "1">>, 30), <<>>),
         Ruling({<<"a2">>}, <<>>, <<Inserting(<<"a1", "2">>, <<"a1", "3">>, 99)>>),
         Ruling({<<"a1", "3">>}, <<>>, <<Inserting(<<"a1", "1", "a">>, <<"a1", "3">>, 21)>>),
         Ruling({<<"a1", "2">>}, <<>>, <<Inserting(<<"a1", "2">>, <<"a1", "3">>, 21)>>),
         none, [none EXCEPT !.gaps = TRUE],
         [none EXCEPT !.evidence = "e1" :> [required |-> TRUE, hashed |-> TRUE, intact |-> FALSE]]}

MCQuestions ==
    <<[codes |-> {"a1"}, evidence |-> {<<"a1", "1">>}, answerable |-> TRUE],
      [codes |-> {"official"}, evidence |-> {<<"official", "1">>}, answerable |-> TRUE]>>

ChunkerIdle ==
    /\ shape = "clauses" /\ units = <<>> /\ table = NoTable
    /\ opening = <<>> /\ groups = <<>> /\ orphans = <<>> /\ active = 0
    /\ drafts = <<>> /\ segments = <<>> /\ chunks = <<>> /\ at = 1 /\ phase = "idle"

ParserIdle ==
    /\ alphabet = "quoting" /\ html = <<>> /\ outline = NoOutline /\ preface = <<>>
    /\ articles = <<>> /\ attachments = <<>> /\ mode = "outside"
    /\ relations = <<>> /\ verdict = "idle"

PortalIdle ==
    /\ plan = [p \in Process |-> Collector(<<>>, FALSE, FALSE)]
    /\ clock = 0 /\ crashes = 0
    /\ lock = [d \in DOMAIN Answers |-> Absent] /\ published = [d \in DOMAIN Answers |-> {}]
    /\ temp = [p \in Process |-> Absent] /\ work = [p \in Process |-> Idle]
    /\ report = [p \in Process |-> [status |-> "completed", results |-> <<>>]]

\* The gazette's first step starts a run, which its bound forbids an idle machine
GazetteIdle ==
    /\ held = [n \in Numbers |-> Missing] /\ gazette = [n \in Numbers |-> {}]
    /\ sources = [n \in Numbers |-> <<>>] /\ ledger = [r \in Runner |-> Off]
    /\ job = [r \in Runner |-> NoJob] /\ runs = MaxRuns

WordIdle == word = <<>> /\ labels = <<>> /\ counters = <<>> /\ reading = Rejected("idle")

ReleaseIdle ==
    /\ docx = Unset /\ builder = NoBuild /\ sourceReleases = {}
    /\ canon = <<>> /\ sums = <<>> /\ golden = Unset
    /\ completion = NoCompletion /\ measured = Unset /\ audited = Unset
    /\ budget = [builds |-> 0, completions |-> 0, audits |-> 0]

\* One machine at a time
Init ==
    \/ ParserInit /\ ChunkerIdle /\ PortalIdle /\ GazetteIdle /\ WordIdle /\ ReleaseIdle
    \/ ParserIdle /\ ChunkerInit /\ PortalIdle /\ GazetteIdle /\ WordIdle /\ ReleaseIdle
    \/ ParserIdle /\ ChunkerIdle /\ PortalInit /\ GazetteIdle /\ WordIdle /\ ReleaseIdle
    \/ ParserIdle /\ ChunkerIdle /\ PortalIdle /\ GazetteInit /\ WordIdle /\ ReleaseIdle
    \/ ParserIdle /\ ChunkerIdle /\ PortalIdle /\ GazetteIdle /\ WordInit /\ ReleaseIdle
    \/ ParserIdle /\ ChunkerIdle /\ PortalIdle /\ GazetteIdle /\ WordIdle /\ ReleaseInit

Next ==
    \/ verdict # "idle" /\ ParserNext /\ UNCHANGED <<chunkerVars, portalVars, gazetteVars, wordVars, releaseVars>>
    \/ phase # "idle" /\ ChunkerNext /\ UNCHANGED <<parserVars, portalVars, gazetteVars, wordVars, releaseVars>>
    \/ PortalNext /\ UNCHANGED <<parserVars, chunkerVars, gazetteVars, wordVars, releaseVars>>
    \/ GazetteNext /\ UNCHANGED <<parserVars, chunkerVars, portalVars, wordVars, releaseVars>>
    \/ ReadNext /\ UNCHANGED <<parserVars, chunkerVars, portalVars, gazetteVars, releaseVars>>
    \/ ReleaseNext /\ UNCHANGED <<parserVars, chunkerVars, portalVars, gazetteVars, wordVars>>

Spec == Init /\ [][Next]_<<parserVars, chunkerVars, portalVars, gazetteVars, wordVars, releaseVars>>
=============================================================================
