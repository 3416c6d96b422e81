--------------------------- MODULE DocumentLibrary ---------------------------
(***************************************************************************)
(* The document library: the catalogue that source_catalog.py builds from  *)
(* the two files of a release at the first request and keeps for the life  *)
(* of the process, and the pages that read it. The files may be replaced   *)
(* one by one at any time, the process may be restarted, and two requests  *)
(* may build the catalogue at once. An effect of a page runs again when    *)
(* what it depends on changes, and its cleanup aborts the earlier request. *)
(***************************************************************************)
EXTENDS Integers, Sequences, FiniteSets, Functions, FiniteSetsExt

CONSTANTS
    Versions,          \* of a file of the release directory
    ChunksIn,          \* [Versions -> sequence of [code, doc, type], or Unreadable]
    ArticlesIn,        \* [Versions -> sequence of [code, doc, number], or Unreadable]
    IdIn,              \* [Versions -> the release id of the articles' metadata, or Nothing]
    ConfiguredId,      \* settings.corpus_release_id
    Documents,         \* ids a reader may ask for
    Queries,
    FoundDocuments,    \* [Queries -> documents whose number or title has it]
    FoundArticles,     \* [Queries -> articles whose number or heading has it]
    DocumentsPerPage,  \* 12 in the code
    ArticlesPerPage,   \* 20 in the code
    Unreadable, Failed, Nothing

ASSUME LibraryAssumption ==
    /\ DocumentsPerPage \in Nat \ {0} /\ ArticlesPerPage \in Nat \ {0}
    /\ Documents \subseteq Nat
    /\ \A v \in Versions : ChunksIn[v] # Unreadable =>
          ChunksIn[v] \in Seq([code : Nat, doc : Nat, type : Nat])
    /\ \A v \in Versions : ArticlesIn[v] # Unreadable =>
          ArticlesIn[v] \in Seq([code : Nat, doc : {Nothing} \cup Nat, number : {Nothing} \cup Nat])

VARIABLES
    disk,      \* the version of either file
    cached,    \* the catalogue of get_source_catalog, or Nothing
    fetches,   \* the requests of the tab that are not aborted
    pane       \* [Effects -> what its last run asked for, and what is shown]

libraryVars == <<disk, cached, fetches, pane>>

Effects == {"list", "header", "articles", "viewer"}
Unmounted == [asks |-> Nothing, state |-> "none", data |-> Nothing]

Ask(e, of, q, page) == [effect |-> e, of |-> of, q |-> q, page |-> page]
AnyType == 0

LibraryInit ==
    /\ \E v \in Versions : disk = [chunks |-> v, articles |-> v]
    /\ cached = Nothing /\ fetches = {}
    /\ pane = [e \in Effects |-> Unmounted]

-----------------------------------------------------------------------------
(* Lists: orders are sets of pairs *)

\* The order of S by one key and, where that is equal, by another
ByKeys(S, first, second) ==
    {p \in S \X S : \/ first[p[1]] < first[p[2]]
                    \/ first[p[1]] = first[p[2]] /\ second[p[1]] < second[p[2]]}

\* The members of S, each before those that follow it
Sorted(S, before) ==
    CHOOSE s \in [1..Cardinality(S) -> S] : \A i, j \in DOMAIN s : i < j => <<s[i], s[j]>> \in before

\* The elements of a list at some places, in its order
Picked(list, places) ==
    LET place == [i \in places |-> i]
        order == Sorted(places, ByKeys(places, place, place))
    IN [k \in DOMAIN order |-> list[order[k]]]

-----------------------------------------------------------------------------
(* The catalogue: cat.chunks and cat.articles are the versions it was read of *)

ChunksOf(cat, code) ==
    LET chunks == ChunksIn[cat.chunks] IN Picked(chunks, {i \in DOMAIN chunks : chunks[i].code = code})
CodesOf(cat) == {c.code : c \in Range(ChunksIn[cat.chunks])}
Entry(cat, code) == CHOOSE a \in Range(ArticlesIn[cat.articles]) : a.code = code
DocumentOfArticle(cat, code) == ChunksOf(cat, code)[1].doc

\* _load_articles: a line that is not JSON fails it, an empty file does not.
ChunksLoad(v) == ChunksIn[v] # Unreadable

\* A root without articles, or with a code twice, fails the whole catalogue.
ArticlesLoad(v) ==
    LET articles == ArticlesIn[v] IN
    /\ articles # Unreadable /\ articles # <<>>
    /\ \A i, j \in DOMAIN articles : articles[i].code = articles[j].code => i = j
    /\ \A i \in DOMAIN articles : articles[i].doc # Nothing

\* Mutant: only the article codes of the two files are compared.
SameCodes(cat) == CodesOf(cat) = {a.code : a \in Range(ArticlesIn[cat.articles])}

Consistent(cat) ==
    /\ CodesOf(cat) = {a.code : a \in Range(ArticlesIn[cat.articles])}
    /\ \A c \in Range(ChunksIn[cat.chunks]) : c.doc = Entry(cat, c.code).doc

IdAccepted(cat) == IdIn[cat.articles] \in {Nothing, ConfiguredId}

Loads(cat) ==
    /\ ChunksLoad(cat.chunks) /\ ArticlesLoad(cat.articles)
    /\ Consistent(cat) /\ IdAccepted(cat)

\* The document's metadata is that of the first chunk of its first article.
IndexedDocuments(cat) == {DocumentOfArticle(cat, code) : code \in CodesOf(cat)}
TypeOf(cat, d) ==
    LET chunks == ChunksIn[cat.chunks] IN Picked(chunks, {i \in DOMAIN chunks : chunks[i].doc = d})[1].type

\* Articles without a number come last, ties are in the order of the codes.
ArticlesOf(cat, d) ==
    LET codes == {code \in CodesOf(cat) : DocumentOfArticle(cat, code) = d}
        Key(code) == IF Entry(cat, code).number = Nothing THEN 99999 ELSE Entry(cat, code).number
    IN Sorted(codes, ByKeys(codes, [code \in codes |-> Key(code)], [code \in codes |-> code]))

Summary(cat, d) == <<d, Len(ArticlesOf(cat, d))>>

Paginate(cat, items, page, size) ==
    LET start == (page - 1) * size IN
    [from |-> cat, items |-> SubSeq(items, start + 1, Min({start + size, Len(items)})),
     pages |-> (Len(items) + size - 1) \div size]

ListDocuments(cat, type, q, page) ==
    LET matching == {d \in IndexedDocuments(cat) :
            /\ type = AnyType \/ TypeOf(cat, d) = type
            /\ q = Nothing \/ d \in FoundDocuments[q]}
        sorted == Sorted(matching,
            ByKeys(matching, [d \in matching |-> TypeOf(cat, d)], [d \in matching |-> d]))
        listed == Paginate(cat, sorted, page, DocumentsPerPage)
    IN [listed EXCEPT !.items = [i \in DOMAIN @ |-> Summary(cat, @[i])]]

GetDocument(cat, d) ==
    IF d \notin IndexedDocuments(cat) THEN Failed
    ELSE [from |-> cat, items |-> <<Summary(cat, d)>>, pages |-> 1]

ListDocumentArticles(cat, d, q, page) ==
    IF d \notin IndexedDocuments(cat) THEN Failed
    ELSE LET all == ArticlesOf(cat, d)
             found == Picked(all, {i \in DOMAIN all : q = Nothing \/ all[i] \in FoundArticles[q]})
             listed == Paginate(cat, found, page, ArticlesPerPage)
         IN [listed EXCEPT !.items = [i \in DOMAIN @ |-> <<@[i], Entry(cat, @[i]).number>>]]

\* The chunks of the article in the order of the file, each with its document
GetArticle(cat, code) ==
    IF code \notin CodesOf(cat) THEN Failed
    ELSE LET chunks == ChunksOf(cat, code)
         IN [from |-> cat, items |-> [i \in DOMAIN chunks |-> <<i, chunks[i].doc>>], pages |-> 1]

Reply(cat, asks) ==
    CASE asks.effect = "list" -> ListDocuments(cat, asks.of, asks.q, asks.page)
      [] asks.effect = "header" -> GetDocument(cat, asks.of)
      [] asks.effect = "articles" -> ListDocumentArticles(cat, asks.of, asks.q, asks.page)
      [] asks.effect = "viewer" -> GetArticle(cat, asks.of)

-----------------------------------------------------------------------------
(* The server *)

Replace(f, reply) == fetches' = (fetches \ {f}) \cup {[f EXCEPT !.reply = reply]}

Serve(f) ==
    /\ f.reply = Nothing /\ f.chunks = Nothing /\ cached # Nothing
    /\ Replace(f, Reply(cached, f.asks))
    /\ UNCHANGED <<disk, cached, pane>>

\* lru_cache holds no lock: every request that finds no catalogue builds one,
\* is answered from it, and the first that is complete is kept.
ReadChunks(f) ==
    /\ f.reply = Nothing /\ f.chunks = Nothing /\ cached = Nothing
    /\ fetches' = (fetches \ {f}) \cup {[f EXCEPT !.chunks = disk.chunks]}
    /\ UNCHANGED <<disk, cached, pane>>

ReadArticles(f) ==
    /\ f.reply = Nothing /\ f.chunks # Nothing
    /\ LET cat == [chunks |-> f.chunks, articles |-> disk.articles]
       IN IF Loads(cat)
          THEN /\ cached' = IF cached = Nothing THEN cat ELSE cached
               /\ Replace(f, Reply(cat, f.asks))
          ELSE Replace(f, Failed) /\ UNCHANGED cached
    /\ UNCHANGED <<disk, pane>>

\* A release is put in place file by file, and not every file arrives whole.
ReplaceFile ==
    /\ \E v \in Versions, file \in {"chunks", "articles"} : disk' = [disk EXCEPT ![file] = v]
    /\ UNCHANGED <<cached, fetches, pane>>

Restart ==
    /\ cached' = Nothing
    /\ fetches' = {IF f.reply = Nothing THEN [f EXCEPT !.reply = Failed] ELSE f : f \in fetches}
    /\ UNCHANGED <<disk, pane>>

-----------------------------------------------------------------------------
(* The pages *)

Shown(e) == pane[e].state = "shown"
Mounted(e) == pane[e].asks # Nothing
Asked(e) == pane[e].asks

\* Runs the effects of `new' and unmounts those of `gone'; the cleanup of
\* either aborts the request of the run before.
Render(new, gone) ==
    /\ pane' = [e \in Effects |->
          IF e \in DOMAIN new THEN [asks |-> new[e], state |-> "loading", data |-> Nothing]
          ELSE IF e \in gone THEN Unmounted ELSE pane[e]]
    /\ fetches' = {f \in fetches : f.asks.effect \notin DOMAIN new \cup gone}
          \cup {[asks |-> new[e], chunks |-> Nothing, reply |-> Nothing] : e \in DOMAIN new}
    /\ UNCHANGED <<disk, cached>>

OpenLibrary ==
    /\ ~Mounted("list")
    /\ Render([e \in {"list"} |-> Ask(e, AnyType, Nothing, 1)], {"header", "articles", "viewer"})

\* A document is opened from the list, or by its address.
OpenDocument ==
    \E d \in Documents :
        /\ Mounted("header") => Asked("header").of # d
        /\ Render([e \in {"header", "articles"} |-> Ask(e, d, Nothing, IF e = "articles" THEN 1 ELSE 0)],
                  {"list", "viewer"})

\* Submitting what is already active changes nothing, not even after a failure.
FilterDocuments ==
    /\ Mounted("list")
    /\ \E type \in {AnyType} \cup {c.type : c \in UNION {Range(ChunksIn[v]) : v \in {w \in Versions : ChunksLoad(w)}}},
          q \in Queries \cup {Nothing} :
        /\ Ask("list", type, q, 1) # Asked("list")
        /\ Render([e \in {"list"} |-> Ask(e, type, q, 1)], {})

SearchArticles ==
    /\ Mounted("articles") /\ ~Mounted("viewer")
    /\ \E q \in Queries \cup {Nothing} :
        /\ Ask("articles", Asked("articles").of, q, 1) # Asked("articles")
        /\ Render([e \in {"articles"} |-> Ask(e, Asked(e).of, q, 1)], {})

TurnPage(e) ==
    /\ Shown(e) /\ pane[e].data.pages > 1 /\ ~Mounted("viewer")
    /\ \E page \in {Asked(e).page - 1, Asked(e).page + 1} :
        /\ page >= 1 /\ (page > Asked(e).page => page <= pane[e].data.pages)
        /\ Render([x \in {e} |-> [Asked(e) EXCEPT !.page = page]], {})

ViewArticle ==
    /\ Shown("articles") /\ ~Mounted("viewer")
    /\ \E item \in Range(pane["articles"].data.items) :
        Render([e \in {"viewer"} |-> Ask(e, item[1], Nothing, 0)], {})

CloseViewer == Mounted("viewer") /\ Render(<<>>, {"viewer"})

\* onClose is a new function whenever the page around the viewer is rendered,
\* and the viewer's effect depends on it.
RenderAround ==
    /\ Mounted("viewer")
    /\ Render([e \in {"viewer"} |-> Asked(e)], {})

Settle(f) ==
    LET e == f.asks.effect
        settled == [asks |-> Asked(e), state |-> IF f.reply = Failed THEN "error" ELSE "shown",
                    data |-> IF f.reply = Failed THEN Nothing ELSE f.reply]
        again == e \in {"header", "articles"} /\ Mounted("viewer")
    IN /\ f.reply # Nothing
       /\ pane' = [pane EXCEPT ![e] = settled,
                               !["viewer"] = IF again THEN [@ EXCEPT !.state = "loading", !.data = Nothing]
                                             ELSE IF e = "viewer" THEN settled ELSE @]
       /\ fetches' = {g \in fetches \ {f} : again => g.asks.effect # "viewer"}
             \cup IF again THEN {[asks |-> Asked("viewer"), chunks |-> Nothing, reply |-> Nothing]} ELSE {}
       /\ UNCHANGED <<disk, cached>>

LibraryNext ==
    \/ \E f \in fetches : Serve(f) \/ ReadChunks(f) \/ ReadArticles(f) \/ Settle(f)
    \/ ReplaceFile \/ Restart
    \/ OpenLibrary \/ OpenDocument \/ FilterDocuments \/ SearchArticles
    \/ TurnPage("list") \/ TurnPage("articles") \/ ViewArticle \/ CloseViewer \/ RenderAround

LibrarySpec == LibraryInit /\ [][LibraryNext]_libraryVars

-----------------------------------------------------------------------------
(* Properties *)

\* The given page of S, by the number of members before each
PageOf(S, before, page, size) ==
    LET start == (page - 1) * size
    IN [i \in 1..Max({0, Min({size, Cardinality(S) - start})}) |->
           CHOOSE x \in S : Cardinality({y \in S : <<y, x>> \in before}) = start + i - 1]

Entries(cat) == Range(ArticlesIn[cat.articles])
EntriesOf(cat, d) == {a \in Entries(cat) : a.doc = d}

PromisedDocuments(cat, type, q, page) ==
    LET documents == {d \in {a.doc : a \in Entries(cat)} :
            /\ type = AnyType \/ TypeOf(cat, d) = type
            /\ q = Nothing \/ d \in FoundDocuments[q]}
        on == PageOf(documents, ByKeys(documents, [d \in documents |-> TypeOf(cat, d)], [d \in documents |-> d]),
                     page, DocumentsPerPage)
    IN [i \in DOMAIN on |-> <<on[i], Cardinality(EntriesOf(cat, on[i]))>>]

PromisedArticles(cat, d, q, page) ==
    LET entries == {a \in EntriesOf(cat, d) : q = Nothing \/ a.code \in FoundArticles[q]}
        number == [a \in entries |-> IF a.number = Nothing THEN 99999 ELSE a.number]
        on == PageOf(entries, ByKeys(entries, number, [a \in entries |-> a.code]), page, ArticlesPerPage)
    IN [i \in DOMAIN on |-> <<on[i].code, on[i].number>>]

\* What the articles file alone says the answer is
Promised(cat, asks) ==
    CASE asks.effect = "list" -> PromisedDocuments(cat, asks.of, asks.q, asks.page)
      [] asks.effect = "header" -> <<<<asks.of, Cardinality(EntriesOf(cat, asks.of))>>>>
      [] asks.effect = "articles" -> PromisedArticles(cat, asks.of, asks.q, asks.page)
      [] asks.effect = "viewer" -> [i \in DOMAIN ChunksOf(cat, asks.of) |-> <<i, Entry(cat, asks.of).doc>>]

\* What a page shows is the server's reply to what it asks for now, from one
\* catalogue whose files agreed.
ShownIsReply ==
    \A e \in Effects : Shown(e) =>
        \E cat \in [chunks : Versions, articles : Versions] :
            Loads(cat) /\ pane[e].data = Reply(cat, Asked(e))

\* It is what the articles file of that catalogue says.
ShownIsPromised ==
    \A e \in Effects : Shown(e) =>
        pane[e].data.items = Promised(pane[e].data.from, Asked(e))

\* Whatever a page shows answers what is asked for now, not an earlier filter
\* or page, and is what the articles file of the catalogue says: every document
\* and article on its page and on no other, the count on a card that of its
\* articles, and no passage of another document in an article. So it is while
\* files are replaced one by one, catalogues are built at once and the server
\* is restarted between two pages.
ShownIsAsked == ShownIsReply /\ ShownIsPromised
===============================================================================
