# A TLA+ model of the labour-law question-answering service

This directory specifies, model-checks and partly proves the program of this
repository: a FastAPI service that answers questions about Vietnamese labour law
from a corpus in Qdrant, keeps accounts, sessions, conversations, bookmarks and
contract reviews in a relational database, and is used through a React
application; and the offline programs that collect, parse, cut, release and
evaluate the corpus it answers from. Paths below are relative to the repository;
`app/` is `backend/app/`.

Contents: [1 the system](#1-the-system) · [2 the modules](#2-the-modules) ·
[3 each module and its code](#3-each-module-and-its-code) ·
[4 runs and bounds](#4-runs-and-bounds) · [5 disagreements](#5-where-the-code-and-its-documentation-disagree) ·
[6 proofs](#6-proofs) · [7 known behaviours](#7-behaviours-worth-knowing) ·
[8 not modelled](#8-what-is-not-modelled) · [9 plan](#9-plan)

To run a model: `tlc -config RuntimeGate.cfg MCRuntimeGate`. To check proofs:
`tlapm AnsweringProofs.tla`, and likewise for every module whose name ends in
`Proofs`. `PROJECT.json` holds the map from every
definition to the lines it models, the runs, the mutants that break each
property, and the list of hazards.

## 1 The system

### Parts, their state and their operations

| Part | State | Operations | Modelled by |
|---|---|---|---|
| Runtime gate (`core/runtime_readiness.py`, `retrieval/retriever_factory.py`, `retrieval/vncorenlp_bm25.py`) | cached report and its expiry, `_CACHE_LOCK`, cached retrievers, analysis cache, dense model, queue of the one-thread retrieval executor | `GET /ready`, the gate in front of `POST /ask`, a probe, a retrieval job | `RuntimeGate` |
| Answer service (`services/rag_service.py`, `services/answer_guardrail.py`, `chains/generation_chain.py`) | per request: time spent, sources, attempt, reason of the last failure, accepted reply | `RAGService.ask`: retrieve, sanitise, at most two calls of the model, guardrail, response | `AnswerService` |
| Retrieval (`retrieval/hybrid_retriever.py` and its components) | the target of the alias | sparse and dense search, fusion, context | `HybridRanking` |
| Accounts and sessions (`repositories/auth.py`, `api/routes/auth.py`, `api/dependencies/auth.py`) | `app_users`, `user_sessions`, owner columns of conversations and bookmarks | register, login, migration of anonymous data, authenticate and touch, logout, logout of all | `AccountSessions` |
| History and bookmarks (`repositories/conversations.py`, `api/routes/conversations.py`, `api/routes/ask.py`) | `conversations`, `messages`, `bookmarks` | the storing part of `/ask`, create, rename, delete, put / delete / list bookmarks | `ConversationHistory` |
| Contract reviews (`repositories/contract_reviews.py`, `api/routes/contract_reviews.py`) | reviews, findings, sources | upload, list, open, delete | `ContractReviews` |
| Contract review drafts (`services/contract_review_service.py`, `…_reranker.py`) | none | evidence of a category, findings, severity | `EvidenceSelection` |
| Corpus release to Qdrant (`ingestion/index_qdrant.py`, `ingestion/qdrant_alias.py`, `core/qdrant_readiness.py`) | collections, points with a corpus fingerprint, the active alias | index, resume, verify, activate, readiness check | `QdrantRelease` |
| Catalogue and library pages (`services/source_catalog.py`, `frontend/src/features/library`) | two release files, the cached catalogue, React state | list, open a document, open an article | `DocumentLibrary` |
| Question page (`frontend/src/App.tsx`, `features/history/ConversationSidebar.tsx`) | React state of the page, `localStorage`, handlers in flight | load, open, new, ask, rename, delete, bookmark, leave, reload | `ConversationPage` |
| Sign-in state of a tab (`features/auth`, `App.tsx`, `features/contracts`) | user, CSRF token, cookies of the browser, sessions | sign in and out, requests with late replies, contract page | `BrowserSession` |
| Parser (`ingestion/legal_parser.py`) | articles, attachments, relations, quotation stack | one HTML topic of the legal code into units | `LegalParser` |
| Chunker (`ingestion/legal_chunker.py`) | groups, drafts, segments, chunks | one article into chunks within a token budget | `LegalChunker` |
| Portal collector (`scripts/vbpl_portal.py`) | lock directories, temporary and published snapshots, run reports | fetch, publish, resume, take over a stale lock | `VbplPortal` |
| Gazette collector (`scripts/congbao_docx.py`, `scripts/canonical_source_policy.py`) | locks, snapshots, the directory of source files, ledger | fetch the parts, put them in place, fall back to the portal | `GazetteSources` |
| Word documents (`scripts/docx_numbering.py`, `build_official_docx_release.py`, `audit_canonical_source_binding.py`) | list counters | number paragraphs, locate articles | `WordDocument` |
| Releases (`scripts/build_official_docx_release.py`, `complete_canonical_corpus.py`, `run_canonical_completion.sh`, audits) | source releases, the canonical directory, checksums, audit summary | build, complete, audit, seal | `CanonicalRelease` |
| Evaluation (`evaluation/answer_quality/`) | result files of a panel, a labelled dataset, a run directory | annotate, compare, review, lock, verify | `AnswerPanel`, `LabelReview`, `AnswerVerification` |
| Configuration, migrations, Dockerfiles, stubs, other scripts | files | | no, section 8 |

### How they interact

A question travels: page → `POST /ask` → session check (`app_users`,
`user_sessions`) → ownership of the conversation → runtime gate and Qdrant gate →
`RAGService.ask` on the event loop, its retrieval on the one-thread executor →
model provider over HTTP → `record_exchange` → page, which then reloads
transcript and list. The corpus travels: portal and gazette → snapshots → source
files → source release → canonical release → indexer → collection → alias; the
catalogue reads two files of the same release.

The parts share: the retrievers (gate and executor), the rows of the database
(requests on threads; the storing part of `/ask` and an upload on the event
loop), the Qdrant alias and collections (operators' scripts, the gate and the
search of the service), the files of a release (scripts and the catalogue), lock
directories (collectors), the cookies (tabs of a browser) and `localStorage`
(handlers of the page, across reloads).

### What is hard, and what correctness means

* **Gate**: a Java segmenter that is not thread-safe is reached from threads under
  the cache lock and from the executor, which does not take it. Correct: never two
  threads inside it; cold starts happen only under the lock; every request gets
  its answer.
* **Answer service**: failures at every await, retry, pauses, a total deadline,
  model text that may cite anything. Correct: one outcome; a grounded answer cites
  only what was retrieved for this question, and its text and its list agree; an
  outage is called an outage; nothing is begun after the deadline.
* **Ranking**: the alias may move between the two searches, and a bounded boost
  reorders scores that lie close together. Correct: one release in a context; a
  chunk loses its place only to one its document has more votes for.
* **Accounts**: transactions of several statements interleave under READ
  COMMITTED; unique e-mails, row locks and deadlocks. Correct: committed rows
  change as if requests ran one at a time; a revoked session stays revoked.
* **History**: a question waits for seconds between its check and its write while
  the conversation may go away. Correct: a saved report is true, deletions last,
  requests fail only for a reason, a rename is not undone.
* **Contract reviews**: one answer is put together from three statements without a
  snapshot; the cross-encoder may fail after a wider list was fetched for it.
  Correct: no torn report from an upload, no review missing from a list, a fallback
  that equals the review without the cross-encoder.
* **Release**: processes crash between any two requests to Qdrant, verification is
  by sample, decisions use counts read earlier. Correct: a collection never mixes
  corpora, the alias names only whole ones, reports of success hold.
* **Library**: the catalogue is read from two files that may be replaced one by one,
  and pages are answered late. Correct: what is shown answers what is asked now and
  agrees with the articles.
* **Pages**: several handlers in flight, each with the values of an old render, while
  another tab replaces the cookies. Correct: a shown answer is not lost, a handler's
  own write is visible after it, actions go to the account that is shown, no control
  stays disabled.
* **Corpus**: quotations inside quotations, repeated numbers, units that do not fit,
  list numbers that exist only when rendered, ambiguous headings. Correct: no text is
  lost, moved or guessed. And processes that die between two files. Correct: what
  has a final name or a checksum is whole and of one build.
* **Evaluation**: runs that are interrupted and continued over files that people
  edit. Correct: results that are compared, locked or sealed are of one dataset and
  one run.

`PROJECT.json` "hazards" lists these at their lines, including those without a
property.

## 2 The modules

| Abstract promise | Detailed modules | Model-checking module | Proofs |
|---|---|---|---|
| | `RuntimeGate` | `MCRuntimeGate` | `AnsweringProofs` |
| `AnswerPromise` | `AnswerService` | `MCAnswerService` | `AnsweringProofs` |
| `AccountLedger` | `AccountSessions` | `MCAccountSessions` | `AccountSessionsProofs` |
| `HistoryPromise` | `ConversationHistory`, `BrowserSession` | `MCHistoryAndBrowser` | `ConversationHistoryProofs`, `BrowserProofs` |
| `ReleasePromise` | `QdrantRelease`, `DocumentLibrary` | `MCQdrantRelease`, `MCReleaseServing` | `ReleaseServingProofs` |
| | `ConversationPage` | `MCConversationPage` | `BrowserProofs` |
| | `LegalParser`, `LegalChunker`, `VbplPortal`, `GazetteSources`, `WordDocument`, `CanonicalRelease` | `MCCorpus` | `CorpusProofs`, `LegalChunkerProofs` |
| | `ContractReviews`, `EvidenceSelection`, `HybridRanking`, `AnswerPanel`, `LabelReview`, `AnswerVerification` | `MCReviewsAndEvaluation` | `ReviewsAndEvaluationProofs` |

An abstract module says what a client may rely on, without requests, statements or
retries. The detailed module instantiates it with a refinement mapping
(`Promise`, `Ledger`, `History`) and a run checks its `Spec` as a property. The
mapping reads committed rows only, so that an uncommitted transaction stutters.

The last four MC modules put several machines that share no state into one run:
a behaviour exercises one of them, the others stay in one idle state, so that the
state space is the sum of theirs and not the product. The links between machines
are assumptions, each justified by another module:

* `ConversationHistory` takes the answer of `/ask` as one step (`Answered`) because
  `AnswerService` shows that it ends with one outcome; `AnswerService` takes
  retrieval as one await because `RuntimeGate` shows that it ends.
* `ConversationPage` takes each endpoint as one step on the server, which
  `ConversationHistory` justifies (`HistoryKept`); `BrowserSession` takes a session
  as alive or not, which `AccountSessions` justifies (`LoggedOutForGood`).
* `LegalChunker` takes units with ids as `LegalParser` makes them (`NothingLost`);
  `CanonicalRelease` abstracts from the inside of a chunk, which `LegalChunker` is
  about; `QdrantRelease` takes a corpus with a fingerprint as a constant, which is
  what `CanonicalRelease` seals (`SealedIsOneBuild`).
* `EvidenceSelection` is the draft that `ContractReviews` stores as data.

Operators named like *something*`TooEarly`, `NeverLost` or `MaxWorkersTwo`, with a
"Mutant" comment, are plausible bugs: each replaces one definition and makes one
property fail. They take no part in the specifications.

## 3 Each module and its code

### RuntimeGate

A thread is a request (an ask or a `/ready` call) or the executor's worker; `pc`
says where it is. `BeginProbe` … `StoreReport` are `evaluate_cached_runtime_gate`
with `_CACHE_LOCK` held: `now` is read first, the report expires at `now` plus its
lifetime. `ProvideSparse`, `BuildSparse`, `AnalyseQuery`, `SegmentQuery`,
`CallDense` and `LoadDenseModel` are one retriever call, made by a probe under the
lock or by the worker without it, through the same caches (`sparse`, `analysed`,
`denseModel`). `building` and `segmenting` are the steps inside the Java
segmenter. `AuthoriseAsk` takes the verdict of the release and Qdrant gates as an
arbitrary boolean. Contract review uses a lexical index without the segmenter, so
it does not interfere.

* `SegmenterExclusive` (proved): no two threads are in the segmenter at once, though
  the executor does not take the lock.
* `OnlyProbesWarmUp` (proved): the executor's worker never builds the index or loads
  the model, and neither happens a second time.
* `EveryRequestAnswered`: no request waits for ever.

### AnswerService

One call of `RAGService.ask`. `Retrieve` draws any list of hits, blank ones and
duplicates included, and keeps the first of each chunk (`FirstHits`), in the order
of the hits (`InRankOrder`); `BeginAttempt` gives a call its
timeout; `ReplyArrives` takes any status, any declared and any inline ids, and
passes them through the guardrail (`Rejection`); `ProviderFails` raises any reason
the chain has, `CallRaises` the one error of it that nobody handles (a choice that is
no object); `WorthRetrying`, `Pause` and `WakeUp` are the retry; `Respond` is
the tail of the function. Time is spent in the awaits only.

Points a reader of the code will ask about: the timeout does not bound a call. `httpx`
applies it to connecting, sending, waiting for a connection and each gap of the reply
(`generation_chain.py:255-271`), so a completion or a failure may come at any time,
and only a timeout is known to have taken as long; the event loop may wake a paused
request late. The first call is *not* cut to the deadline, as in the code; a reply the guardrail rejects leaves no attempt record, so `attempt` of the
response may undercount; the token limit and prompt suffix of a retry after a
truncated reply are data; the `TypeError` fallback is only for generators of tests.

* `GroundedTextMatchesSources` (proved): a grounded text says `[Sn]` for exactly the ids it
  declares, each of which was retrieved, no two for the same chunk.
* `OutageReported` (proved): `generation_failed` holds exactly when the last attempt ended in
  a provider error or the deadline.
* `RetryPlannedWithinDeadline` (action property, proved): no call and no pause begins
  after the total deadline, and an ask that retries runs past it only by a wait that
  outlasts what the code asked for (a late wake-up, a reply in slow pieces). That it
  *ends* by the deadline is not so (section 7).
* `PromiseKept`: refinement of `AnswerPromise` (its safety proved), including that an
  outcome comes.

### HybridRanking

One question: `SearchSparse`, `Embed`, `SearchDense` (which first compares the
fingerprints of the collection behind the alias), `DenseFails`, `Fuse`,
`SelectContext`; `Activate` moves the alias at any moment before the dense search,
the last to read it. A ranking is the function from the chunks it holds to their
places 1, 2, …; `FusedPlace` and `SelectedPlace` count what precedes a chunk in the
order the code sorts by. Fused scores are compared as fractions over one denominator
(`Scale`, a common multiple of all rank denominators), where the code adds floating
point numbers: they agree unless two scores differ by less than a rounding error.

* `OvertakenByConsensus` (proved): the boost of a document that has more of the first fused
  ranks is the only way a chunk loses its place, and the preserved places are safe.
* `OneRelease` (proved): no context holds a chunk the configured release does not have.

### AccountSessions

Each request is one transaction, an action per statement: `RegisterLookup` or
`LoginLookup`, `LockClient` (`SELECT … FOR UPDATE` of the row of `X-Client-Id`),
`Write` (flush, with the wait for a unique e-mail), `Commit`, `Refresh` (after the
commit: a failure answers 503 though the account exists). `Authenticate`, `Touch`
and `Revoke` are the session requests. `Blocks` is the locking of PostgreSQL:
`FOR UPDATE`, the key-share lock a foreign key check takes, the unique index;
`AbortDeadlocked` is its deadlock detector, which two logins that cross do meet.
With `RowLocks = FALSE` the same code runs on SQLite, which drops `FOR UPDATE`.
A password check is a free choice; an expired session is a free 401; CSRF and 403
count as `unauthorized`.

* `LoggedOutForGood` (proved): the touch of a session, which writes a row read before a
  concurrent logout, does not bring it back.
* `LedgerKept` (proved): refinement of `AccountLedger`. `EveryRequestEnds`: no request hangs.

### ConversationHistory

`/ask` is a coroutine: after the model's answer its statements run on the event
loop without an await, so one exchange is stored at a time (`LoopFree`; the
Dockerfile starts one process), while all other handlers run on threads and
interleave at every statement. `AskArrives`, `Answered`, `Recheck`, `Record`,
`RefreshExchange` are the storing part of `/ask`; `DeleteConversation`,
`Rename`, `CreateConversation`, `LoadConversation` the conversation endpoints, with
`ConversationDetail` the reading back of POST and PATCH after their commit, which a
deletion may precede (`NoDetail`: 500 for a POST, which catches no
`ConversationNotFoundError`, 404 for a PATCH); `PutArrives` … `PutUpdate` the upsert of a bookmark with
its recovery from a duplicate row; `ListArrives`, `ListMessages`,
`ListConversations` the separate reads of `GET /bookmarks`. Flush and commit are
one step because the flush directly precedes the commit and other writers of the
row wait. Deleting a row that is gone is only a warning of the ORM (204); updating
one raises (503, or "unsaved"). `Fail` is a failing statement anywhere. Ids of
other users behave like ids of no row, since every query filters by user.

* `SavedMeansStored` (proved): `history_saved` is the truth unless the conversation was
  deleted. `RenameStands` (proved): no ask writes back a title it loaded earlier.
* `FailuresHaveACause` (proved): without a database failure, an error status means that
  something was deleted while the request ran; any number of PUTs of one bookmark
  succeed.
* `HistoryKept` (proved): refinement of `HistoryPromise`: whole exchanges, cascading and final
  deletions, at most one bookmark for each answer.

### ContractReviews and EvidenceSelection

`ContractReviews` has one action per statement of the four routes. A POST is a
coroutine without an await after the upload is read, so one runs at a time; it
commits a review with its findings and sources and reads it back in three SELECTs,
in which a deletion may come between. `ReadAgain` is the second look at the owner
that turns a vanished review into an error; `Count`, `ReadPage` and
`ReadPageFindings` are the list; `Lost` is a statement that fails, or a commit whose
reply is lost. `stored` is every review that was ever committed, in the order of
creation, and `gone` those deleted since, so that the rows there are are `Live`; a
page is the set of rows a list answers with (`IsPage`).
`EvidenceSelection` is `review_contract`: `Retrieve`, then `Rerank` or
`ScorerFails`, `Analyse` with the severity rules of each category, `NextCategory`.

* `AnswersHold` (proved): a 201 carries a whole report although the review can be deleted
  while it is read, and a list misses no review that nothing newer replaces.
* `FallbackKeepsOrder` (proved): when the cross-encoder fails after a wider list was fetched
  for it, the finding gets what it would have had without it (or the beginning of
  that).

### QdrantRelease

A job is a process: an indexer, a verifier, an activation or a readiness probe.
Every action is one request to Qdrant; `Stop` between any two stands for a crash,
a failed request or a lost reply. The indexer is `StartIndexer` (with or
without `--resume`), `CheckExists`, `ResumeCount`, `ResumeSample`, `Recheck`, `Create`,
`Upsert` for each batch, then `VerifySchema`, `VerifyCount`, `VerifyPoint`; the
activation `PhysicalNames` … `ConfirmAlias`, with the alias switch atomic as
Qdrant's batch of alias operations is; the gate `Probe`, `GateAlias`, `GateTotal`,
`GateVerdict`. A point is its id and the corpus fingerprint it carries.

* `ReportsHold` (proved): completed, verified and active are true of *all* points although
  verification looks at a count and three points, and they stay true.
* `ReadyMeansComplete` (proved): `ready` means the release's collection is complete.
* `ReleaseKept` (proved): refinement of `ReleasePromise`.

### DocumentLibrary

`ReadChunks` and `ReadArticles` build the catalogue from its two files, which
`ReplaceFile` may change in between; two first requests may build at once (Python's
`lru_cache` does not serialise them), and the last to finish stays cached until
`Restart`. `Consistent` is the check of the builder. `ListDocuments`,
`ListDocumentArticles`, `GetDocument`, `GetArticle` are the routes; a sort of the code
is `Sorted` by `ByKeys`, a filter `Picked`. Codes and types are numbers in the order of
their texts. A pane of a page
has an effect that asks again when what it depends on changes; `Render` starts and
aborts requests as React does, `Settle` is what a reply does.

* `ShownIsAsked` (proved): what a pane shows answers its present filter and page
  (`ShownIsReply`) and is what the articles file of its catalogue says
  (`ShownIsPromised`: right page, right count, no passage of another document),
  whatever is replaced, built twice or restarted.

### ConversationPage

A click starts a handler, which keeps the values of its render (`closure`) and
continues each time one of its requests settles (`Serve`, then `Resume`). `Serve`
is the server; any request may fail before or after its effect. `ComeBack`
(another page of the application and back) and `SignInAgain` (a logout, or a 401 to
any request, and the next sign-in; both are `Remount`) leave the old handlers running
without effect on the page; `ReloadDocument` ends them. `LoadList` and `LoadDetail` are the
effect that loads the history of a new page. `Busy` and the other conditions are
the `disabled` attributes of the buttons.

* `AnswerStays` (proved): a shown answer leaves only into its transcript, by a click,
  because a deletion in flight clears the page, or with the session.
* `PartedOnlyBy` (proved): only three named causes ever part the conversation shown, the
  active one and the stored id.
* `BusyEnds`: each busy flag that is set is cleared again.

### BrowserSession

One tab: `tab` is what its React state holds (user, CSRF token, page, login dialog),
`jar` the cookies of the browser, which the tab shares with others (`OtherTab`), and
`call` its requests with what their handlers remember. A click starts a call
(`Submit`, `Logout`, `LoadReviews`, `Upload`, …), `ServeWrite`, `ServeRead` and
`ServeLogin` answer in any order, and `Restored`, `Authenticated`, `SignedOut` and
`Shown` are what the replies do. A page is mounted anew for each user; what a
handler of a left page sets is ignored.

* `ActsAsShown` (proved): nothing is done to another account than the one shown at the
  click, even when another tab has replaced the cookies; and the page shows only
  its user's reviews unless the cookies were replaced behind the tab's back.

### LegalParser and LegalChunker

`LegalParser` reads a document as a growing sequence of tags (`ReadStructure`,
`ReadArticle`, `ReadInArticle`, `ReadAppendix`, `ReadInAppendix`, `ReadOutside`),
keeping the outline, the articles with their units, the stack of clauses that
quotations interrupt (`OpenQuote`, `CloseQuote`) and the attachments; `Relate` and
`Validate` end it. The code walks the document twice; the model makes both steps
of a tag at once because neither walk uses the other's result. A text is the place
of its tag, and a link is the place of its citation and its number in it: an article
has a set of them, `preface` gives the chapter or section of each one outside the
articles, and `Relate` counts for every pair of source and target how often a link
says it, as the code's dictionary of relations with its `mentions` does.

`LegalChunker` groups units (`ReadUnit`), collects them into drafts that fit
(`StartArticle`, `ChunkGroup`, `ChunkOrphans`), splits what does not fit into items
and cuts (`SplitDraft`, `ChunkTables`), then numbers and validates the chunks
(`Finish`, `ValidateChunks`, whose checks are the named conjuncts `KeysDistinct`,
`BodiesFilled`, `WithinBudget`, `NamedUnits`, `NothingMissing` and `TableKept`). A
word is `<<unit, position>>`, so that a chunk that loses, repeats or moves a word is
seen; every word counts as one token. All the ways of cutting a list (the points of a
clause with their continuations, a point at its subpoints, a long text at its
boundaries, rows up to the budget) are one operator, `Pieces`, and `Greedy` is the one
that goes on as long as the next member still fits.

* `NothingLost` (proved): all text after the heading of an article is kept exactly
  once, ids are unique, the relations mention every link.
* `QuotesRestored` (proved): text after a quotation belongs to the clause before it,
  however deep quotations nest.
* `TextKept` (proved): the chunks of every draft say all of every unit they say anything of,
  in order; every unit but a clause, and every row of a table, is said.

### VbplPortal and GazetteSources

`VbplPortal` is the batch collector, two processes of it: `Skip` (resume),
`InspectLock`, `BreakLock` and `TakeLock` (a lock directory judged by its age),
`Fetch` (gateway, browser, attachments, gates), `Compare` (unchanged?), `WriteFiles`,
`WriteManifest`, `Publish` (verify and rename); `Interrupt` and `Kill` come between
any two. `GazetteSources` is the policy run over the gazette with the portal as the
fallback: `EnterDocument`, `ReadGazette`, `PlacePart` for every part,
`FinishDocument`; `KillRunner` anywhere.

* `PublishedIsWhole` (proved): a directory with a final name is a whole snapshot, whatever two
  processes do to each other's locks.
* `ReportNamesItsSnapshot` (proved): what a report calls created, unchanged or skipped is on
  disk and was taken for the contract of that run.
* `SuccessMeansInPlace` (action property, proved): when a run has a document from the
  gazette, every one of its part files is in place at that moment.

### WordDocument and CanonicalRelease

`WordDocument` reads paragraphs (`ReadParagraph`) with the counters of Word's lists,
up to the first whose numbering cannot be resolved: a document with such a paragraph
has no displayed lines (`Renderable`) and is read without them. Then it locates the
main articles. The builder (`BuildArticles`) takes the stored lines, whatever the
numbering; the audit (`ExtractArticles`) the displayed ones (`Located`), or else the
stored ones, or else the titles of the portal's corpus, if that has one for every main
article (`UniqueChain`; `titled` are the articles whose titles it was given). Both cut
what follows "/." and an office (`IsSignedAt`) from every article
(`BeforeInlineTail`). A line keeps the place of its paragraph, and one
without text is of kind "empty" and skipped where the code has filtered it out before.
`FoundBy` is the loop that locates headings, by the number found after each line;
`Ways` counts the increasing chains of titles (up to two, "more than one") and
`WalkBack` follows the only one, as the two loops of the audit do.
`CanonicalRelease` builds source releases
(`ExtractDocx` … `PublishSource`, while `ReplaceDocx` changes the file), completes
one into the canonical directory, an action for each file written (`BeginCompletion`,
`WriteArticles`, `WriteChunks`, `BindAudit`, `WriteReview`, `RebaseGolden`,
`WriteGates`, `WriteSums`), checks and seals it (`CheckGolden`, `Preflight`,
`WriteReadiness`, `Seal`, `VerifySeal`), and audits token lengths beside it
(`AuditSource`, `LoadChunks`, `HashChunks`, `WriteAudit`: the file is read, then
hashed, then measured). A process may die between two steps. The articles of a
release and the units of an article are sets here: their order, which the rest of the
pipeline takes from the file, is the one thing about them that the model leaves out. The three places that
judge a length draw the line differently: the binding of the completion refuses a
text that is too long, the builder (`PublishSource`) and the indexer's dry run
(`IndexerAccepts`) also one that is near the limit.

* `LabelsAsCounted` (proved): the incremental counters agree with the document as a whole.
* `EveryLineHasAPlace` (proved): each line between the first heading and the tail is a
  heading or in exactly one article, or stands in its article behind a chapter's heading
  or behind what is taken for a signature (section 7); and no article but the last hides
  a heading that belongs to the sequence.
* `OneReadingOnly` (proved): titles locate the articles exactly when there is one reading
  (against the reference: all increasing choices of lines), also where the numbering
  could not be rendered and titles are all that is left.
* `SealedIsOneBuild` (proved): a release that agrees with its checksums is of one
  build: its articles are those of the source it names after the decisions it records,
  without any provision that was decided to be without effect (`SealedAsDecided`), and
  its chunks carry exactly the text of these articles (`SealedTextIsWhole`).
* `AuditCoversRelease` (proved): the audit a sealed release names hashed the chunks of
  that release, and no chunk of it is too long, unless the file was rewritten between
  the two reads of the audit (section 7).

### AnswerPanel, LabelReview and AnswerVerification

`AnswerPanel` is the annotation by several models: `LoadDataset` and `StartPanel` are
its two reads of the dataset file, for the questions and for the digest, between which
the file may be edited (`StartPanel` with or without `--resume`, compared with the
manifest if there is one); then `Record`, `AbortOnUsage`, `Interrupt`,
`RefuseRecords`, `WriteConsensus`, `WriteManifest`. `LabelReview` is the chain of
programs from the panel's labels to the golden set. Each of the first three is two
actions: `StartAdjudication`, `StartPacket`, `StartReview` read the inputs and compare
the digest of the corpus, `ApplyAdjudication`, `CreatePacket`, `ApplyReview` read the
corpus again and write; `GiveUp` is any refusal or interruption between them, and
`Lock` is one step because it reads each file once. People replace or rewrite every
file at any time (`ReplaceCorpus`, `RewriteReviewed`, `FillForm`, `RewriteGolden`), also
between the two reads. `AnswerVerification` is
a run over a service into a directory that may hold an earlier run: `Probe`, `Ask`,
`WriteReport`, `WritePage`, `WriteStatus`, `WriteSeal`; `Break` anywhere.

* `PanelOfOneDataset` (proved): what a consensus compares was made from the dataset of the
  manifest; COMPLETED means every model labelled every case. Two ways around the digest
  are excepted by name: a run continued before the first manifest (finding 4), and the
  labels of a file edited between its two reads (`Torn`).
* `LockedMeansDecided` (proved): a locked case cites only what it lists and has claims
  where an answer is expected; and if the set came out of the review, its claims are
  those written in the form, or else those the form showed, each supported by the
  corpus. What the programs cannot notice is excepted for the part of the statement it
  breaks only: a form that showed other claims than the dataset has (`stale`), a corpus
  replaced between its digest and its content (`torn`), a set rewritten by hand before
  the lock (`byHand`).
* `SealedIsOneRun` (proved): a directory whose manifest is intact holds one run.

## 4 Runs and bounds

| Run | States | What it shows |
|---|---|---|
| `runtime_gate` | 75,826 | two asks and a `/ready` call through gate, lock, probe and executor |
| `answer_service` | 41,955 | one ask against every hit list, reply, failure and duration |
| `account_sessions` | 106,488 | any two requests on PostgreSQL, from every small database |
| `account_sessions_sqlite` | violation | finding 1 |
| `history_and_browser` | 873,217 | any three requests of one user; a tab with three requests and two sessions |
| `release_serving` | 300,603 | any two processes at a time on Qdrant, without end, at most one indexer; library pages over files that are replaced |
| `qdrant_fresh_race` | violation | finding 2 |
| `conversation_page` | 34,301 | any two clicks with all their handlers and the initial load, liveness included |
| `corpus` | 651,407 | parser, chunker, both collectors, Word documents and releases |
| `chunker_context` | violation | finding 3 |
| `reviews_and_evaluation` | 977,111 | contract reviews, drafts, ranking, panel, label review, verification |
| `panel_continued` | violation | finding 4 |

**Bounds, and why they are enough.**

* *Gate*: `MaxClock = 3` with lifetimes 2 and 1 lets reports of both kinds expire and
  a probe outlast its own report; two queries let the analysis cache hit and miss.
* *Answer*: `Durations` are in a scaled unit (deadline 40, timeout 30): two failed
  calls fit before the deadline, or one, or none, a retrieval may use all the time
  up, and any call, with or without a reply, and any wake-up may come before its limit,
  after it or after the deadline; `MaxHits = 2` is the least for two sources to
  be confused, and `SourceIds` has one id more than any context.
* *Accounts*: two clients, two e-mails and two requests produce every race and the
  crossing deadlock, since a request touches at most two users; initial states
  enumerate every role of the users.
* *History*: three requests are the least for a bookmark that is inserted twice while
  a third request removes it. *Tab*: `MaxCalls = 3` includes the `/auth/me` of the
  start, so that a login and one more request overlap it; `MaxSessions = 2` is the
  least for cookies to be replaced.
* *Qdrant*: two corpora of four chunks that differ in one id *not* among the sampled
  ones, batches of two and a resume sample of one (ten in the code; a smaller sample
  can only miss more) let a mixed collection pass every check that could be fooled;
  two job slots are reused for ever. *Library*: four file versions (old, new, cut
  short, no JSON); page sizes 12 and 20 scaled to 1, so that there is a second page.
* *Page*: two clicks let two handlers overlap with the initial load and with a page
  that is left.
* *Parser*: documents of five to six tags over three alphabets, enough for a
  quotation in a quotation with text after both, an article without an anchor
  between two with one, and two appendixes of one decree. *Chunker*: three or four
  units of 2, 5, 8 or 11 words with `MaxTokens = 11` and `TargetTokens = 8`, so
  that units fit, fit alone, must be cut, or cannot be cut at a boundary; tables of
  up to four rows around both limits.
* *Portal*: two processes, one document, one death, and a clock that makes a lock
  stale at once. *Gazette*: two runners, two documents of up to two parts, three
  runs. *Word*: documents of three to seven paragraphs, three articles wanted; some with
  a paragraph whose numbering cannot be resolved, first or in the middle, some with a
  signature, on one line or two, in an article before the last.
* *Releases*: one source release (with the file replaced at any step), two
  completions with rulings that differ, two audits: the least for a half-written
  second build over a sealed first one, and for an audit of chunks that are gone.
  Of the texts a ruling may bring in, one is too long (`LongTexts`) and one near the
  limit (`NearTexts`), so that each of the three limits refuses something.
* *Reviews and ranking*: three requests of two users, a page of one; five chunks of
  two documents, four of them of the configured release, candidates four, context
  three, weights 1 to 9 as in the code (0.1 and 0.9).
* *Labels*: a case that expects an answer and one that does not; labels without claims,
  with supported ones, with ones that only the other corpus supports, and with ones
  outside the case's evidence.
* *Evaluation*: two runs in one directory; `MinModels` is 2 instead of 3 and
  `BreakAfter` 2 instead of 3, which only shortens the way to the same branches.

Symmetry is used only in runs of safety properties, over requests, users, accounts
and jobs, which start out alike.

**Deadlock** is checked for `release_serving`, where nothing may end. The other runs
end when their requests, clicks, documents or clock are used up, which is a real
end; that nothing ends too early is what the liveness properties and the refinement
of a fair `AnswerPromise` say.

**Fairness.** `RuntimeGate`: weak fairness of each thread, which the operating
system gives and every external call has a timeout or terminates; the clock need
not advance. The lock itself need not be fair, as each request probes at most once.
`AnswerService`: every await ends: a provider's reply is finite, and `httpx` bounds
each gap in it, though not the whole. `AccountSessions`: a request that has arrived
goes on (`Proceed`), blocked ones when they are no longer blocked; arrivals and
failures are not fair. `ConversationPage`: a fetch settles and its continuation
runs; the user is not fair. All other modules claim no liveness and have no
fairness.

**Mutants.** Every property of every passing run has one in `PROJECT.json`: a
plausible bug in one mapped definition under which that run fails.

## 5 Where the code and its documentation disagree

1. `OnlyAnonymousDataMoves` (`repositories/auth.py:242`, SQLite only): a login that
   races with a registration from the same client id moves the history of the new
   account to another account and deletes it. PostgreSQL's row lock prevents it.
2. `FreshRunsAreAlone` (`ingestion/index_qdrant.py:567`): the second existence check
   only decides whether to create; two indexers started together both write into
   the collection one of them created. The scripts run indexers one after another,
   which the passing run assumes (`OneIndexer`).
3. `ContextIsExact` (`ingestion/legal_chunker.py:1784`): the repeated clause in front of
   a split group of points is cut at its first colon or sentence end, but counts as
   covered in full; the rest of the clause is in no chunk, and neither the coverage
   check nor `validate_chunks` notices. `TextKept` therefore excepts clauses.
4. `ContinuedWithSameDataset` (`evaluation/answer_quality/panel.py:202`): a panel that is
   interrupted before its first manifest can be continued over another dataset.
   `PanelOfOneDataset` excepts this, and the labels of a file that was edited between its
   two reads (section 7).

## 6 Proofs

TLC checks a small instance; the theorems below hold for every value of the constants
that the named assumptions of the modules admit. These assumptions say what the code's
types and configuration give (times are naturals, ids are distinct, `None` (`Nil` in
the gate) is none of the values it is compared with, the registry of a policy run is
not empty because `load_policy` refuses an empty one, a page has finitely many links,
a document has at least one article to be located, levels and starts of a list are
read as integers, a unit has text, the token limits are positive, the sections of a
source release carry the identity of their article), and TLC evaluates each of them in
a run. Two proofs have one more hypothesis, which is a condition of operation and is
stated in the theorem: `OneIndexer` (operators run one indexer at a time; without it
finding 2) and `RowLocks` (the database honours `FOR UPDATE`; without it, on SQLite,
finding 1).

No property of the table is inductive. Each proof strengthens it to an invariant
(`IInv`, or, where a module proves about several machines, one named for the machine:
`PageInv`, `LibraryInv`, `GazetteInv`, `ReleaseInv`, `ReviewsInv`, `RankingInv`,
`LabelInv`, `PanelInv`, `VerifyInv`, `EvidenceInv`, `WordInv`, `ParserInv`,
`ChunkerInv`, `GateInv`; the theorems named *…*`Invariance` say that they hold) that
says what each process *knows* at each of its steps, and then has one lemma for each
action, which every other process's knowledge must survive.

| Module | Theorems | Establishes |
|---|---|---|
| `AnsweringProofs` | `GateTypeCorrect`, `MutualExclusion`, `WorkersStayWarm`, `TypeCorrect`, `GroundedIsSourced`, `OutagesAreReported`, `RetriesPlannedWithinDeadline`, `AskKeepsPromise` | `GateTypeOK`, `SegmenterExclusive`, `OnlyProbesWarmUp`, `TypeOK`, `GroundedTextMatchesSources`, `OutageReported`, `RetryPlannedWithinDeadline`, `Promise!Safety` |
| `AccountSessionsProofs` | `TypeCorrect`, `LogoutIsFinal`, `AnonymousDataOnly`, `LedgerRefinement` | `TypeOK`, `LoggedOutForGood`, `OnlyAnonymousDataMoves`, `LedgerKept` |
| `ConversationHistoryProofs` | `TypeCorrect`, `SavedIsStored`, `TitlesStand`, `FailuresExplained`, `HistoryRefinement` | `TypeOK`, `SavedMeansStored`, `RenameStands`, `FailuresHaveACause`, `HistoryKept` |
| `BrowserProofs` | `ActionsFollowTheTab`, `AnswersStayShown`, `OnlyThreePart` | `ActsAsShown`, `AnswerStays`, `PartedOnlyBy` |
| `ReleaseServingProofs` | `TypeCorrect`, `ReportsStayTrue`, `ReadyIsComplete`, `ReleaseRefinement`, `PagesShowWhatIsAsked` | `TypeOK`, `ReportsHold`, `ReadyMeansComplete`, `ReleaseKept`, `ShownIsAsked` |
| `CorpusProofs` | `SnapshotsAreWhole`, `ReportsNameSnapshots`, `SuccessesAreInPlace`, `ReleasesFitTheModel`, `SealedBelongsTogether`, `LabelsFollowTheDocument`, `LinesHaveTheirPlace`, `TitlesHaveOneReading`, `NothingIsLost`, `QuotesAreRestored` | `PublishedIsWhole`, `ReportNamesItsSnapshot`, `SuccessMeansInPlace`, `AuditCoversRelease`, `SealedIsOneBuild`, `LabelsAsCounted`, `EveryLineHasAPlace`, `OneReadingOnly`, `NothingLost`, `QuotesRestored` |
| `LegalChunkerProofs` | `ChunksKeepTheText` | `TextKept` |
| `ReviewsAndEvaluationProofs` | `ReviewsTyped`, `AnswersStayTrue`, `ContextOfOneRelease`, `OvertakenOnlyByConsensus`, `FallbackFollowsLexicalOrder`, `LockedLabelsAreDecided`, `PanelsCompareOneDataset`, `SealsAreOfOneRun` | `TypeOK`, `AnswersHold`, `OneRelease`, `OvertakenByConsensus`, `FallbackKeepsOrder`, `LockedMeansDecided`, `PanelOfOneDataset`, `SealedIsOneRun` |

### The arguments

**Gate.** `SegmenterExclusive` does not say why a probe and the worker stay apart. Two
probes do because the thread inside a probe holds the lock (`LockHeldByProbe`), but
the worker takes no lock. It stays apart because of what a ready report means
(`ReadyMeansWarm`): a job reaches the queue only after some probe has succeeded,
hence after the index was built, the smoke query analysed and the model loaded;
these caches never shrink, so from then on no probe finds anything to build or to
segment. `ProbeProgress` carries this through a probe, `CallProgress` says what each
step of a retriever call knows of the caches, `WorkerShape` and `JobsAwaited` that
the worker runs exactly the job of an ask that waits for it. There is one worker, as
the code sets `max_workers=1`.

**Answer service.** Each property speaks of the end of a request and holds because of
something an earlier step established and the rest leaves alone: a reply is kept
only when the guardrail accepted it (`AcceptedReply`), the loop ends without a reply
only with the reason of its last attempt (`ReasonOfReply`), a call and a
pause are entered only while there is time, and a retry is given what is left
(`TimeLeft`, from which `RetryPlannedWithinDeadline` follows step by step), and the numbered sources are distinct chunks
(`SourcesDistinct`, from the lemma `SanitizedSources`). `StepsRefine` maps every step
to one of `AnswerPromise` or a stutter.

**Accounts.** What a transaction read when it took its lock is still so when it
commits (`Sound`), because two transactions never hold the same row and never claim
the same e-mail (`Exclusive`). Sessions belong to accounts (`SessionsOfAccounts`) and
only rows without an e-mail are merged away, so that a session a logout knows is
never deleted or handed out again.

**History.** No request locks what it has read. Every belief of a request is true or
overtaken by a deletion that `removals` has counted since it arrived (`Sound`,
`Overtaken`); `RowsMove` says what a step of one request may do to the rows, and
`OthersStaySound` that each belief of the others survives exactly that. A saved
exchange, a title and the reason of a failure are such beliefs.

**Tab.** Every request on its way carries the session, token and user of the moment it
was made, all of one account (`Sound`); a reply the page still waits for is of the
account the tab shows (`OfThisPage`), because a page is mounted anew for each user.
Sessions are only added (`Grown`), so nothing a request carries changes its meaning.

**Page.** Handlers of the same page overlap, each with the values of an old render. What
keeps them apart is that nobody knows the id of a conversation before it exists
(`OnlyKnown`), so that a new conversation is none that an older handler may clear or
open; that the conversation of a saved answer holds it as long as it exists
(`Placed`), so that the transcript the page reloads contains the answer it replaces;
and that at most one mounted handler is asking (`AsksDiffer`, because a button is
disabled while `loading`), which keeps the transient answer until it has done so
(`AsksShown`). `AnswerStays` and `PartedOnlyBy` are action properties: each is proved
from `PageInv` for every handler and every point at which it goes on.

**Qdrant release.** A verification of a count and three points says something of a whole
collection only because a collection never mixes corpora (`Unmixed`), and it never
does because of what an indexer knows before its first upsert: the collection is
new, or its sample was of the same corpus (`Founded`).

**Library.** Any reply of the page's own request is welcome and any other is not, so the
invariant is about requests: one that was not aborted asks for what its pane asks now
(`FetchSound`), because an effect that asks anew aborts what it had asked. That holds
whatever files the server reads meanwhile. What the reply says is then compared with the
articles file alone. Its pages are defined without a list (`PageOf`: the member with
k − 1 others before it), the code's are cut out of a sorted one; they agree because a
finite set in a strict order has an ascending list, each member of it at its rank
(`SortedLists`, `RankOfPlace`), so that no two pages share a document and none is left
out. A list of codes is a list of entries, and a filter keeps the order (`FoundListed`),
because in a catalogue that loads each code has one entry; its chunks are all of the
entry's document because `Consistent` compares every one of them, not only the codes.

**Portal.** The proof never uses the lock, which two processes may hold at once
(`BreakLock`). A snapshot is whole because its process alone fills it, under a name
of its own (`WrittenSoFar`), and because it takes its final name in one step that
verifies it; a published one is never touched again.

**Gazette.** Here the lock is what the proof rests on: from reading the gazette to the
last part, a runner holds the document's lock (`RunnerHolds`), so that no other
touches its files (`OthersHold`) and the parts it has placed are still there when it
places the next one, although the snapshot may be found instead of taken and a part
may be in place already. The model never takes a lock from a living runner, which
section 8 says.

**Canonical release.** While a build overwrites the files of an earlier one, the
directory agrees with nothing. But checksums are only ever taken of a directory that
did agree (`ClaimsHold` of `sums`), and a build that has come to one of its steps has
replaced all files before it (`StepHolds`); whether the two are equal is then the
code's own test. That the chunks carry all the text of the articles is `Whole`, kept by
every step that writes one of the two because `ChunksFor` makes anew what a ruling
touched and copies the rest from a source whose two files agree (`SourcesAreWhole`),
and because the id of a unit names its article (`ReleaseAssumption`), so that no unit
belongs to two. For the audit, a binding that says *verified* is to a summary of the
chunks beside it whose measured texts were short enough (`Binds`); that this says
something of the chunks themselves needs what was read to be what was hashed.

**Word.** The counters of a list are those of the whole prefix that was read
(`AsCounted`): a paragraph that clears a level empties the stretch since its last
clearing, one that counts adds itself to it (`ClearedAt`, `CountIn`), so a number is
its start plus a cardinality. Headings are located by a recursive function, of which
the provers know nothing but its equation, and that only once one exists:
`RecursionExists` constructs it from its own initial segments, and what it computes is
then found with the least number at which it would fail (`LeastNumber`), since
induction needs an operator. None of this asks how the lines came about, so it holds of
stored and of displayed ones, whether or not the numbering could be rendered. So each
number found has one first place, places increase
and bodies lie between them (`Owner`, `HidesNone`); what an inline signature cuts off
one of them lies behind its first such line. The count of readings is right
although it is capped: `Ending` is the set of increasing choices of lines that end at a
given one, and *none, one or more* of it is decided by the same of its predecessors
(`RightCount`; two different chains can be extended, or spliced with `Splice`, to two
whole ones), so that the chain walked back is the one reading or there is none.

**Parser.** `ParserInv` says of the tags read so far what the property says of the whole
document. `Contained` is where the next tag goes, `ArticleHolds` that an article has
the blocks, units and citations of its own tags, once each, and `QuotesHeld` that the
stack is as deep as the quotations that are open, with the clause outside all of them
at its bottom (`Bottom`): a step that opens or closes one moves both sides.
`IdsOk` counts the units of one base, which makes the occurrence suffix unique.
`OutlineHolds` and `PrefaceHolds` are the same for chapters, sections and the citations
under them, `RelationsHold` adds the links up. What was true of a tag stays true when
another is read (`Grows`), since nothing looks ahead.

**Chunker.** Every way of cutting gives pieces that make up the list again
(`PiecesJoin`, for any places, hence `GreedyJoins` for any budget): by the equation of
the recursive function, up to the least number at which it would fail. Joining lists of
lists inside or outside first is the same (`FlattenFlatten`), so what a draft says is
what its items say (`ItemsSay`), what its segments say (`SegmentsSay`) and what its rows
say (`TableSaid`), whatever was cut where. It remains that a unit is in the lists at
all. `ListsHold` says that each list, and each draft with its lead, names a unit at most
once, hence says it once (`KeptOnce`); `ReadingHolds` that every unit read is in one of
the lists, `DraftingHolds` that it is in a draft or in a list still to be drafted.
`ChunksHold` then counts the drafts off: those before `at` are said by the chunks, the
others not at all. A clause is excepted because the segments of its points may leave
it out (`Skipped`), which is finding 3.

**Drafts of contract findings.** Where the cross-encoder fails, the finding takes the
first places of a longer list, fetched for it, and the property is that these are the
first places without it: the n-th of a head is the n-th of the whole. That a best
passage exists at all is the least-number argument, taken from the well-foundedness of
inclusion of finite sets because induction over naturals needs an operator.

**Contract reviews.** Reviews are only added and only marked as gone (`Grown`), so a
part that a read misses means a deletion (`Reading`); an upload is not answered
unless its second lookup still finds the row, hence nothing was missed before. A
page that leaves out a row is full, by a count of finite sets (`PageIsFull`), and
what was newer stays newer (`Listed`).

**Ranking.** The fingerprint check makes both rankings of the configured release
whatever the alias does. That `d` overtakes `c` means that fewer chunks precede it;
the orders are transitive, so `c` does not precede `d` in the selection although it
does in the pool (`SelectionFollowsScores`, `PoolFollowsScores`), and a product that
is larger without a larger fused score needs a larger boost (`BoostDecides`), which
only more votes give.

**Evaluation.** A program that runs knows what it has read whatever happens to the files
since (`RunningSound`), so a golden set satisfies everything of `LockedMeansDecided` but
the claims of an answerable case from the moment it is written, by the review or by hand
(`GoldenSound`), and `Lock` adds those. A panel that runs asks under the digest its
manifest names (`PanelAsks`), all records have one digest (`OneDigest`), and a record
that is not `Torn` is of the dataset with its digest. A run of
the verification writes its own results before it names them (`AskSound`,
`WriteSound`), a manifest that is intact still names what it sealed (`SealSound`),
and a streak of failures ends the run before it is too long (`StreakGrows`).

### What is only model-checked

* Liveness: `EveryRequestAnswered`, `EveryRequestEnds`, `BusyEnds`, the fairness in
  `PromiseKept`. The prover has no rules for fairness and `ENABLED` that would reach
  them.

Every invariant and every action property that a run checks is stated by a theorem of
the table; the refinements are proved as far as safety goes (`Promise!Safety` of the
answer service).

## 7 Behaviours worth knowing

The models have these behaviours because the code has them; no property excludes
them, and no line of the repository promises otherwise.

* Gate: a probe that takes as long as the lifetime stores a report that is already
  expired, so the requests that waited for it probe again.
* Answer service: a provider that keeps sending a little, or a busy event loop that wakes a
  request late, makes an ask outlast its total deadline of 120 s without limit
  (`generation_chain.py:255-271`: the timeout bounds each gap); a completion whose
  choice is no object is a 500 (`generation_chain.py:117`).
* History: a POST that creates a conversation answers 500 if the row is deleted before it
  is read back. When a refresh after the commit fails, an exchange is reported as not
  saved that is stored. Contract reviews: a GET that overlaps a deletion may return a
  report without findings with status 200 (only the 201 of an upload is safe); a
  lost commit reply is answered 503 and a second upload stores the review twice.
* Page: a 401 to any request takes an answer away that has not been stored. A question asked while the history loads opens a conversation that the late
  list then deactivates (`App.tsx:541`).
* Tab: a late 401 of an earlier session signs a new session out; a late `/auth/me`
  overrides a newer login; a login does not revoke the session it replaces; a logout
  clears the cookies of whatever session is in the jar; a signed-out tab with live
  cookies is refused by `/ask` for want of a token; the dialog stays open when
  `/auth/me` signs the tab in.
* Library: two releases with the same map from articles to documents are not told
  apart when a file of each is read; concurrent first requests may be answered from
  different catalogues; a failed page cannot be retried with the same filter; a page
  number beyond the last, after a restart with a smaller release, hides the
  navigation.
* Parser: citations and notes inside an appendix become its text and no relation.
  Chunker: two chunks can get one key, which ends the build with an error; the
  validator refuses some complete chunkings; a continuation is attached to the group
  that is active.
* Collectors: the report of an interrupted batch says `completed`
  (`vbpl_portal.py:2300`). Word: all text after the first line that looks like a
  heading between articles is dropped; a quoted heading with the next number is taken
  for the main one; counters are kept per instance although Word shares them. A
  paragraph that ends in "/." before one that begins with the government or a minister
  is taken for the signature in *every* article and what follows it there is dropped,
  although the helper speaks of "the final legal paragraph"
  (`build_official_docx_release.py:387`). One paragraph whose numbering cannot be
  resolved makes the audit fall back to stored lines and titles for the whole document.
* Releases: `build_release` never sets `source_hashes_verified`, so the gate that the
  completion requires is opened outside the repository (`VerifyProvenance`); the
  negative preflight fails when no decision changes a chunk. The audit of token
  lengths reads the chunks and hashes their file afterwards; a completion that writes
  the file in between makes the summary vouch for chunks that were never measured,
  which `AuditCoversRelease` excepts.
* Panel: a dataset edited between its two reads (`panel.py:151-152`) is labelled under a
  digest it does not have, and the run can be continued with the other one.
* Label review: a form is bound to case ids, not to the claims it showed; the corpus is
  hashed and then read again (`apply_human_review.py:93-95`); the lock asks for
  statuses, a person's name and the schema only
  (`lock_human_adjudicated_dataset.py:53-87`), so that it locks a set rewritten by hand.
* Evaluation: models given in another order, without a manifest, yield duplicate
  pairs that are refused only after every call was paid; creating a packet again overwrites a filled form; the packet's
  `human-review.json` has a field that the reader refuses until it is removed;
  COMPLETED in `run-status.json` may belong to an earlier run.

## 8 What is not modelled

* **Formatting and text rules**: prompts, wording and labels of citations, the
  regular expressions over contract text, text extraction from PDF and DOCX files.
  Their outcomes are inputs. In the chunker: links of formulas, tables that are only
  text, punctuation, statistics; in Word: the number formats.
* **Configuration**, wiring of routers, migrations at start-up: no state after it.
* **The connection pool** (`db/database.py:31`) shared by asks and other requests:
  the pool's behaviour is SQLAlchemy's, and no line says what should hold when it is
  exhausted; it is listed as a hazard.
* **Official source registry** (`services/official_sources.py`): an unavailable
  registry is cached empty for the life of the process; citation labels and URLs.
* **Runtime asset preparation**: what an interrupted download leaves is up to a third
  party's downloader.
* **Other scripts**: retrieval benchmarks and evaluations (arithmetic over lists),
  audits that only read and report, the portal's sitemap cache, soak and doctor
  modes, the portal-wide coverage comparison, the heldout set, the governance
  registry.
* **Stubs**: graph retrieval, Neo4j and the workflow raise `NotImplementedError`.
* **Deployment**: build files, used as the reason for assumptions only: one server
  process; one completion, one panel and one verification at a time in a directory.
* **Saved answers page**: it reads one list and shows it.
* Within modelled parts: hashing (`AccountSessions`); vectors and schema details
  (`QdrantRelease`); anonymous use, titles and notes (`ConversationPage`); the
  process's restart (`RuntimeGate` is one life of a process: all its state is in
  memory); locks of the gazette taken over from a living process
  (`GazetteSources`; `VbplPortal` has that race); formats of evidence files.

## 9 Plan

1. `AskConnectionPool`, if a promise about an exhausted pool is ever written down.
2. Contract page: the order of opened reports (`ContractReviewPage.tsx:105`).
