--------------------------- MODULE CanonicalRelease ---------------------------
(* The two releases of the corpus.  A source release is built in a staging    *)
(* directory from the base corpus and the official Word document and renamed  *)
(* when it is whole (scripts/build_official_docx_release.py); its provenance  *)
(* gate is opened outside the repository.  The canonical release applies the  *)
(* reviewed decisions on legal effect to a source release and is written file *)
(* by file into a directory that may hold an earlier one                      *)
(* (scripts/complete_canonical_corpus.py), as the first step of a script that *)
(* then checks it, writes a readiness report and seals it with checksums      *)
(* (scripts/run_canonical_completion.sh).  The audit of token lengths runs on *)
(* its own (scripts/audit_e5_token_lengths.py), the Word file may be replaced *)
(* at any time, and a process may die between two steps.                      *)
(*                                                                            *)
(* A hash of a file is the file; a unit is named by its path, <<article,      *)
(* clause, point>>; the chunks of an article are one for each clause, with an *)
(* identifier made of article and clause (LegalChunker is about the rest).    *)
(* The order of articles and of the units of an article is left out.          *)
(* One completion runs at a time: nothing in the code serialises two.         *)
EXTENDS Integers, Sequences, FiniteSets, SequencesExt

CONSTANTS
    BaseArticles,  \* the articles of the portal's documents: [id, units]
    DocxVersions,  \* the bytes the official document's file may hold
    Crawled,       \* the bytes the gazette's crawler has a snapshot of
    Rulings,       \* the decisions a completion may be run with
    Questions,     \* the golden questions: [codes, evidence, answerable]
    LongTexts,     \* texts that reach the limit of the embedding model
    NearTexts,     \* texts near it, which only the indexer refuses
    MaxBuilds,     \* bound: source releases
    MaxCompletions, \* bound: completion runs
    MaxAudits,     \* bound: audits of token lengths
    Unset

\* A path is a sequence, of at least the article and the clause.
IsUnit(u) == DOMAIN u = {"path", "text"} /\ u.path \in Seq(ToSet(u.path)) /\ Len(u.path) >= 2

\* No two articles of a source release share an id, or the builder stops.
ASSUME ReleaseAssumption ==
    /\ \A a \in BaseArticles : /\ DOMAIN a = {"id", "units"} /\ a.id # "official"
                              /\ \A u \in a.units : IsUnit(u)
    /\ \A a, b \in BaseArticles : a.id = b.id => a = b
    /\ \A ruling \in Rulings : \A n \in DOMAIN ruling.insert : IsUnit(ruling.insert[n].unit)

VARIABLES
    docx,          \* the official document's file
    builder,       \* the builder of source releases: [step, text, sha, raw, copy]
    sourceReleases, \* the source releases: [articles, chunks, sha, raw, copy, verified]
    canon,         \* the canonical release: file -> content
    sums,          \* its checksum file: file -> content
    golden,        \* the golden questions bound to the release: [questions, chunks]
    completion,    \* the completion run
    measured,      \* an audit that has read the chunks and not written its summary
    audited,       \* the audit's summary: whether it is of the canonical file, the
                   \* chunks that were measured and those that were hashed
    budget         \* runs left: [builds, completions, audits]

releaseVars == <<docx, builder, sourceReleases, canon, sums, golden, completion, measured, audited, budget>>

Building(step) == builder.step = step
NoBuild == [step |-> "idle", text |-> Unset, sha |-> Unset, raw |-> Unset, copy |-> Unset]
NoCompletion == [step |-> "idle"]

-----------------------------------------------------------------------------
(* Articles and chunks                                                       *)

OfficialArticle(text) == [id |-> "official", units |-> {[path |-> <<"official", "1">>, text |-> text]}]

Paths(units) == {u.path : u \in units}

\* One chunk for each clause; the identifier says nothing of the text
ArticleChunks(article) ==
    {[id |-> key, article |-> article.id, units |-> {u \in article.units : IsPrefix(key, u.path)}] :
        key \in {SubSeq(p, 1, 2) : p \in Paths(article.units)}}

ChunksOf(articles) == UNION {ArticleChunks(a) : a \in articles}

Ids(chunks) == {c.id : c \in chunks}

TooLong(chunk) == \E u \in chunk.units : u.text \in LongTexts
NearLimit(chunk) == TooLong(chunk) \/ \E u \in chunk.units : u.text \in NearTexts

-----------------------------------------------------------------------------
(* The source release                                                        *)

\* The paragraphs are read, and the bytes are hashed afterwards
ExtractDocx ==
    /\ Building("idle") /\ budget.builds > 0
    /\ builder' = [NoBuild EXCEPT !.step = "hash", !.text = docx]
    /\ budget' = [budget EXCEPT !.builds = @ - 1]
    /\ UNCHANGED <<docx, sourceReleases, canon, sums, golden, completion, measured, audited>>

HashDocx ==
    /\ Building("hash")
    /\ builder' = [builder EXCEPT !.step = "snapshot", !.sha = docx]
    /\ UNCHANGED <<docx, sourceReleases, canon, sums, golden, completion, measured, audited, budget>>

\* The file is hashed once more: the crawler's snapshot of these bytes, or one
\* made here of the bytes and of the paragraphs read before
SnapshotDocx ==
    /\ Building("snapshot")
    /\ builder' = [builder EXCEPT !.step = "copy",
                     !.raw = [sha |-> docx, text |-> IF docx \in Crawled THEN docx ELSE builder.text]]
    /\ UNCHANGED <<docx, sourceReleases, canon, sums, golden, completion, measured, audited, budget>>

\* The file is copied into the staging directory
CopyDocx ==
    /\ Building("copy")
    /\ builder' = [builder EXCEPT !.step = "publish", !.copy = docx]
    /\ UNCHANGED <<docx, sourceReleases, canon, sums, golden, completion, measured, audited, budget>>

Assembled == BaseArticles \cup {OfficialArticle(builder.text)}

\* What the staging directory holds: the articles and their chunks, inventory
\* and manifest.  The provenance gate is closed.
Staged == [articles |-> Assembled, chunks |-> ChunksOf(Assembled), sha |-> builder.sha,
           raw |-> builder.raw, copy |-> builder.copy, verified |-> FALSE]

\* The chunks are counted in the model's own tokens and stay below the limit;
\* the whole directory gets its name in one rename.
PublishSource ==
    /\ Building("publish")
    /\ \A c \in Staged.chunks : ~NearLimit(c)
    /\ sourceReleases' = sourceReleases \cup {Staged}
    /\ builder' = NoBuild
    /\ UNCHANGED <<docx, canon, sums, golden, completion, measured, audited, budget>>

\* The builder may die; what it staged is never read
AbandonBuild ==
    /\ ~Building("idle")
    /\ builder' = NoBuild
    /\ UNCHANGED <<docx, sourceReleases, canon, sums, golden, completion, measured, audited, budget>>

\* Another ingestion puts new bytes in place
ReplaceDocx ==
    /\ ~Building("idle")
    /\ docx' \in DocxVersions \ {docx}
    /\ UNCHANGED <<builder, sourceReleases, canon, sums, golden, completion, measured, audited, budget>>

\* Outside the repository: the provenance of a source release is vouched for
VerifyProvenance(s) ==
    /\ s \in sourceReleases /\ ~s.verified
    /\ sourceReleases' = (sourceReleases \ {s}) \cup {[s EXCEPT !.verified = TRUE]}
    /\ UNCHANGED <<docx, builder, canon, sums, golden, completion, measured, audited, budget>>

\* What the registry of sources checks of a source release
RegistryAccepts(s) == s.verified /\ s.copy = s.sha

-----------------------------------------------------------------------------
(* Decisions on legal effect                                                 *)

\* A rule names an article or a unit; it takes everything under it, and never a
\* sibling whose number begins alike.
Matches(path, rule) == IsPrefix(rule, path)
Excluded(path, ruling) == \E rule \in ruling.exclude : Matches(path, rule)

\* The evidence whose snapshot carries a hash and has been compared with it
VerifiedEvidence(ruling) == {e \in DOMAIN ruling.evidence : ruling.evidence[e].hashed}
EvidenceHolds(ruling) ==
    \A e \in DOMAIN ruling.evidence :
        /\ ruling.evidence[e].required => ruling.evidence[e].hashed
        /\ ruling.evidence[e].hashed => ruling.evidence[e].intact
Cited(e, ruling) ==
    /\ e \in DOMAIN ruling.evidence
    /\ ruling.evidence[e].required => e \in VerifiedEvidence(ruling)

\* What is left of the units: without the excluded ones, replaced where decided
Reviewed(units, ruling) ==
    {IF u.path \in DOMAIN ruling.replace THEN [u EXCEPT !.text = ruling.replace[u.path].text] ELSE u :
        u \in {v \in units : ~Excluded(v.path, ruling)}}

Insertions(article, ruling) == {n \in DOMAIN ruling.insert : ruling.insert[n].article = article.id}

\* The units that the n-th insertion finds
Revised(article, ruling, n) ==
    Reviewed(article.units, ruling)
        \cup {ruling.insert[m].unit : m \in {k \in Insertions(article, ruling) : k < n}}

\* It goes behind its anchor, which must have survived
Insertable(units, insertion) ==
    /\ insertion.after \in Paths(units)
    /\ insertion.unit.path \notin Paths(units)

Transformed(article, ruling) ==
    [article EXCEPT !.units = Revised(article, ruling, Len(ruling.insert) + 1)]

\* No decision may fail to apply
Applicable(articles, ruling) ==
    /\ EvidenceHolds(ruling)
    /\ \A a \in articles : \A n \in Insertions(a, ruling) :
          /\ Cited(ruling.insert[n].evidence, ruling)
          /\ Insertable(Revised(a, ruling, n), ruling.insert[n])
    /\ \A n \in DOMAIN ruling.insert : \E a \in articles : a.id = ruling.insert[n].article
    /\ \A path \in DOMAIN ruling.replace :
          (\E a \in articles : path \in Paths(a.units) /\ ~Excluded(path, ruling)) =>
              Cited(ruling.replace[path].evidence, ruling)

\* An article all of whose units are excluded is dropped
Applied(articles, ruling) ==
    {Transformed(a, ruling) : a \in {b \in articles : b.units # {} => Transformed(b, ruling).units # {}}}

\* Mutant: an article whose units keep their names is taken for unchanged.
ChangedByPaths(articles, ruling) ==
    {a.id : a \in {b \in articles : Paths(b.units) # Paths(Transformed(b, ruling).units)}}

\* The articles a decision touched: an exclusion, a replacement or an insertion
Changed(articles, ruling) ==
    {a.id : a \in {b \in articles :
        \/ \E p \in Paths(b.units) : Excluded(p, ruling) \/ p \in DOMAIN ruling.replace
        \/ Insertions(b, ruling) # {}}}

\* Changed articles are chunked again, the chunks of the others are kept
Rebuilt(old, articles, changed) ==
    UNION {IF a.id \in changed THEN ArticleChunks(a) ELSE {c \in old : c.article = a.id} : a \in articles}

\* Evidence that is still there stays; otherwise every chunk of the articles
\* the question expects
Rebased(chunks) ==
    [q \in DOMAIN Questions |->
        [Questions[q] EXCEPT !.evidence =
            IF @ \subseteq Ids(chunks) THEN @
            ELSE Ids({c \in chunks : c.article \in Questions[q].codes})]]

EvidenceComplete(questions) ==
    \A q \in DOMAIN questions : questions[q].answerable => questions[q].evidence # {}

-----------------------------------------------------------------------------
(* The completion                                                            *)

Reached(step) == completion.step = step
Goes(step) == completion' = [completion EXCEPT !.step = step]
Ends(step) == completion' = [step |-> step]

Write(file, content) ==
    canon' = [f \in DOMAIN canon \cup {file} |-> IF f = file THEN content ELSE canon[f]]
Holds(file) == file \in DOMAIN canon

\* A summary that found no chunk too long
Clean(summary) == \A c \in summary.read : ~TooLong(c)

\* Mutant: the number of chunks is compared and not their hash.
AuditOfAnySize(summary, chunks) ==
    /\ summary # Unset /\ summary.canonical
    /\ Cardinality(summary.read) = Cardinality(chunks) /\ Clean(summary)

\* The summary of the canonical file counts for the chunks it hashed.
AuditCovers(summary, chunks) ==
    /\ summary # Unset /\ summary.canonical /\ summary.chunks = chunks
    /\ Cardinality(summary.read) = Cardinality(chunks) /\ Clean(summary)

\* The indexer asks for the hash and the number, and for more room.
IndexerAccepts(summary, chunks) ==
    /\ summary # Unset /\ summary.chunks = chunks
    /\ Cardinality(summary.read) = Cardinality(chunks)
    /\ \A c \in summary.read : ~NearLimit(c)

\* The script wants an audit to exist; everything that can be refused before
\* the first file is written
BeginCompletion(s, ruling) ==
    /\ Reached("idle") \/ Reached("released") \/ Reached("failed")
    /\ budget.completions > 0
    /\ audited # Unset
    /\ RegistryAccepts(s) /\ Applicable(s.articles, ruling)
    /\ completion' = [step |-> "articles", from |-> s, ruling |-> ruling,
                      changed |-> Changed(s.articles, ruling)]
    /\ budget' = [budget EXCEPT !.completions = @ - 1]
    /\ UNCHANGED <<docx, builder, sourceReleases, canon, sums, golden, measured, audited>>

WriteArticles ==
    /\ Reached("articles")
    /\ Write("articles", Applied(completion.from.articles, completion.ruling))
    /\ Goes("chunks")
    /\ UNCHANGED <<docx, builder, sourceReleases, sums, golden, measured, audited, budget>>

WriteChunks ==
    /\ Reached("chunks")
    /\ Write("chunks", Rebuilt(completion.from.chunks, canon["articles"], completion.changed))
    /\ Goes("binding")
    /\ UNCHANGED <<docx, builder, sourceReleases, sums, golden, measured, audited, budget>>

BindAudit ==
    /\ Reached("binding")
    /\ Write("binding", [verified |-> AuditCovers(audited, canon["chunks"]), summary |-> audited])
    /\ Goes("review")
    /\ UNCHANGED <<docx, builder, sourceReleases, sums, golden, measured, audited, budget>>

WriteReview ==
    /\ Reached("review")
    /\ Write("review", [ruling |-> completion.ruling, from |-> completion.from])
    /\ Goes("golden")
    /\ UNCHANGED <<docx, builder, sourceReleases, sums, golden, measured, audited, budget>>

\* The questions lie outside the release, the result of their check inside
RebaseGolden ==
    /\ Reached("golden")
    /\ golden' = [questions |-> Rebased(canon["chunks"]), chunks |-> canon["chunks"]]
    /\ Write("golden", EvidenceComplete(golden'.questions))
    /\ Goes("manifest")
    /\ UNCHANGED <<docx, builder, sourceReleases, sums, measured, audited, budget>>

\* Every chunk names an article and units that are there
Traceable ==
    \A c \in canon["chunks"] :
        \E a \in canon["articles"] : a.id = c.article /\ Paths(c.units) \subseteq Paths(a.units)

ExclusionsAbsent(ruling) ==
    \A a \in canon["articles"] : \A p \in Paths(a.units) : ~Excluded(p, ruling)

\* The technical gates; the exact audit is a gate of its own
TechnicalGates ==
    LET ruling == completion.ruling
    IN  /\ Traceable /\ ExclusionsAbsent(ruling) /\ canon["golden"]
        /\ ~ruling.gaps
        /\ VerifiedEvidence(ruling) = {e \in DOMAIN ruling.evidence : ruling.evidence[e].required}

\* The strict report, the build report and the manifest
WriteGates ==
    /\ Reached("manifest")
    /\ Write("manifest", [technical |-> TechnicalGates, exact |-> canon["binding"].verified,
                          count |-> Cardinality(canon["chunks"])])
    /\ Goes("sums")
    /\ UNCHANGED <<docx, builder, sourceReleases, sums, golden, measured, audited, budget>>

\* Checksums of the files that are there; the script stops at a failed candidate
WriteSums ==
    /\ Reached("sums")
    /\ sums' = canon
    /\ IF canon["manifest"].technical THEN Goes("check") ELSE Ends("failed")
    /\ UNCHANGED <<docx, builder, sourceReleases, canon, golden, measured, audited, budget>>

\* The strict check of the questions: their evidence and their articles exist
GoldenStrict ==
    \A q \in DOMAIN golden.questions :
        /\ golden.questions[q].evidence \subseteq Ids(canon["chunks"])
        /\ golden.questions[q].codes \subseteq {c.article : c \in canon["chunks"]}

CheckGolden ==
    /\ Reached("check")
    /\ IF GoldenStrict THEN Goes("preflight") ELSE Ends("failed")
    /\ UNCHANGED <<docx, builder, sourceReleases, canon, sums, golden, measured, audited, budget>>

\* The indexer's dry runs: the source's audit must not pass for these chunks,
\* the audit that lies there now must.
Preflight ==
    /\ Reached("preflight")
    /\ IF completion.from.chunks # canon["chunks"] /\ IndexerAccepts(audited, canon["chunks"])
       THEN Goes("readiness") ELSE Ends("failed")
    /\ UNCHANGED <<docx, builder, sourceReleases, canon, sums, golden, measured, audited, budget>>

WriteReadiness ==
    LET manifest == canon["manifest"]
    IN  /\ Reached("readiness")
        /\ IF manifest.exact /\ manifest.technical /\ manifest.count = Cardinality(canon["chunks"])
           THEN Write("readiness", canon["chunks"]) /\ Goes("seal")
           ELSE Ends("failed") /\ UNCHANGED canon
        /\ UNCHANGED <<docx, builder, sourceReleases, sums, golden, measured, audited, budget>>

\* Checksums again, now over the readiness report too
Seal ==
    /\ Reached("seal")
    /\ sums' = canon
    /\ Goes("verify")
    /\ UNCHANGED <<docx, builder, sourceReleases, canon, golden, measured, audited, budget>>

\* After the tests every file is compared with its checksum
VerifySeal ==
    /\ Reached("verify")
    /\ IF sums = canon THEN Ends("released") ELSE Ends("failed")
    /\ UNCHANGED <<docx, builder, sourceReleases, canon, sums, golden, measured, audited, budget>>

\* The script may die, or a command of it fail, between two writes
AbandonCompletion ==
    /\ ~Reached("idle") /\ ~Reached("released") /\ ~Reached("failed")
    /\ Ends("idle")
    /\ UNCHANGED <<docx, builder, sourceReleases, canon, sums, golden, measured, audited, budget>>

-----------------------------------------------------------------------------
(* The audit of token lengths                                                *)

\* A source release never changes: what is hashed is what was read.
AuditSource(s) ==
    /\ measured = Unset /\ budget.audits > 0
    /\ measured' = [canonical |-> FALSE, read |-> s.chunks, chunks |-> s.chunks]
    /\ budget' = [budget EXCEPT !.audits = @ - 1]
    /\ UNCHANGED <<docx, builder, sourceReleases, canon, sums, golden, completion, audited>>

\* The canonical chunks are read, and the file is hashed afterwards.
LoadChunks ==
    /\ measured = Unset /\ budget.audits > 0 /\ Holds("chunks")
    /\ measured' = [canonical |-> TRUE, read |-> canon["chunks"], chunks |-> Unset]
    /\ budget' = [budget EXCEPT !.audits = @ - 1]
    /\ UNCHANGED <<docx, builder, sourceReleases, canon, sums, golden, completion, audited>>

HashChunks ==
    /\ measured # Unset /\ measured.chunks = Unset
    /\ measured' = [measured EXCEPT !.chunks = canon["chunks"]]
    /\ UNCHANGED <<docx, builder, sourceReleases, canon, sums, golden, completion, audited, budget>>

\* What was read is measured; the summary is written after minutes, whatever
\* the release is by then.
WriteAudit ==
    /\ measured # Unset /\ measured.chunks # Unset
    /\ audited' = measured /\ measured' = Unset
    /\ UNCHANGED <<docx, builder, sourceReleases, canon, sums, golden, completion, budget>>

-----------------------------------------------------------------------------

ReleaseInit ==
    /\ docx \in DocxVersions
    /\ builder = NoBuild /\ sourceReleases = {}
    /\ canon = <<>> /\ sums = <<>> /\ golden = Unset
    /\ completion = NoCompletion /\ measured = Unset /\ audited = Unset
    /\ budget = [builds |-> MaxBuilds, completions |-> MaxCompletions, audits |-> MaxAudits]

ReleaseNext ==
    \/ ExtractDocx \/ HashDocx \/ SnapshotDocx \/ CopyDocx \/ PublishSource \/ AbandonBuild \/ ReplaceDocx
    \/ \E s \in sourceReleases : VerifyProvenance(s)
    \/ \E s \in sourceReleases, ruling \in Rulings : BeginCompletion(s, ruling)
    \/ WriteArticles \/ WriteChunks \/ BindAudit \/ WriteReview \/ RebaseGolden \/ WriteGates \/ WriteSums
    \/ CheckGolden \/ Preflight \/ WriteReadiness \/ Seal \/ VerifySeal \/ AbandonCompletion
    \/ \E s \in sourceReleases : AuditSource(s)
    \/ LoadChunks \/ HashChunks \/ WriteAudit

ReleaseSpec == ReleaseInit /\ [][ReleaseNext]_releaseVars

-----------------------------------------------------------------------------
(* Properties                                                                *)

\* Every file of the release agrees with its checksum
Sealed == Holds("manifest") /\ sums = canon

\* The articles are those of the source the release names after the decisions
\* it records, and a technical candidate holds no provision without effect.
SealedAsDecided ==
    Sealed =>
        /\ canon["articles"] = Applied(canon["review"].from.articles, canon["review"].ruling)
        /\ canon["manifest"].technical =>
             \A c \in canon["chunks"] : \A p \in Paths(c.units) : ~Excluded(p, canon["review"].ruling)

\* The chunks carry exactly the text of the articles.
SealedTextIsWhole ==
    Sealed => UNION {c.units : c \in canon["chunks"]} = UNION {a.units : a \in canon["articles"]}

\* Although the release is overwritten file by file, and a run may die anywhere
\* and be followed by one with other decisions: a release that agrees with its
\* checksums is of one build.  Its articles are those of the source it names
\* after the decisions it records, its chunks carry exactly the text of these
\* articles, and when it claims to be a technical candidate no provision that
\* was decided to be without effect is in it.
SealedIsOneBuild == SealedAsDecided /\ SealedTextIsWhole

\* Audits and completions overlap freely, and a summary may be written for
\* chunks that are no longer there: a sealed release that claims the exact
\* audit, and every release the script lets through, is bound to a summary of
\* its own chunks, and holds no text too long for the model unless the file
\* changed between the two reads of that audit.  What was let through is what
\* its readiness report is about.
AuditCoversRelease ==
    /\ (Sealed /\ canon["manifest"].exact) \/ Reached("released") =>
          LET summary == canon["binding"].summary
          IN  /\ summary.chunks = canon["chunks"]
              /\ summary.read = summary.chunks => \A c \in canon["chunks"] : ~TooLong(c)
    /\ Reached("released") => Sealed /\ canon["manifest"].technical /\ canon["readiness"] = canon["chunks"]
=============================================================================
