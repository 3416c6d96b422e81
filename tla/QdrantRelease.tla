---------------------------- MODULE QdrantRelease ----------------------------
(***************************************************************************)
(* How a corpus reaches the service: the indexer (ingestion/index_qdrant.py),*)
(* the alias activation (ingestion/qdrant_alias.py) and the readiness gate of*)
(* the API (core/qdrant_readiness.py) are separate processes that share      *)
(* nothing but Qdrant.  Every action is one request to Qdrant with the code   *)
(* up to the next one.                                                        *)
(*                                                                         *)
(* A process may stop between any two requests (Stop): a crash, a request   *)
(* that fails, and a reply lost after Qdrant applied the request all leave  *)
(* the same state.  Vectors, schema and payload text are left out: a point  *)
(* is its id and the corpus fingerprint it carries.                          *)
(***************************************************************************)
EXTENDS Integers, FiniteSetsExt, SequencesExt

CONSTANTS Jobs,          \* processes of operators, and the probes of the API
          Collections,   \* physical collection names
          Corpora,       \* corpus files, named by their SHA-256
          Content,       \* [Corpora -> Seq(chunk id)]
          Release,       \* [coll, corpus]: the release the API is configured for
          BatchSize,     \* --batch-size
          SampleSize,    \* points a resuming indexer looks at (10 in the code)
          OneIndexer,    \* operators run indexers one after another, as the scripts do
          None

ASSUME ContentAssumption ==
    \A c \in Corpora : /\ Content[c] \in Seq(ToSet(Content[c]))
                       /\ IsInjective(Content[c]) /\ Len(Content[c]) > 0

ASSUME SizeAssumption == BatchSize \in Nat \ {0} /\ SampleSize \in Nat \ {0}

ASSUME NameAssumption ==
    /\ None \notin Corpora \union Collections
    /\ Release \in [coll : Collections, corpus : Corpora]

VARIABLES colls,   \* the collections that exist
          points,  \* [Collections -> [Chunks -> Corpora \union {None}]]
          alias,   \* the target of the active alias
          job      \* the processes

vars == <<colls, points, alias, job>>

Chunks == UNION {ToSet(Content[c]) : c \in Corpora}
Size(c) == Len(Content[c])
Batches(c) == (Size(c) + BatchSize - 1) \div BatchSize
BatchOf(c, b) == {Content[c][i] : i \in ((b - 1) * BatchSize + 1) .. Min({b * BatchSize, Size(c)})}

\* The points post_index_verification retrieves: the first, the middle and the last chunk.
Checked(c) == <<Content[c][1], Content[c][(Size(c) \div 2) + 1], Content[c][Size(c)]>>

Stored(x) == {k \in Chunks : points[x][k] # None}
Count(x) == Cardinality(Stored(x))
CountOf(x, c) == Cardinality({k \in Chunks : points[x][k] = c})

Complete(x, c) == /\ x \in colls
                  /\ \A k \in Chunks : points[x][k] = IF k \in ToSet(Content[c]) THEN c ELSE None

Reports == {"completed", "verified", "active", "ready"}
Ended == Reports \union {"not_ready", "refused", "mismatch", "stopped"}
Indexing(j) == job[j].kind = "index" /\ job[j].pc \notin Ended

Kinds == {"none", "index", "verify", "activate", "gate"}
Steps == {"exists", "count", "sample", "recheck", "create", "write",
          "schema", "verify", "retrieve",
          "names", "total", "fingerprints", "aliases", "switch", "confirm",
          "gate_alias", "gate_total", "gate_fingerprints"}

JobRecords == [kind : Kinds, corpus : Corpora \union {None}, coll : Collections \union {None},
               resume : BOOLEAN, pc : Steps \union Ended, step : Nat, total : Nat]

NoJob == [kind |-> "none", corpus |-> None, coll |-> None, resume |-> FALSE,
          pc |-> "stopped", step |-> 0, total |-> 0]

Init ==
    /\ colls = {}
    /\ points = [x \in Collections |-> [k \in Chunks |-> None]]
    /\ alias = None
    /\ job = [j \in Jobs |-> NoJob]

\* A process that ends leaves its outcome, and what its report is about.
Leave(j, pc) == IF pc \in Reports
                THEN [NoJob EXCEPT !.pc = pc, !.corpus = job[j].corpus, !.coll = job[j].coll]
                ELSE [NoJob EXCEPT !.pc = pc]

GotoStep(j, pc, n) == job' = [job EXCEPT ![j] = IF pc \in Ended THEN Leave(j, pc)
                                               ELSE [@ EXCEPT !.pc = pc, !.step = n]]
Goto(j, pc) == GotoStep(j, pc, job[j].step)
Idle == UNCHANGED <<colls, points, alias>>

Start(j, kind, pc) ==
    /\ job[j].pc \in Ended
    /\ \E c \in Corpora, x \in Collections, r \in IF kind = "verify" THEN {FALSE} ELSE BOOLEAN :
          job' = [job EXCEPT ![j] = [NoJob EXCEPT !.kind = kind, !.corpus = c, !.coll = x,
                                                  !.resume = r, !.pc = pc]]
    /\ Idle

Stop(j) == job[j].pc \notin Ended /\ Goto(j, "stopped") /\ Idle

-----------------------------------------------------------------------------
(* run_indexer.  The corpus file, its hash and the audit are checked before  *)
(* any request, and --dry-run ends there.                                    *)

StartIndexer(j) ==
    /\ OneIndexer => \A i \in Jobs : ~Indexing(i)
    /\ Start(j, "index", "exists")

\* An existing collection is refused without --resume and verified with it.
CheckExists(j) ==
    /\ job[j].pc = "exists"
    /\ Goto(j, IF job[j].coll \notin colls THEN "recheck"
               ELSE IF job[j].resume THEN "count" ELSE "refused")
    /\ Idle

TooMany(n, c) == n > Size(c)

ResumeCount(j) ==
    /\ job[j].pc = "count"
    /\ LET n == Count(job[j].coll) IN
          Goto(j, IF TooMany(n, job[j].corpus) THEN "refused" ELSE IF n = 0 THEN "recheck" ELSE "sample")
    /\ Idle

\* Bug: the sampled points are not compared with the corpus.
SampleIgnored(S, x, c) == \A k \in S : points[x][k] # None
SampleMatches(S, x, c) == \A k \in S : points[x][k] = c

\* One scroll of at most SampleSize points; which ones is Qdrant's choice.
ResumeSample(j) ==
    /\ job[j].pc = "sample"
    /\ LET x == job[j].coll
           n == Min({SampleSize, Count(x)})
       IN \E S \in kSubset(n, Stored(x)) :
             Goto(j, IF SampleMatches(S, x, job[j].corpus) THEN "recheck" ELSE "refused")
    /\ Idle

\* After the models are loaded, existence is asked again.
Recheck(j) ==
    /\ job[j].pc = "recheck"
    /\ GotoStep(j, IF job[j].coll \in colls THEN "write" ELSE "create", 1)
    /\ Idle

\* Qdrant refuses to create a collection twice, which ends the run.
Create(j) ==
    /\ job[j].pc = "create"
    /\ colls' = colls \union {job[j].coll}
    /\ Goto(j, IF job[j].coll \in colls THEN "stopped" ELSE "write")
    /\ UNCHANGED <<points, alias>>

LastBatch(b, c) == b = Batches(c)

\* client.upsert of one batch; an id that is there is overwritten.
Upsert(j) ==
    /\ job[j].pc = "write"
    /\ LET c == job[j].corpus
           b == job[j].step
       IN /\ points' = [points EXCEPT ![job[j].coll] =
                          [k \in Chunks |-> IF k \in BatchOf(c, b) THEN c ELSE @[k]]]
          /\ IF LastBatch(b, c) THEN GotoStep(j, "verify", 0) ELSE GotoStep(j, "write", b + 1)
    /\ UNCHANGED <<colls, alias>>

\* --verify-only begins with the schema, which a missing collection does not have.
StartVerifier(j) == Start(j, "verify", "schema")

VerifySchema(j) ==
    /\ job[j].pc = "schema"
    /\ Goto(j, IF job[j].coll \in colls THEN "verify" ELSE "mismatch")
    /\ Idle

\* post_index_verification: the exact count, then one retrieve per checked point.
VerifyCount(j) ==
    /\ job[j].pc = "verify"
    /\ GotoStep(j, IF Count(job[j].coll) = Size(job[j].corpus) THEN "retrieve" ELSE "mismatch", 1)
    /\ Idle

\* Bug: a retrieved point only has to exist.
PointExists(k, x, c) == points[x][k] # None
PointMatches(k, x, c) == points[x][k] = c

VerifyPoint(j) ==
    /\ job[j].pc = "retrieve"
    /\ LET i == job[j].step
           k == Checked(job[j].corpus)[i]
           next == IF i < 3 THEN "retrieve" ELSE IF job[j].kind = "index" THEN "completed" ELSE "verified"
       IN GotoStep(j, IF PointMatches(k, job[j].coll, job[j].corpus) THEN next ELSE "mismatch", i + 1)
    /\ Idle

-----------------------------------------------------------------------------
(* activate_alias; "resume" is its verify_only flag.                         *)

StartActivation(j) == Start(j, "activate", "names")

PhysicalNames(j) ==
    /\ job[j].pc = "names"
    /\ Goto(j, IF job[j].coll \in colls THEN "total" ELSE "mismatch")
    /\ Idle

TotalCount(j) ==
    /\ job[j].pc = "total"
    /\ job' = [job EXCEPT ![j].total = Count(job[j].coll), ![j].pc = "fingerprints"]
    /\ Idle

CountsMatch(total, fp, c) == total = Size(c) /\ fp = Size(c)

FingerprintCount(j) ==
    /\ job[j].pc = "fingerprints"
    /\ LET c == job[j].corpus IN
          Goto(j, IF CountsMatch(job[j].total, CountOf(job[j].coll, c), c) THEN "aliases" ELSE "mismatch")
    /\ Idle

ReadAliases(j) ==
    /\ job[j].pc = "aliases"
    /\ Goto(j, IF alias = job[j].coll THEN "confirm"
               ELSE IF job[j].resume THEN "mismatch" ELSE "switch")
    /\ Idle

\* Deletion of the old alias and creation of the new one are one request.
SwitchAlias(j) ==
    /\ job[j].pc = "switch"
    /\ alias' = job[j].coll
    /\ Goto(j, "confirm")
    /\ UNCHANGED <<colls, points>>

ConfirmAlias(j) ==
    /\ job[j].pc = "confirm"
    /\ Goto(j, IF alias = job[j].coll THEN "active" ELSE "mismatch")
    /\ Idle

-----------------------------------------------------------------------------
(* evaluate_qdrant_gate.  It counts in the collection the alias named when   *)
(* it was read.                                                              *)

Probe(j) ==
    /\ job[j].pc \in Ended
    /\ job' = [job EXCEPT ![j] = [NoJob EXCEPT !.kind = "gate", !.corpus = Release.corpus,
                                              !.coll = Release.coll, !.pc = "gate_alias"]]
    /\ Idle

GateAlias(j) ==
    /\ job[j].pc = "gate_alias"
    /\ Goto(j, IF alias = Release.coll THEN "gate_total" ELSE "not_ready")
    /\ Idle

GateTotal(j) ==
    /\ job[j].pc = "gate_total"
    /\ job' = [job EXCEPT ![j].total = Count(Release.coll), ![j].pc = "gate_fingerprints"]
    /\ Idle

\* Bug: the gate counts the points and not their fingerprints.
GateTotalMatches(total, fp) == total = Size(Release.corpus)
GateCountsMatch(total, fp) == total = Size(Release.corpus) /\ fp = Size(Release.corpus)

\* The collection may also be other than green, while Qdrant optimises it.
GateVerdict(j) ==
    /\ job[j].pc = "gate_fingerprints"
    /\ \E green \in BOOLEAN :
          Goto(j, IF green /\ GateCountsMatch(job[j].total, CountOf(Release.coll, Release.corpus))
                  THEN "ready" ELSE "not_ready")
    /\ Idle

-----------------------------------------------------------------------------
IndexerStep(j) ==
    \/ StartIndexer(j) \/ CheckExists(j) \/ ResumeCount(j) \/ ResumeSample(j)
    \/ Recheck(j) \/ Create(j) \/ Upsert(j)
    \/ StartVerifier(j) \/ VerifySchema(j) \/ VerifyCount(j) \/ VerifyPoint(j)

ActivationStep(j) ==
    \/ StartActivation(j) \/ PhysicalNames(j) \/ TotalCount(j) \/ FingerprintCount(j)
    \/ ReadAliases(j) \/ SwitchAlias(j) \/ ConfirmAlias(j)

GateStep(j) == Probe(j) \/ GateAlias(j) \/ GateTotal(j) \/ GateVerdict(j)

Next == \E j \in Jobs : IndexerStep(j) \/ ActivationStep(j) \/ GateStep(j) \/ Stop(j)

Spec == Init /\ [][Next]_vars

-----------------------------------------------------------------------------
(* Properties                                                                *)

\* The type invariant; points lie in collections that exist.
TypeOK ==
    /\ colls \subseteq Collections
    /\ points \in [Collections -> [Chunks -> Corpora \union {None}]]
    /\ \A x \in Collections \ colls : Stored(x) = {}
    /\ alias \in colls \union {None}
    /\ job \in [Jobs -> JobRecords]
    /\ \A j \in Jobs : job[j].pc = "write" => job[j].step \in 1 .. Batches(job[j].corpus)

\* A run that reports success (status completed, verified or active) is right about the whole
\* collection though post_index_verification looks at three points, and stays right while
\* others index, resume, crash and activate.
ReportsHold ==
    \A j \in Jobs : job[j].pc \in {"completed", "verified", "active"} => Complete(job[j].coll, job[j].corpus)

\* evaluate_qdrant_gate reads the alias and two counts in three requests; when it says ready
\* the release's collection does hold the release's corpus.
ReadyMeansComplete ==
    \A j \in Jobs : job[j].pc = "ready" => Complete(Release.coll, Release.corpus)

Held == [x \in Collections |-> {<<k, points[x][k]>> : k \in Stored(x)}]
Promise == INSTANCE ReleasePromise WITH held <- Held

\* A collection never mixes corpora, whatever crashes and resumes fill it, and the alias never
\* names a collection that is not one whole corpus, not even while an indexer runs on it.
ReleaseKept == Promise!Spec

\* Without --resume an indexer only writes into a collection that it has just created
\* ("Recheck collection existence right before creation to prevent race condition").
FreshRunsAreAlone ==
    ~\E i, j \in Jobs : /\ i # j
                        /\ job[i].coll = job[j].coll
                        /\ \A n \in {i, j} : job[n].kind = "index" /\ job[n].pc = "write" /\ ~job[n].resume

=============================================================================
