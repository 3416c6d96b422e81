---------------------------- MODULE HybridRanking ----------------------------
(***************************************************************************)
(* Hybrid retrieval of one question: the in-memory BM25 ranking, the dense *)
(* ranking that Qdrant serves through an alias, weighted reciprocal rank   *)
(* fusion of the two, and the choice of the context given to the model.    *)
(* The operator may move the alias to another release at any moment.       *)
(*                                                                         *)
(* Which chunks match a question, and how well, is an input. A ranking is  *)
(* the function from the chunks it holds to their places, 1, 2, ... Fused  *)
(* scores are compared as exact fractions over the common denominator      *)
(* Scale; the code's floating point sums agree with them wherever two      *)
(* scores differ by more than a rounding error. Chunks are numbered in the *)
(* order of their ids.                                                     *)
(***************************************************************************)
EXTENDS Integers, FiniteSets, Functions

CONSTANTS
    Chunks,       \* numbers of the chunks of all releases
    Releases,     \* the indexed releases
    PointsOf,     \* PointsOf[r]: the chunks indexed for release r
    Expected,     \* the release the server is configured for
    DocumentOf,   \* DocumentOf[c]: get_stable_document_key of chunk c
    CandidateK,   \* size of the candidate pool (30)
    ContextK,     \* size of the context (10)
    RrfK,         \* the rank constant of the fusion (60)
    Scale,        \* a common multiple of all RrfK + rank
    SparseWeight, \* the weights of the components (0.1 and 0.9), times ten
    DenseWeight,
    Preserved,    \* fused ranks that keep their place (5)
    Window        \* ranks whose documents are counted for the boost (10)

ASSUME RankingAssumption ==
    /\ Chunks \subseteq Nat /\ IsFiniteSet(Chunks)
    /\ Expected \in Releases
    /\ PointsOf \in [Releases -> SUBSET Chunks]
    /\ CandidateK \in Nat \ {0} /\ ContextK \in 1..CandidateK
    /\ RrfK \in Nat /\ SparseWeight \in Nat \ {0} /\ DenseWeight \in Nat \ {0}
    /\ Scale \in Nat \ {0} /\ \A i \in 1..CandidateK : Scale % (RrfK + i) = 0
    /\ Preserved \in Nat \ {0} /\ Window \in Nat

VARIABLES
    serving,  \* the release the alias points to
    sparse,   \* the BM25 ranking
    dense,    \* the dense ranking
    pool,     \* the fused candidates
    context,  \* the hits given to the model
    step      \* what the retriever does next

rankingVars == <<serving, sparse, dense, pool, context, step>>

\* Rankings of at most n of the chunks in S
Rankings(S, n) ==
    UNION {Bijection(T, 1..Cardinality(T)) : T \in {U \in SUBSET S : Cardinality(U) <= n}}

ShorterOf(a, b) == IF a < b THEN a ELSE b

\* BM25 ranks the chunks that share a word with the question, Qdrant all points.
SparseRankings == Rankings(PointsOf[Expected], CandidateK)
DenseRankings == [r \in Releases |->
    {s \in Rankings(PointsOf[r], CandidateK) :
        Cardinality(DOMAIN s) = ShorterOf(CandidateK, Cardinality(PointsOf[r]))}]

-----------------------------------------------------------------------------
(* Reciprocal rank fusion *)

\* What one component adds to the score of c: weight / (rrf_k + rank)
Term(weight, s, c) == IF c \in DOMAIN s THEN weight * (Scale \div (RrfK + s[c])) ELSE 0

FusedScore(c) == Term(SparseWeight, sparse, c) + Term(DenseWeight, dense, c)

BestRank(c) ==
    IF c \notin DOMAIN dense THEN sparse[c]
    ELSE IF c \notin DOMAIN sparse THEN dense[c]
    ELSE ShorterOf(sparse[c], dense[c])

FusedBefore(c, d) ==
    \/ FusedScore(c) > FusedScore(d)
    \/ /\ FusedScore(c) = FusedScore(d)
       /\ BestRank(c) < BestRank(d) \/ (BestRank(c) = BestRank(d) /\ c < d)

Fused == DOMAIN sparse \cup DOMAIN dense
FusedPlace(c) == 1 + Cardinality({d \in Fused : FusedBefore(d, c)})

FusedPool ==
    LET place == [c \in Fused |-> FusedPlace(c)]
    IN [c \in {d \in Fused : place[d] <= CandidateK} |-> place[c]]

-----------------------------------------------------------------------------
(* select_generation_context *)

\* get_stable_document_key: an explicit id of the document, else the article
\* code without its last number; chunks with neither form one document.
SameDocument(c, d) == DocumentOf[c] = DocumentOf[d]

\* How often the document of c is among the first hits of the pool
Votes(c) == Cardinality({d \in DOMAIN pool : pool[d] <= Window /\ SameDocument(d, c)})

\* Mutant: the boost counts the ranks of the components.
RankBoost(c) == 20 + BestRank(c)

\* 1 + votes/20, at most 1.25, in twentieths
Boost(c) == ShorterOf(20 + Votes(c), 25)

SelectionScore(c) == FusedScore(c) * Boost(c)

SelectedBefore(c, d) ==
    \/ SelectionScore(c) > SelectionScore(d)
    \/ /\ SelectionScore(c) = SelectionScore(d)
       /\ pool[c] < pool[d]

\* The first ranks stay; the other slots go to the best boosted scores.
Kept == ShorterOf(Preserved, ContextK)

SelectedPlace(c) ==
    IF Cardinality(DOMAIN pool) <= ContextK \/ pool[c] <= Kept
    THEN pool[c]
    ELSE 1 + Kept + Cardinality({d \in DOMAIN pool : pool[d] > Kept /\ SelectedBefore(d, c)})

SelectedContext ==
    LET place == [c \in DOMAIN pool |-> SelectedPlace(c)]
    IN [c \in {d \in DOMAIN pool : place[d] <= ContextK} |-> place[c]]

-----------------------------------------------------------------------------

RankingInit ==
    /\ serving \in Releases
    /\ sparse = <<>> /\ dense = <<>> /\ pool = <<>> /\ context = <<>>
    /\ step = "sparse"

\* The operator activates a release. After the dense search nothing reads the
\* alias any more.
Activate ==
    /\ step \in {"sparse", "embed", "dense"}
    /\ serving' \in Releases \ {serving}
    /\ UNCHANGED <<sparse, dense, pool, context, step>>

\* VnCoreNlpBm25Retriever.retrieve
SearchSparse ==
    /\ step = "sparse"
    /\ sparse' \in SparseRankings
    /\ step' = "embed"
    /\ UNCHANGED <<serving, dense, pool, context>>

\* The question's embedding; no embedding, or one of a wrong size, is an error.
Embed ==
    /\ step = "embed"
    /\ step' \in {"dense", "failed"}
    /\ UNCHANGED <<serving, sparse, dense, pool, context>>

\* Mutant: payloads of any release are accepted.
AnyRelease == TRUE

\* Every payload carries the fingerprint of its release, which must be the
\* expected one; a collection without points has none to compare.
FingerprintsMatch == serving = Expected \/ PointsOf[serving] = {}

\* DenseRetriever.retrieve: of the collection that the alias names when the
\* query arrives.
SearchDense ==
    /\ step = "dense"
    /\ IF FingerprintsMatch
       THEN dense' \in DenseRankings[serving] /\ step' = "fuse"
       ELSE step' = "failed" /\ UNCHANGED dense
    /\ UNCHANGED <<serving, sparse, pool, context>>

\* Qdrant does not answer.
DenseFails ==
    /\ step = "dense"
    /\ step' = "failed"
    /\ UNCHANGED <<serving, sparse, dense, pool, context>>

Fuse ==
    /\ step = "fuse"
    /\ pool' = FusedPool
    /\ step' = "select"
    /\ UNCHANGED <<serving, sparse, dense, context>>

SelectContext ==
    /\ step = "select"
    /\ context' = SelectedContext
    /\ step' = "done"
    /\ UNCHANGED <<serving, sparse, dense, pool>>

RankingNext ==
    Activate \/ SearchSparse \/ Embed \/ SearchDense \/ DenseFails \/ Fuse \/ SelectContext

RankingSpec == RankingInit /\ [][RankingNext]_rankingVars

-----------------------------------------------------------------------------

\* A chunk loses its place in the context only to one whose document has more
\* of the first fused ranks, and never one of the preserved places.
OvertakenByConsensus ==
    step = "done" =>
        \A c, d \in DOMAIN pool :
            /\ pool[c] < pool[d] /\ d \in DOMAIN context
            /\ c \notin DOMAIN context \/ context[d] < context[c]
            => pool[c] > Preserved /\ Votes(d) > Votes(c)

\* However the alias moves during the search, no context holds a chunk that
\* the configured release does not have.
OneRelease ==
    step = "done" => DOMAIN context \subseteq PointsOf[Expected]
=============================================================================
