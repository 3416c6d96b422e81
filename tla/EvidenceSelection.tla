-------------------------- MODULE EvidenceSelection --------------------------
(***************************************************************************)
(* review_contract: for each category of a contract review, the excerpt of *)
(* the contract, the legal passages to compare it with, and the finding.   *)
(*                                                                         *)
(* Passages come from a lexical ranking that prefers the core articles of  *)
(* a category. With the cross-encoder switched on, a wider ranking without *)
(* deduplication is rescored first; when the scorer fails, the lexical     *)
(* order is used if fail_open says so. Scores and the facts the regular    *)
(* expressions find in an excerpt are inputs.                              *)
(***************************************************************************)
EXTENDS Integers, Sequences, FiniteSets, FiniteSetsExt, SequencesExt

CONSTANTS
    Passages,     \* numbers of the corpus chunks, in the order of their ids
    CodeOf,       \* CodeOf[c]: its article_code, or Unknown
    ListingOf,    \* ListingOf[c]: its codification_code, or Unknown
    Categories,   \* the sequence of categories
    PreferredOf,  \* PreferredOf[k]: the core articles of a category
    PreferredBonus, \* 16
    MaxRaw,       \* largest lexical score in the model
    MaxScore,     \* largest cross-encoder score in the model
    TopK,         \* passages per finding (4)
    PoolK,        \* candidates given to the cross-encoder (20)
    Facts,        \* Facts[k]: what can be read from an excerpt of category k
    Unknown

ASSUME EvidenceAssumption ==
    /\ Passages \subseteq Nat /\ IsFiniteSet(Passages)
    /\ TopK \in Nat \ {0} /\ PoolK \in Nat /\ PoolK >= TopK
    /\ PreferredBonus \in Nat /\ MaxRaw \in Nat /\ MaxScore \in Nat
    /\ \A n \in 0..PoolK : Unknown \notin [1..n -> 0..MaxScore]

VARIABLES
    reranker,   \* "off", "open" (falls back) or "closed" (fails the review)
    at,         \* index of the category in work
    excerpt,    \* whether the contract has an excerpt for it
    matches,    \* every passage that matches, best first
    candidates, \* passages given to the cross-encoder
    scores,     \* their scores, or Unknown
    sources,    \* the passages of the finding, in the order of their ids S1, S2, ...
    finding,    \* the finding
    stage       \* what review_contract does next

draftVars ==
    <<reranker, at, excerpt, matches, candidates, scores, sources, finding, stage>>

NoFinding == [severity |-> Unknown, status |-> Unknown, cited |-> {}]

DraftInit ==
    /\ reranker \in {"off", "open", "closed"}
    /\ at = 1 /\ excerpt = FALSE
    /\ matches = <<>> /\ candidates = <<>> /\ scores = Unknown /\ sources = <<>>
    /\ finding = NoFinding
    /\ stage = "load"

Category == Categories[at]

FirstOf(s, n) == SubSeq(s, 1, IF n < Len(s) THEN n ELSE Len(s))

\* The key under which passages count as one article
Key(c) ==
    IF CodeOf[c] # Unknown THEN <<"article", CodeOf[c]>>
    ELSE IF ListingOf[c] # Unknown THEN <<"article", ListingOf[c]>> ELSE <<"chunk", c>>

\* The positions of s whose article does not occur earlier
Firsts(s) == {i \in DOMAIN s : \A j \in 1..(i - 1) : Key(s[j]) # Key(s[i])}

\* The n-th of a set of positions
Nth(S, n) == Min({i \in S : Cardinality({j \in S : j <= i}) = n})

\* s without the passages whose article occurs earlier
Distinct(s) == [n \in 1..Cardinality(Firsts(s)) |-> s[Nth(Firsts(s), n)]]

-----------------------------------------------------------------------------
(* Retrieval *)

\* evidence_retriever: the corpus is read, compared with its fingerprint and
\* its number of chunks, and kept.
Load ==
    /\ stage = "load"
    /\ stage' \in {"excerpt", "failed"}
    /\ UNCHANGED <<reranker, at, excerpt, matches, candidates, scores, sources, finding>>

FindExcerpt ==
    /\ stage = "excerpt"
    /\ excerpt' \in BOOLEAN
    /\ stage' = "retrieve"
    /\ UNCHANGED <<reranker, at, matches, candidates, scores, sources, finding>>

\* Only article_code earns the bonus, not codification_code.
Ranking(raw, c) == raw[c] + IF CodeOf[c] \in PreferredOf[Category] THEN PreferredBonus ELSE 0

Precedes(raw, c, d) ==
    Ranking(raw, c) > Ranking(raw, d) \/ (Ranking(raw, c) = Ranking(raw, d) /\ c < d)

\* What matches, best first
Ranked(raw) ==
    {s \in SetToSeqs({c \in Passages : Ranking(raw, c) > 0}) :
        \A i, j \in DOMAIN s : i < j => Precedes(raw, s[i], s[j])}

\* The cross-encoder gets the head of the ranking, several passages of an
\* article included.
Pool(s) == FirstOf(s, PoolK)

Retrieve ==
    /\ stage = "retrieve"
    /\ \E raw \in [Passages -> 0..MaxRaw] : matches' \in Ranked(raw)
    /\ IF reranker = "off"
       THEN /\ sources' = FirstOf(Distinct(matches'), TopK)
            /\ stage' = "analyse" /\ UNCHANGED candidates
       ELSE /\ candidates' = Pool(matches')
            /\ stage' = "rerank" /\ UNCHANGED sources
    /\ UNCHANGED <<reranker, at, excerpt, scores, finding>>

-----------------------------------------------------------------------------
(* rerank_with_scores *)

\* Ties keep the lexical order.
Rescored(score) ==
    LET before(i, j) == score[i] > score[j] \/ (score[i] = score[j] /\ i < j)
        order == SetToSortSeq(DOMAIN candidates, before)
    IN [n \in DOMAIN order |-> candidates[order[n]]]

\* A finite score for every candidate, normalised to at most MaxScore
Rerank ==
    /\ stage = "rerank"
    /\ scores' \in [DOMAIN candidates -> 0..MaxScore]
    /\ sources' = FirstOf(Distinct(Rescored(scores')), TopK)
    /\ stage' = "analyse"
    /\ UNCHANGED <<reranker, at, excerpt, matches, candidates, finding>>

\* Mutant: the fallback forgets that candidates repeat articles.
AllCandidates == candidates

\* The fallback: the candidates in lexical order, one per article
Baseline == Distinct(candidates)

\* The model cannot be loaded, the call fails, a score is missing or not finite.
ScorerFails ==
    /\ stage = "rerank" /\ candidates # <<>>
    /\ IF reranker = "open"
       THEN sources' = FirstOf(Baseline, TopK) /\ stage' = "analyse"
       ELSE stage' = "failed" /\ UNCHANGED sources
    /\ UNCHANGED <<reranker, at, excerpt, matches, candidates, scores, finding>>

-----------------------------------------------------------------------------
(* _analysis *)

Above(number, limit) == number # Unknown /\ number > limit

ProbationSeverity(f) ==
    IF Above(f.days, 180) THEN "warning"
    ELSE IF f.days = Unknown \/ Above(f.days, 60) THEN "attention" ELSE "info"

\* Hours per week: stated, or five times the daily hours from Monday to Friday
WeeklyHours(f) ==
    IF f.weekly # Unknown THEN f.weekly
    ELSE IF f.daily # Unknown /\ f.fiveDays THEN f.daily * 5 ELSE Unknown

WorkingTimeSeverity(f) ==
    IF Above(f.daily, 10) \/ Above(WeeklyHours(f), 48) THEN "warning"
    ELSE IF Above(f.daily, 8) THEN "attention" ELSE "info"

FixedTerm(f) == f.months # Unknown /\ f.months \in 1..36

TerminationSeverity(f) ==
    IF f.notice # Unknown /\ f.notice < 30 /\ FixedTerm(f) THEN "warning" ELSE "attention"

SalarySeverity(f) == IF f.amount /\ f.payDate THEN "info" ELSE "attention"

Severity(k, f) ==
    CASE k = "probation" -> ProbationSeverity(f)
      [] k = "salary" -> SalarySeverity(f)
      [] k = "working_time" -> WorkingTimeSeverity(f)
      [] k = "termination" -> TerminationSeverity(f)

\* The numbers n of the markers [Sn] in the analysis
Markers == DOMAIN sources

Analyse ==
    /\ stage = "analyse"
    /\ finding' \in
        IF sources = <<>>
        THEN {[severity |-> "insufficient_evidence", status |-> "insufficient_evidence", cited |-> {}]}
        ELSE IF ~excerpt
        THEN {[severity |-> "attention", status |-> "insufficient_evidence", cited |-> Markers]}
        ELSE {[severity |-> Severity(Category, f), status |-> "supported", cited |-> Markers] :
                f \in Facts[Category]}
    /\ stage' = "next"
    /\ UNCHANGED <<reranker, at, excerpt, matches, candidates, scores, sources>>

NextCategory ==
    /\ stage = "next"
    /\ IF at < Len(Categories)
       THEN at' = at + 1 /\ stage' = "excerpt"
       ELSE stage' = "done" /\ UNCHANGED at
    /\ excerpt' = FALSE
    /\ matches' = <<>> /\ candidates' = <<>> /\ scores' = Unknown /\ sources' = <<>>
    /\ finding' = NoFinding
    /\ UNCHANGED reranker

DraftNext ==
    \/ Load \/ FindExcerpt \/ Retrieve \/ Rerank \/ ScorerFails \/ Analyse \/ NextCategory

DraftSpec == DraftInit /\ [][DraftNext]_draftVars

-----------------------------------------------------------------------------

Selected == stage = "next"

\* When the cross-encoder fails, the finding gets what it would get with the
\* cross-encoder switched off, or the beginning of it when the head of the
\* ranking holds too few articles.
FallbackKeepsOrder ==
    Selected /\ scores = Unknown =>
        /\ IsPrefix(sources, FirstOf(Distinct(matches), TopK))
        /\ Len(matches) <= PoolK => sources = FirstOf(Distinct(matches), TopK)

=============================================================================
