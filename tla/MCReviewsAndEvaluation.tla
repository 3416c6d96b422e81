------------------------ MODULE MCReviewsAndEvaluation ------------------------
(***************************************************************************)
(* The machines around an answer that share no state: the stored contract  *)
(* reviews, the evidence of one finding, the ranking for one question, and *)
(* the three programs that produce, review and apply evaluation labels.    *)
(* `machine' names the one a behaviour exercises.                          *)
(***************************************************************************)
EXTENDS ContractReviews, EvidenceSelection, HybridRanking, AnswerPanel, LabelReview,
        AnswerVerification, TLC

CONSTANTS r1, r2, r3, v1, v2, ann, bob

MCRequests == {r1, r2, r3}
MCUsers == {ann, bob}

Symmetry == Permutations(MCRequests) \cup Permutations(MCUsers)

MCPoints == [r \in Releases |->
    CASE r = "current" -> 1..4 [] r = "next" -> {1, 2, 5} [] OTHER -> {}]
MCScale == FoldFunction(LAMBDA a, b : a * b, 1, [i \in 1..CandidateK |-> RrfK + i])
MCDocuments == [c \in Chunks |-> IF c \in {1, 4} THEN "code" ELSE "decree"]

\* Passages 1 and 3 are of article a25, 2 and 4 of a26, of which 4 has its
\* code as a codification_code only; 5 has no code.
MCCodes == [c \in Passages |->
    CASE c \in {1, 3} -> "a25" [] c = 2 -> "a26" [] OTHER -> Unknown]
MCListings == [c \in Passages |-> IF c = 4 THEN "a26" ELSE Unknown]
MCPreferred == [k \in Range(Categories) |-> IF k = "salary" THEN {} ELSE {"a26"}]
MCCategories == <<"probation", "salary", "working_time", "termination">>
MCFacts == [k \in Range(Categories) |->
    CASE k = "probation" -> [days : {Unknown, 60, 61, 180, 181}]
      [] k = "salary" -> [amount : BOOLEAN, payDate : BOOLEAN]
      [] k = "working_time" -> [daily : {Unknown, 8, 9, 10, 11}, weekly : {Unknown, 48, 49}, fiveDays : BOOLEAN]
      [] OTHER -> [notice : {Unknown, 29, 30}, months : {Unknown, 0, 36, 37}]]

\* Models a and c come from one organisation; d2 has a case that d1 has not.
MCCasesOf == [d \in Datasets |-> IF d = "d2" THEN {"q1", "q2"} ELSE {"q1"}]
MCPanels == {<<"a", "b">>, <<"b", "a">>, <<"a", "c">>}
MCOrganization == ("a" :> "x") @@ ("b" :> "y") @@ ("c" :> "x")

\* "outside" cites a chunk that is not evidence; "moved" is supported by the
\* other content of the corpus only.
MCCitesOf == [l \in Labels |->
    CASE l = "none" -> {} [] l = "outside" -> {<<"k2", "a1">>}
      [] l = "moved" -> {<<"k1", "a2">>} [] OTHER -> {<<"k1", "a1">>}]
MCEvidenceOf == [q \in Cases |-> IF q = "q1" THEN {"k1"} ELSE {}]
MCArticlesOf == [q \in Cases |-> IF q = "q1" THEN {"a1", "a2"} ELSE {}]
MCArticleOf == [content \in Corpora |->
    ("k1" :> (IF content = "bound" THEN "a1" ELSE "a2")) @@ ("k2" :> "a1")]
MCAdjudications ==
    {[q \in Cases |-> IF q = "q1" THEN "claims" ELSE "none"], [q \in {"q1"} |-> "claims"]}

MCAsked == <<"q1", "q2", "q3">>
Response(ok, cited) ==
    [ok |-> ok, blocked |-> FALSE, failed |-> FALSE, answered |-> ok, sources |-> cited, hit |-> ok]
MCResponses == {Response(TRUE, "canonical"), Response(TRUE, "foreign"), Response(FALSE, "none")}

VARIABLE machine

vars_ == <<vars, draftVars, rankingVars, panelVars, labelVars, verifyVars, machine>>

\* The state of the machines that are not exercised
ReviewsIdle == stored = <<>> /\ gone = {} /\ owner = [v \in Reviews |-> None] /\ req = [r \in Requests |-> NoRequest]
DraftIdle == DraftInit /\ reranker = "off"
RankingIdle == RankingInit /\ serving = Expected

AllInit ==
    /\ machine \in {"reviews", "draft", "ranking", "panel", "labels", "verification"}
    /\ IF machine = "reviews" THEN Init ELSE ReviewsIdle
    /\ IF machine = "draft" THEN DraftInit ELSE DraftIdle
    /\ IF machine = "ranking" THEN RankingInit ELSE RankingIdle
    /\ PanelInit /\ LabelInit /\ VerifyInit

AllNext ==
    /\ UNCHANGED machine
    /\ \/ machine = "reviews" /\ Next
          /\ UNCHANGED <<draftVars, rankingVars, panelVars, labelVars, verifyVars>>
       \/ machine = "draft" /\ DraftNext
          /\ UNCHANGED <<vars, rankingVars, panelVars, labelVars, verifyVars>>
       \/ machine = "ranking" /\ RankingNext
          /\ UNCHANGED <<vars, draftVars, panelVars, labelVars, verifyVars>>
       \/ machine = "panel" /\ PanelNext
          /\ UNCHANGED <<vars, draftVars, rankingVars, labelVars, verifyVars>>
       \/ machine = "labels" /\ LabelNext
          /\ UNCHANGED <<vars, draftVars, rankingVars, panelVars, verifyVars>>
       \/ machine = "verification" /\ VerifyNext
          /\ UNCHANGED <<vars, draftVars, rankingVars, panelVars, labelVars>>

AllSpec == AllInit /\ [][AllNext]_vars_
=============================================================================
