---------------------- MODULE ReviewsAndEvaluationProofs ----------------------
(***************************************************************************)
(* Proofs about six components that share no state, each with an inductive  *)
(* invariant of its own: the stored contract reviews (ContractReviews), the *)
(* evidence of a review's findings (EvidenceSelection), the ranking of      *)
(* hybrid retrieval (HybridRanking), and the three programs of              *)
(* evaluation/answer_quality that keep their state in files: LabelReview,   *)
(* AnswerPanel and AnswerVerification, for any dataset, any panel and any   *)
(* answers, wherever a run is broken off.                                   *)
(***************************************************************************)
EXTENDS ContractReviews, EvidenceSelection, HybridRanking, AnswerPanel, LabelReview,
        AnswerVerification, SequenceTheorems, FiniteSetTheorems, FunctionTheorems,
        WellFoundedInduction, TLAPS

-----------------------------------------------------------------------------
(* The stored contract reviews: what an answer is put together from          *)

Pcs == {"idle", "upload", "commit", "row", "findings", "sources", "again", "respond",
        "count", "page", "page_findings", "select", "delete", "done"}

Tables ==
    /\ stored \in Seq(Reviews) /\ IsInjective(stored)
    /\ gone \subseteq Range(stored)
    /\ owner \in [Reviews -> Users \cup {None}] /\ \A v \in Range(stored) : owner[v] # None

Whole(q) == q.findings = {q.review} /\ q.sources

\* An answer to an upload or an opening, as far as it has been read: what is
\* missing was deleted, and an upload does not get past its second lookup then.
Reading(q) ==
    /\ q.pc \in {"findings", "sources", "again", "respond"} => q.review \in Range(stored)
    /\ q.pc = "sources" => q.findings = {q.review}
    /\ q.pc \in {"again", "respond"} \/ q.outcome = "ok" => Whole(q) \/ q.review \in gone
    /\ q.kind = "post" /\ (q.pc = "respond" \/ q.outcome = "ok") => Whole(q)

Listed(q) ==
    \A v \in q.all \ (gone \cup q.page) :
        Cardinality(q.page) = Limit /\ \A w \in q.page \ gone : Newer(w, v)

RequestOK(r, q) ==
    /\ q \in RequestStates
    /\ q.pc # "idle" => q.user \in Users
    /\ q.outcome = "ok" => q.pc = "done"
    /\ q.pc = "again" => q.kind = "post"
    /\ q.pc \in {"count", "page", "page_findings"} => q.kind = "list"
    /\ q.pc = "delete" => q.review \in Range(stored)
    /\ r \in Range(stored) => q.pc \notin {"idle", "upload", "commit"}
    /\ \A v \in q.all : v \in Range(stored) /\ owner[v] = q.user
    /\ q.kind \in {"post", "get"} => Reading(q)
    /\ q.kind = "list" /\ (q.pc \in {"page_findings", "respond"} \/ q.outcome = "ok") => Listed(q)

ReviewsInv ==
    /\ Tables
    /\ req \in [Requests -> RequestStates]
    /\ \A r \in Requests : RequestOK(r, req[r])

\* A step of request r only adds to the tables, and no review but its own.
Grown(r) ==
    /\ Tables'
    /\ Range(stored) \subseteq Range(stored') /\ Range(stored') \subseteq Range(stored) \cup {r}
    /\ gone \subseteq gone'
    /\ \A v \in Range(stored) : owner'[v] = owner[v]
    /\ \A w, v \in Reviews : Newer(w, v) => Newer(w, v)'

LEMMA OthersStay ==
    ASSUME NEW r, NEW x, Grown(r), x # r, NEW q, RequestOK(x, q)
    PROVE  RequestOK(x, q)'
<1>1. Reading(q) => Reading(q)'
    BY DEF Reading, Whole, Grown
<1>2. q.page \subseteq Reviews /\ q.all \subseteq Reviews
    BY DEF RequestOK, RequestStates
<1>3. Listed(q) => Listed(q)'
    BY <1>2 DEF Listed, Grown
<1>4. (q \in RequestStates)'
    BY DEF RequestOK, RequestStates, Reviews, ReviewOutcomes
<1> QED BY <1>1, <1>3, <1>4 DEF RequestOK, Grown

LEMMA SameRequest ==
    ASSUME NEW x, NEW q, q = req'[x], RequestOK(x, q)'
    PROVE  RequestOK(x, req[x])'
BY DEF RequestOK, Reading, Whole, Listed

LEMMA StepKeepsReviewsInv ==
    ASSUME ReviewsInv, NEW r \in Requests, Grown(r), NEW q, RequestOK(r, q)',
           req' = [req EXCEPT ![r] = q]
    PROVE  ReviewsInv'
<1>1. req' \in [Requests -> RequestStates]
  <2>1. q \in RequestStates
      BY DEF RequestOK
  <2> QED BY <2>1 DEF ReviewsInv
<1>2. ASSUME NEW x \in Requests PROVE RequestOK(x, req[x])'
  <2>1. CASE x = r
    <3>1. q = req'[r]
        BY DEF ReviewsInv
    <3> QED BY <2>1, <3>1, SameRequest
  <2>2. CASE x # r
    <3> PICK p : p = req[x]
        OBVIOUS
    <3>1. RequestOK(x, p)
        BY DEF ReviewsInv
    <3>2. RequestOK(x, p)'
        BY <2>2, <3>1, OthersStay
    <3>3. p = req'[x]
        BY <2>2 DEF ReviewsInv
    <3> QED BY <3>2, <3>3, SameRequest
  <2> QED BY <2>1, <2>2
<1> QED BY <1>1, <1>2 DEF ReviewsInv, Grown

LEMMA NothingStored == ASSUME ReviewsInv, NEW r, UNCHANGED rows PROVE Grown(r)
BY DEF ReviewsInv, Grown, Tables, rows, Newer

LEMMA ReviewStored ==
    ASSUME ReviewsInv, NEW r \in Requests, req[r].pc = "commit",
           stored' = Append(stored, r), owner' = [owner EXCEPT ![r] = Author(r)], UNCHANGED gone
    PROVE  Grown(r) /\ r \in Range(stored')
<1> PICK n : n = Len(stored)
    OBVIOUS
<1>1. /\ n \in Nat /\ DOMAIN stored = 1..n /\ DOMAIN stored' = 1..(n + 1)
      /\ stored' \in Seq(Reviews) /\ stored'[n + 1] = r /\ \A i \in 1..n : stored'[i] = stored[i]
  <2>1. stored \in Seq(Reviews) /\ r \in Reviews
      BY DEF ReviewsInv, Tables, Reviews
  <2>2. /\ stored' \in Seq(Reviews) /\ Len(stored') = n + 1 /\ stored'[n + 1] = r
        /\ \A i \in 1..n : stored'[i] = stored[i]
      BY <2>1, AppendProperties
  <2> QED BY <2>1, <2>2, LenProperties
<1>2. r \notin Range(stored) /\ Author(r) \in Users /\ Author(r) # None
    BY ReviewsAssumption DEF ReviewsInv, RequestOK, Author
<1>3. Range(stored') = Range(stored) \cup {r}
  <2>1. 1..(n + 1) = (1..n) \cup {n + 1}
      BY <1>1
  <2> QED BY <1>1, <2>1 DEF Range
<1>4. IsInjective(stored')
  <2> SUFFICES ASSUME NEW i \in 1..(n + 1), NEW j \in 1..(n + 1), stored'[i] = stored'[j] PROVE i = j
      BY <1>1 DEF IsInjective
  <2>1. i \in 1..n \/ i = n + 1
      BY <1>1
  <2>2. j \in 1..n \/ j = n + 1
      BY <1>1
  <2>3. \A k \in 1..n : stored[k] \in Range(stored)
      BY <1>1 DEF Range
  <2> QED BY <1>1, <1>2, <2>1, <2>2, <2>3 DEF ReviewsInv, Tables, IsInjective
<1>5. \A v \in Range(stored) : owner'[v] = owner[v]
  <2>1. Range(stored) \subseteq Reviews
      BY <1>1 DEF ReviewsInv, Tables, Range
  <2> QED BY <1>2, <2>1 DEF ReviewsInv, Tables
<1>6. Tables'
  <2>1. owner' \in [Reviews -> Users \cup {None}]
      BY <1>2 DEF ReviewsInv, Tables
  <2>2. owner'[r] = Author(r)
      BY DEF ReviewsInv, Tables, Reviews
  <2> QED BY <1>1, <1>2, <1>3, <1>4, <1>5, <2>1, <2>2 DEF Tables, ReviewsInv
<1>7. \A w, v \in Reviews : Newer(w, v) => Newer(w, v)'
  <2>1. ASSUME NEW w, NEW v, Newer(w, v) PROVE Newer(w, v)'
    <3>1. PICK i \in 1..n, j \in 1..n : i < j /\ stored[i] = v /\ stored[j] = w
        BY <1>1, <2>1 DEF Newer
    <3>2. i \in 1..(n + 1) /\ j \in 1..(n + 1)
        BY <1>1
    <3> QED BY <1>1, <3>1, <3>2 DEF Newer
  <2> QED BY <2>1
<1> QED BY <1>3, <1>5, <1>6, <1>7 DEF Grown

LEMMA ReviewDeleted ==
    ASSUME ReviewsInv, NEW r \in Requests, req[r].pc = "delete",
           gone' = gone \cup {req[r].review}, UNCHANGED <<stored, owner>>
    PROVE  Grown(r)
BY DEF ReviewsInv, RequestOK, Grown, Tables, Newer

-----------------------------------------------------------------------------
(* One handler at a time                                                     *)

LEMMA Moved ==
    ASSUME NEW s \in RequestStates, NEW pc \in Pcs, NEW q, q = [s EXCEPT !.pc = pc]
    PROVE  /\ q \in RequestStates /\ q.pc = pc
           /\ q.kind = s.kind /\ q.user = s.user /\ q.review = s.review /\ q.page = s.page
           /\ q.findings = s.findings /\ q.sources = s.sources /\ q.all = s.all /\ q.outcome = s.outcome
<1>1. q \in RequestStates
    BY ZenonT(30) DEF RequestStates, Pcs
<1> QED BY <1>1 DEF RequestStates

LEMMA Ended ==
    ASSUME NEW s \in RequestStates, NEW outcome \in ReviewOutcomes, NEW q, q = [s EXCEPT !.outcome = outcome]
    PROVE  /\ q \in RequestStates /\ q.outcome = outcome
           /\ q.kind = s.kind /\ q.user = s.user /\ q.pc = s.pc /\ q.review = s.review
           /\ q.page = s.page /\ q.findings = s.findings /\ q.sources = s.sources /\ q.all = s.all
<1>1. q \in RequestStates
    BY ZenonT(30) DEF RequestStates
<1> QED BY <1>1 DEF RequestStates

LEMMA FoundFindings ==
    ASSUME NEW s \in RequestStates, NEW found \in SUBSET Reviews, NEW q, q = [s EXCEPT !.findings = found]
    PROVE  /\ q \in RequestStates /\ q.findings = found
           /\ q.kind = s.kind /\ q.user = s.user /\ q.pc = s.pc /\ q.review = s.review
           /\ q.page = s.page /\ q.sources = s.sources /\ q.all = s.all /\ q.outcome = s.outcome
<1>1. q \in RequestStates
    BY ZenonT(30) DEF RequestStates
<1> QED BY <1>1 DEF RequestStates

LEMMA FoundSources ==
    ASSUME NEW s \in RequestStates, NEW found \in BOOLEAN, NEW q, q = [s EXCEPT !.sources = found]
    PROVE  /\ q \in RequestStates /\ q.sources = found
           /\ q.kind = s.kind /\ q.user = s.user /\ q.pc = s.pc /\ q.review = s.review
           /\ q.page = s.page /\ q.findings = s.findings /\ q.all = s.all /\ q.outcome = s.outcome
<1>1. q \in RequestStates
    BY ZenonT(30) DEF RequestStates
<1> QED BY <1>1 DEF RequestStates

\* A request that ends without an answer
LEMMA FailingKeepsReviewsInv ==
    ASSUME ReviewsInv, NEW r \in Requests, Grown(r), req[r].pc # "idle",
           NEW outcome \in ReviewOutcomes \ {"ok"}, Finish(r, outcome)
    PROVE  ReviewsInv'
<1> PICK s : s = req[r]
    OBVIOUS
<1>a. PICK p : p = [s EXCEPT !.pc = "done"]
    OBVIOUS
<1>b. PICK q : q = [p EXCEPT !.outcome = outcome]
    OBVIOUS
<1>1. s \in RequestStates /\ RequestOK(r, s)
    BY DEF ReviewsInv
<1>2. req' = [req EXCEPT ![r] = q]
  <2>1. q = [req[r] EXCEPT !.pc = "done", !.outcome = outcome]
      BY <1>a, <1>b
  <2> QED BY <2>1 DEF Finish
<1>3. /\ q \in RequestStates /\ q.pc = "done" /\ q.outcome = outcome
      /\ q.kind = s.kind /\ q.user = s.user /\ q.all = s.all
  <2>1. p \in RequestStates /\ p.pc = "done" /\ p.kind = s.kind /\ p.user = s.user /\ p.all = s.all
      BY <1>1, <1>a, Moved DEF Pcs
  <2>2. outcome \in ReviewOutcomes
      OBVIOUS
  <2> QED BY <1>b, <2>1, <2>2, Ended
<1>4. RequestOK(r, q)'
    BY <1>1, <1>3 DEF RequestOK, Reading, Grown
<1> QED BY <1>2, <1>4, StepKeepsReviewsInv

\* A request that goes on with what it has
LEMMA GoingOnKeepsReviewsInv ==
    ASSUME ReviewsInv, NEW r \in Requests, Grown(r), NEW s, s = req[r], NEW pc \in Pcs \ {"idle"},
           Goto(r, pc),
           s.pc # "idle" /\ (r \in Range(stored') => pc \notin {"upload", "commit"}),
           pc = "again" => s.kind = "post",
           pc \in {"count", "page", "page_findings"} => s.kind = "list",
           pc = "delete" => s.review \in Range(stored),
           s.outcome = "ok" => pc = "done",
           s.kind \in {"post", "get"} => Reading([s EXCEPT !.pc = pc]),
           s.kind = "list" /\ pc \in {"page_findings", "respond"} => Listed(s)
    PROVE  ReviewsInv'
<1> PICK q : q = [s EXCEPT !.pc = pc]
    OBVIOUS
<1>1. s \in RequestStates /\ RequestOK(r, s)
    BY DEF ReviewsInv
<1>2. req' = [req EXCEPT ![r] = q]
    BY DEF Goto
<1>3. /\ q \in RequestStates /\ q.pc = pc
      /\ q.kind = s.kind /\ q.user = s.user /\ q.review = s.review /\ q.page = s.page
      /\ q.findings = s.findings /\ q.sources = s.sources /\ q.all = s.all /\ q.outcome = s.outcome
    BY <1>1, Moved
<1>4. q.kind \in {"post", "get"} => Reading(q)'
  <2>1. q.kind \in {"post", "get"} => Reading(q)
      BY <1>3
  <2> QED BY <2>1 DEF Reading, Whole, Grown
<1>5. q.kind = "list" /\ (pc \in {"page_findings", "respond"} \/ q.outcome = "ok") => Listed(q)'
  <2>1. q.kind = "list" /\ (pc \in {"page_findings", "respond"} \/ q.outcome = "ok") => Listed(s)
      BY <1>1, <1>3 DEF RequestOK
  <2>2. s.page \subseteq Reviews /\ s.all \subseteq Reviews
      BY <1>1 DEF RequestStates
  <2>3. Listed(s) => Listed(q)'
      BY <1>3, <2>2 DEF Listed, Grown
  <2> QED BY <2>1, <2>3
<1>6. RequestOK(r, q)'
    BY <1>1, <1>3, <1>4, <1>5 DEF RequestOK, Grown
<1> QED BY <1>2, <1>6, StepKeepsReviewsInv

LEMMA ArriveKeepsReviewsInv ==
    ASSUME ReviewsInv, NEW r \in Requests, NEW v \in Reviews \cup {None}, NEW kind, NEW pc,
           <<kind, pc>> \in {<<"post", "upload">>, <<"get", "row">>, <<"list", "count">>, <<"delete", "select">>},
           Arrive(r, kind, pc, v)
    PROVE  ReviewsInv'
<1>1. PICK u \in Users :
          req' = [req EXCEPT ![r] = NewRequest(kind, u, pc, v, OwnedBy(u))]
    BY DEF Arrive
<1> PICK all : all = OwnedBy(u)
    OBVIOUS
<1>2. /\ all \subseteq Range(stored) /\ \A w \in all : owner[w] = u
      /\ Range(stored) \subseteq Reviews
    BY DEF OwnedBy, Live, ReviewsInv, Tables, Range
<1> PICK q : q = NewRequest(kind, u, pc, v, all)
    OBVIOUS
<1>3. req' = [req EXCEPT ![r] = q]
    BY <1>1
<1>4. /\ q.kind = kind /\ q.user = u /\ q.pc = pc /\ q.all = all /\ q.outcome = None /\ None # "ok"
      /\ q \in RequestStates
    BY <1>2, ReviewsAssumption DEF NewRequest, RequestStates, ReviewOutcomes
<1>5. Grown(r) /\ r \notin Range(stored) /\ UNCHANGED rows
    BY NothingStored DEF Arrive, ReviewsInv, RequestOK
<1>6. RequestOK(r, q)'
    BY <1>2, <1>4, <1>5 DEF RequestOK, Reading, rows
<1> QED BY <1>3, <1>5, <1>6, StepKeepsReviewsInv

LEMMA DraftKeepsReviewsInv == ASSUME ReviewsInv, NEW r \in Requests, Draft(r) PROVE ReviewsInv'
<1> PICK s : s = req[r]
    OBVIOUS
<1>1. /\ Grown(r) /\ RequestOK(r, s) /\ s \in RequestStates /\ s.kind = "post" /\ s.pc = "upload"
      /\ r \notin Range(stored') /\ s.outcome # "ok"
    BY NothingStored DEF Draft, ReviewsInv, RequestOK, rows
<1>2. CASE Finish(r, "refused")
    BY <1>1, <1>2, FailingKeepsReviewsInv DEF ReviewOutcomes
<1>3. CASE Goto(r, "commit")
  <2> PICK q : q = [s EXCEPT !.pc = "commit"]
      OBVIOUS
  <2>1. q.pc = "commit" /\ q.outcome = s.outcome
      BY <1>1, Moved DEF Pcs
  <2>2. Reading(q)
      BY <1>1, <2>1 DEF Reading
  <2> QED BY <1>1, <1>3, <2>2, GoingOnKeepsReviewsInv DEF Pcs
<1> QED BY <1>2, <1>3 DEF Draft

LEMMA CommitKeepsReviewsInv == ASSUME ReviewsInv, NEW r \in Requests, Commit(r) PROVE ReviewsInv'
<1> PICK s : s = req[r]
    OBVIOUS
<1>1. /\ Grown(r) /\ RequestOK(r, s) /\ s \in RequestStates /\ s.kind = "post" /\ s.pc = "commit"
      /\ s.outcome # "ok"
    BY ReviewStored DEF Commit, ReviewsInv, RequestOK
<1> PICK q : q = [s EXCEPT !.pc = "row"]
    OBVIOUS
<1>2. q.pc = "row" /\ q.outcome = s.outcome
    BY <1>1, Moved DEF Pcs
<1>3. Reading(q)
    BY <1>1, <1>2 DEF Reading
<1>4. Goto(r, "row")
    BY DEF Commit
<1> QED BY <1>1, <1>3, <1>4, GoingOnKeepsReviewsInv DEF Pcs

LEMMA ReadRowKeepsReviewsInv == ASSUME ReviewsInv, NEW r \in Requests, ReadRow(r) PROVE ReviewsInv'
<1> PICK s : s = req[r]
    OBVIOUS
<1>1. /\ Grown(r) /\ RequestOK(r, s) /\ s \in RequestStates /\ s.kind \in {"post", "get"} /\ s.pc = "row"
      /\ s.outcome # "ok"
    BY NothingStored DEF ReadRow, ReviewsInv, RequestOK
<1>2. CASE req[r].review \in Visible(r)
  <2> PICK q : q = [s EXCEPT !.pc = "findings"]
      OBVIOUS
  <2>1. q.pc = "findings" /\ q.outcome = s.outcome /\ q.review = s.review
      BY <1>1, Moved DEF Pcs
  <2>2. Reading(q)
      BY <1>1, <1>2, <2>1 DEF Reading, Visible, OwnedBy, Live
  <2>3. Goto(r, "findings")
      BY <1>2 DEF ReadRow
  <2> QED BY <1>1, <2>2, <2>3, GoingOnKeepsReviewsInv DEF Pcs
<1>3. CASE req[r].review \notin Visible(r)
  <2>1. Finish(r, NotFound(r)) /\ NotFound(r) \in ReviewOutcomes \ {"ok"}
      BY <1>3 DEF ReadRow, NotFound, ReviewOutcomes
  <2> QED BY <1>1, <2>1, FailingKeepsReviewsInv
<1> QED BY <1>2, <1>3

LEMMA ReadFindingsKeepsReviewsInv ==
    ASSUME ReviewsInv, NEW r \in Requests, ReadFindings(r) PROVE ReviewsInv'
<1>0. PICK s, found, next, pc :
        /\ s = req[r] /\ found = {s.review} \cap Live
        /\ next = IF s.kind = "post" THEN "again" ELSE "respond"
        /\ pc = IF found = {} THEN next ELSE "sources"
    OBVIOUS
<1>1. /\ Grown(r) /\ RequestOK(r, s) /\ s \in RequestStates /\ s.kind \in {"post", "get"} /\ s.pc = "findings"
      /\ s.outcome # "ok" /\ UNCHANGED rows
    BY <1>0, NothingStored DEF ReadFindings, ReviewsInv, RequestOK
<1>2. s.review \in Range(stored) /\ Range(stored) \subseteq Reviews /\ found \in SUBSET Reviews
    BY <1>0, <1>1 DEF RequestOK, Reading, Live, ReviewsInv, Tables, Range
<1>a. PICK p : p = [s EXCEPT !.pc = pc]
    OBVIOUS
<1>b. PICK q : q = [p EXCEPT !.findings = found]
    OBVIOUS
<1>3. req' = [req EXCEPT ![r] = q]
  <2>1. q = [req[r] EXCEPT !.pc = pc, !.findings = found]
      BY <1>0, <1>a, <1>b
  <2> QED BY <1>0, <2>1 DEF ReadFindings
<1>4. /\ q \in RequestStates /\ q.pc = pc /\ q.findings = found
      /\ q.kind = s.kind /\ q.user = s.user /\ q.review = s.review
      /\ q.all = s.all /\ q.outcome = s.outcome
  <2>1. pc \in Pcs
      BY <1>0 DEF Pcs
  <2>2. /\ p \in RequestStates /\ p.pc = pc /\ p.kind = s.kind /\ p.user = s.user
        /\ p.review = s.review /\ p.all = s.all /\ p.outcome = s.outcome
      BY <1>1, <1>a, <2>1, Moved
  <2> QED BY <1>2, <1>b, <2>2, FoundFindings
<1>5. Reading(q)
  <2>1. CASE found = {}
    <3>1. s.review \in gone
        BY <1>0, <1>2, <2>1 DEF Live
    <3> QED BY <1>0, <1>1, <1>2, <1>4, <2>1, <3>1 DEF Reading
  <2>2. CASE found # {}
      BY <1>0, <1>1, <1>2, <1>4, <2>2 DEF Reading
  <2> QED BY <2>1, <2>2
<1>6. Reading(q)'
    BY <1>1, <1>5 DEF Reading, Whole, rows
<1>7. RequestOK(r, q)'
    BY <1>0, <1>1, <1>4, <1>6 DEF RequestOK, rows
<1> QED BY <1>1, <1>3, <1>7, StepKeepsReviewsInv

LEMMA ReadSourcesKeepsReviewsInv ==
    ASSUME ReviewsInv, NEW r \in Requests, ReadSources(r) PROVE ReviewsInv'
<1>0. PICK s, found, pc :
        /\ s = req[r] /\ found = (s.review \in Live)
        /\ pc = IF s.kind = "post" THEN "again" ELSE "respond"
    OBVIOUS
<1>1. /\ Grown(r) /\ RequestOK(r, s) /\ s \in RequestStates /\ s.kind \in {"post", "get"} /\ s.pc = "sources"
      /\ s.outcome # "ok" /\ UNCHANGED rows
    BY <1>0, NothingStored DEF ReadSources, ReviewsInv, RequestOK
<1>2. s.review \in Range(stored) /\ s.findings = {s.review}
    BY <1>1 DEF RequestOK, Reading
<1>a. PICK p : p = [s EXCEPT !.pc = pc]
    OBVIOUS
<1>b. PICK q : q = [p EXCEPT !.sources = found]
    OBVIOUS
<1>3. req' = [req EXCEPT ![r] = q]
  <2>1. q = [req[r] EXCEPT !.pc = pc, !.sources = found]
      BY <1>0, <1>a, <1>b
  <2> QED BY <1>0, <2>1 DEF ReadSources
<1>4. /\ q \in RequestStates /\ q.pc = pc /\ q.sources = found
      /\ q.kind = s.kind /\ q.user = s.user /\ q.review = s.review
      /\ q.findings = s.findings /\ q.all = s.all /\ q.outcome = s.outcome
  <2>1. pc \in Pcs /\ found \in BOOLEAN
      BY <1>0 DEF Pcs
  <2>2. /\ p \in RequestStates /\ p.pc = pc /\ p.kind = s.kind /\ p.user = s.user
        /\ p.review = s.review /\ p.findings = s.findings /\ p.all = s.all /\ p.outcome = s.outcome
      BY <1>1, <1>a, <2>1, Moved
  <2> QED BY <1>b, <2>1, <2>2, FoundSources
<1>5. Reading(q)
  <2>1. CASE found
      BY <1>0, <1>1, <1>2, <1>4, <2>1 DEF Reading, Whole
  <2>2. CASE ~found
    <3>1. q.review \in gone
        BY <1>0, <1>2, <1>4, <2>2 DEF Live
    <3> QED BY <1>0, <1>1, <1>2, <1>4, <3>1 DEF Reading
  <2> QED BY <2>1, <2>2
<1>6. Reading(q)'
    BY <1>1, <1>5 DEF Reading, Whole, rows
<1>7. RequestOK(r, q)'
    BY <1>0, <1>1, <1>4, <1>6 DEF RequestOK, rows
<1> QED BY <1>1, <1>3, <1>7, StepKeepsReviewsInv

LEMMA ReadAgainKeepsReviewsInv == ASSUME ReviewsInv, NEW r \in Requests, ReadAgain(r) PROVE ReviewsInv'
<1> PICK s : s = req[r]
    OBVIOUS
<1>1. /\ Grown(r) /\ RequestOK(r, s) /\ s \in RequestStates /\ s.kind = "post" /\ s.pc = "again"
      /\ s.outcome # "ok" /\ Reading(s)
    BY NothingStored DEF ReadAgain, ReviewsInv, RequestOK
<1>2. CASE StillThere(r)
  <2> PICK q : q = [s EXCEPT !.pc = "respond"]
      OBVIOUS
  <2>1. /\ q.pc = "respond" /\ q.outcome = s.outcome /\ q.review = s.review
        /\ q.findings = s.findings /\ q.sources = s.sources
      BY <1>1, Moved DEF Pcs
  <2>2. Reading(q)
      BY <1>1, <1>2, <2>1 DEF Reading, Whole, StillThere, Visible, OwnedBy, Live
  <2>3. Goto(r, "respond")
      BY <1>2 DEF ReadAgain
  <2> QED BY <1>1, <2>2, <2>3, GoingOnKeepsReviewsInv DEF Pcs
<1>3. CASE ~StillThere(r)
  <2>1. Finish(r, NotFound(r)) /\ NotFound(r) \in ReviewOutcomes \ {"ok"}
      BY <1>3 DEF ReadAgain, NotFound, ReviewOutcomes
  <2> QED BY <1>1, <2>1, FailingKeepsReviewsInv
<1> QED BY <1>2, <1>3

\* A page that leaves out a review of its user's is full, and of newer ones.
LEMMA PageIsFull ==
    ASSUME ReviewsInv, NEW r \in Requests, NEW chosen, IsPage(r, chosen), NEW v \in Visible(r), v \notin chosen
    PROVE  Cardinality(chosen) = Limit /\ \A w \in chosen : Newer(w, v)
<1>1. IsFiniteSet(Visible(r))
  <2> PICK n : n = Len(stored)
      OBVIOUS
  <2>1. n \in Nat /\ stored \in [1..n -> Range(stored)] /\ IsFiniteSet(1..n)
    <3>1. n \in Nat /\ DOMAIN stored = 1..n /\ stored = [i \in 1..n |-> stored[i]]
        BY LenProperties DEF ReviewsInv, Tables
    <3>2. IsFiniteSet(1..n)
        BY <3>1, FS_Interval
    <3> QED BY <3>1, <3>2 DEF Range
  <2>2. stored \in Surjection(1..n, Range(stored))
      BY <2>1 DEF Surjection, Range
  <2>3. IsFiniteSet(Range(stored))
      BY <2>1, <2>2, FS_Surjection
  <2>4. Visible(r) \in SUBSET Range(stored)
      BY DEF Visible, OwnedBy, Live
  <2> QED BY <2>3, <2>4, FS_Subset
<1>2. chosen \in SUBSET Visible(r) /\ chosen # Visible(r)
    BY DEF IsPage
<1>3. Cardinality(chosen) # Cardinality(Visible(r))
    BY <1>1, <1>2, FS_Subset
<1> QED BY <1>2, <1>3 DEF IsPage

LEMMA ReadPageKeepsReviewsInv == ASSUME ReviewsInv, NEW r \in Requests, ReadPage(r) PROVE ReviewsInv'
<1> PICK s : s = req[r]
    OBVIOUS
<1>1. /\ Grown(r) /\ RequestOK(r, s) /\ s \in RequestStates /\ s.kind = "list" /\ s.pc = "page"
      /\ s.outcome # "ok" /\ UNCHANGED rows
    BY NothingStored DEF ReadPage, ReviewsInv, RequestOK
<1>2. PICK chosen \in SUBSET Visible(r) :
          /\ IsPage(r, chosen)
          /\ req' = [req EXCEPT ![r].pc = IF chosen = {} THEN "respond" ELSE "page_findings",
                                ![r].page = chosen]
    BY DEF ReadPage
<1>0. PICK pc : pc = IF chosen = {} THEN "respond" ELSE "page_findings"
    OBVIOUS
<1>a. PICK p : p = [s EXCEPT !.pc = pc]
    OBVIOUS
<1>b. PICK q : q = [p EXCEPT !.page = chosen]
    OBVIOUS
<1>3. req' = [req EXCEPT ![r] = q]
  <2>1. q = [req[r] EXCEPT !.pc = pc, !.page = chosen]
      BY <1>a, <1>b
  <2> QED BY <1>0, <1>2, <2>1
<1>4. chosen \in SUBSET Reviews
    BY <1>2 DEF Visible, OwnedBy, Live, ReviewsInv, Tables, Range
<1>5. /\ q \in RequestStates /\ q.pc = pc /\ q.page = chosen
      /\ q.kind = s.kind /\ q.user = s.user /\ q.review = s.review
      /\ q.all = s.all /\ q.outcome = s.outcome
  <2>1. pc \in Pcs
      BY <1>0 DEF Pcs
  <2>2. /\ p \in RequestStates /\ p.pc = pc /\ p.kind = s.kind /\ p.user = s.user
        /\ p.review = s.review /\ p.all = s.all /\ p.outcome = s.outcome
      BY <1>1, <1>a, <2>1, Moved
  <2>3. /\ q \in RequestStates /\ q.page = chosen
        /\ q.kind = p.kind /\ q.user = p.user /\ q.pc = p.pc /\ q.review = p.review
        /\ q.all = p.all /\ q.outcome = p.outcome
    <3>1. p \in RequestStates
        BY <2>2
    <3>2. q \in RequestStates
        BY <1>4, <1>b, <3>1, ZenonT(30) DEF RequestStates
    <3> QED BY <1>b, <3>1, <3>2 DEF RequestStates
  <2> QED BY <2>2, <2>3
<1>6. Listed(q)
  <2>1. ASSUME NEW v \in s.all, v \notin gone, v \notin chosen
        PROVE  Cardinality(chosen) = Limit /\ \A w \in chosen : Newer(w, v)
    <3>1. v \in Visible(r)
        BY <1>1, <2>1 DEF RequestOK, Visible, OwnedBy, Live
    <3> QED BY <1>2, <2>1, <3>1, PageIsFull
  <2> QED BY <1>5, <2>1 DEF Listed
<1>7. Listed(q)'
    BY <1>1, <1>6 DEF Listed, Newer, rows
<1>8. RequestOK(r, q)'
    BY <1>0, <1>1, <1>5, <1>7 DEF RequestOK, rows
<1> QED BY <1>1, <1>3, <1>8, StepKeepsReviewsInv

LEMMA ReadPageFindingsKeepsReviewsInv ==
    ASSUME ReviewsInv, NEW r \in Requests, ReadPageFindings(r) PROVE ReviewsInv'
<1>0. PICK s, found : s = req[r] /\ found = s.page \cap Live
    OBVIOUS
<1>1. /\ Grown(r) /\ RequestOK(r, s) /\ s \in RequestStates /\ s.kind = "list" /\ s.pc = "page_findings"
      /\ s.outcome # "ok" /\ Listed(s) /\ UNCHANGED rows
    BY <1>0, NothingStored DEF ReadPageFindings, ReviewsInv, RequestOK
<1>a. PICK p : p = [s EXCEPT !.pc = "respond"]
    OBVIOUS
<1>b. PICK q : q = [p EXCEPT !.findings = found]
    OBVIOUS
<1>2. req' = [req EXCEPT ![r] = q]
  <2>1. q = [req[r] EXCEPT !.pc = "respond", !.findings = req[r].page \cap Live]
      BY <1>0, <1>a, <1>b
  <2> QED BY <2>1 DEF ReadPageFindings
<1>3. /\ q \in RequestStates /\ q.pc = "respond" /\ q.page = s.page
      /\ q.kind = s.kind /\ q.user = s.user /\ q.review = s.review
      /\ q.all = s.all /\ q.outcome = s.outcome
  <2>1. found \in SUBSET Reviews
      BY <1>0, <1>1 DEF RequestStates
  <2>2. /\ p \in RequestStates /\ p.pc = "respond" /\ p.kind = s.kind /\ p.user = s.user
        /\ p.review = s.review /\ p.page = s.page /\ p.all = s.all /\ p.outcome = s.outcome
      BY <1>1, <1>a, Moved DEF Pcs
  <2> QED BY <1>b, <2>1, <2>2, FoundFindings
<1>4. Listed(q)'
    BY <1>1, <1>3 DEF Listed, Newer, rows
<1>5. RequestOK(r, q)'
    BY <1>1, <1>3, <1>4 DEF RequestOK, rows
<1> QED BY <1>1, <1>2, <1>5, StepKeepsReviewsInv

\* The end of an answered request
LEMMA AnsweringKeepsReviewsInv ==
    ASSUME ReviewsInv, NEW r \in Requests, Grown(r), NEW s, s = req[r], Finish(r, "ok"),
           \/ s.pc = "respond"
           \/ s.kind = "delete" /\ s.pc = "delete"
    PROVE  ReviewsInv'
<1>1. RequestOK(r, s) /\ s \in RequestStates
    BY DEF ReviewsInv
<1>a. PICK p : p = [s EXCEPT !.pc = "done"]
    OBVIOUS
<1>b. PICK q : q = [p EXCEPT !.outcome = "ok"]
    OBVIOUS
<1>2. req' = [req EXCEPT ![r] = q]
  <2>1. q = [req[r] EXCEPT !.pc = "done", !.outcome = "ok"]
      BY <1>a, <1>b
  <2> QED BY <2>1 DEF Finish
<1>3. /\ q \in RequestStates /\ q.pc = "done" /\ q.outcome = "ok"
      /\ q.kind = s.kind /\ q.user = s.user /\ q.review = s.review /\ q.page = s.page
      /\ q.findings = s.findings /\ q.sources = s.sources /\ q.all = s.all
  <2>1. /\ p \in RequestStates /\ p.pc = "done"
        /\ p.kind = s.kind /\ p.user = s.user /\ p.review = s.review /\ p.page = s.page
        /\ p.findings = s.findings /\ p.sources = s.sources /\ p.all = s.all
      BY <1>1, <1>a, Moved DEF Pcs
  <2> QED BY <1>b, <2>1, Ended DEF ReviewOutcomes
<1>4. q.kind \in {"post", "get"} => Reading(q)'
  <2>1. q.kind \in {"post", "get"} => Reading(q)
      BY <1>1, <1>3 DEF RequestOK, Reading, Whole
  <2> QED BY <2>1 DEF Reading, Whole, Grown
<1>5. q.kind = "list" => Listed(q)'
  <2>1. q.page \subseteq Reviews /\ q.all \subseteq Reviews
      BY <1>3 DEF RequestStates
  <2>2. q.kind = "list" => Listed(q)
      BY <1>1, <1>3 DEF RequestOK, Listed
  <2> QED BY <2>1, <2>2 DEF Listed, Grown
<1>6. RequestOK(r, q)'
    BY <1>1, <1>3, <1>4, <1>5 DEF RequestOK, Grown
<1> QED BY <1>2, <1>6, StepKeepsReviewsInv

LEMMA QuietStepsKeepReviewsInv ==
    ASSUME ReviewsInv, NEW r \in Requests, Respond(r) \/ Count(r) \/ Select(r) \/ Delete(r)
    PROVE  ReviewsInv'
<1> PICK s : s = req[r]
    OBVIOUS
<1>1. RequestOK(r, s) /\ s \in RequestStates
    BY DEF ReviewsInv
<1>2. CASE Respond(r)
    BY <1>2, NothingStored, AnsweringKeepsReviewsInv DEF Respond
<1>3. CASE Count(r)
  <2>1. /\ Grown(r) /\ s.kind = "list" /\ s.pc = "count" /\ s.outcome # "ok" /\ Goto(r, "page")
      BY <1>1, <1>3, NothingStored DEF Count, RequestOK
  <2> QED BY <1>1, <2>1, GoingOnKeepsReviewsInv DEF Pcs
<1>4. CASE Select(r)
  <2>1. Grown(r) /\ s.pc = "select" /\ s.outcome # "ok"
      BY <1>1, <1>4, NothingStored DEF Select, RequestOK
  <2>2. CASE req[r].review \in Visible(r)
    <3>1. s.review \in Range(stored) /\ Goto(r, "delete")
        BY <1>4, <2>2 DEF Select, Visible, OwnedBy, Live
    <3> PICK q : q = [s EXCEPT !.pc = "delete"]
        OBVIOUS
    <3>2. q.pc = "delete" /\ q.outcome = s.outcome
        BY <1>1, Moved DEF Pcs
    <3>3. Reading(q)
        BY <2>1, <3>2 DEF Reading
    <3> QED BY <1>1, <2>1, <3>1, <3>3, GoingOnKeepsReviewsInv DEF Pcs
  <2>3. CASE req[r].review \notin Visible(r)
      BY <1>4, <2>1, <2>3, FailingKeepsReviewsInv DEF Select, ReviewOutcomes
  <2> QED BY <2>2, <2>3
<1>5. CASE Delete(r)
    BY <1>5, ReviewDeleted, AnsweringKeepsReviewsInv DEF Delete
<1> QED BY <1>2, <1>3, <1>4, <1>5

LEMMA LostKeepsReviewsInv == ASSUME ReviewsInv, NEW r \in Requests, Lost(r) PROVE ReviewsInv'
<1>1. Grown(r)
    BY NothingStored, ReviewStored, ReviewDeleted DEF Lost
<1>2. Finish(r, "unavailable") /\ req[r].pc # "idle" /\ "unavailable" \in ReviewOutcomes \ {"ok"}
    BY DEF Lost, Finish, ReviewOutcomes
<1> QED BY <1>1, <1>2, FailingKeepsReviewsInv

LEMMA InitReviewsInv == Init => ReviewsInv
<1> SUFFICES ASSUME Init PROVE ReviewsInv
    OBVIOUS
<1> PICK n : n = Cardinality(OldReviews)
    OBVIOUS
<1>1. /\ n \in Nat /\ stored \in [1..n -> OldReviews] /\ gone = {}
      /\ \A i, j \in 1..n : i # j => stored[i] # stored[j]
    BY ReviewsAssumption, FS_CardinalityType DEF Init, SetToSeqs
<1>2. stored \in Seq(Reviews) /\ Range(stored) \subseteq OldReviews /\ IsInjective(stored)
    BY <1>1 DEF Reviews, Range, IsInjective
<1>3. Tables
  <2>1. owner \in [Reviews -> Users \cup {None}] /\ \A v \in Range(stored) : owner[v] # None
      BY <1>2, ReviewsAssumption DEF Init, Reviews
  <2> QED BY <1>1, <1>2, <2>1 DEF Tables
<1> PICK q : q = NoRequest
    OBVIOUS
<1>4. /\ q \in RequestStates /\ q.pc = "idle" /\ q.kind = None /\ q.all = {} /\ q.outcome = None
      /\ None # "ok"
  <2>1. /\ q \in RequestStates /\ q.pc = "idle" /\ q.kind = None /\ q.all = {} /\ q.outcome = None
      BY DEF NoRequest, NewRequest, RequestStates
  <2> QED BY <2>1, ReviewsAssumption DEF ReviewOutcomes
<1>5. req \in [Requests -> RequestStates]
    BY <1>4 DEF Init
<1>6. ASSUME NEW r \in Requests PROVE RequestOK(r, req[r])
  <2>1. r \notin Range(stored)
      BY <1>2, ReviewsAssumption
  <2>2. RequestOK(r, q)
      BY <1>4, <2>1 DEF RequestOK, Reading
  <2> QED BY <2>2 DEF Init
<1> QED BY <1>3, <1>5, <1>6 DEF ReviewsInv

LEMMA NextKeepsReviewsInv == ASSUME ReviewsInv, [Next]_vars PROVE ReviewsInv'
<1>1. CASE UNCHANGED vars
    BY <1>1 DEF vars, ReviewsInv, Tables, RequestOK, Reading, Whole, Listed, Newer
<1>2. CASE Next
  <2>1. PICK r \in Requests :
            \/ PostArrives(r) \/ GetArrives(r) \/ ListArrives(r) \/ DeleteArrives(r)
            \/ Handle(r) \/ Lost(r)
      BY <1>2 DEF Next
  <2>2. CASE PostArrives(r) \/ GetArrives(r) \/ ListArrives(r) \/ DeleteArrives(r)
      BY <2>2, ArriveKeepsReviewsInv DEF PostArrives, GetArrives, ListArrives, DeleteArrives, Reviews
  <2>3. CASE Handle(r)
      BY <2>3, DraftKeepsReviewsInv, CommitKeepsReviewsInv, ReadRowKeepsReviewsInv,
          ReadFindingsKeepsReviewsInv, ReadSourcesKeepsReviewsInv, ReadAgainKeepsReviewsInv,
          ReadPageKeepsReviewsInv, ReadPageFindingsKeepsReviewsInv, QuietStepsKeepReviewsInv DEF Handle
  <2> QED BY <2>1, <2>2, <2>3, LostKeepsReviewsInv
<1> QED BY <1>1, <1>2

THEOREM ReviewsInvariance == Spec => []ReviewsInv
BY InitReviewsInv, NextKeepsReviewsInv, PTL DEF Spec

\* The tables and the requests of the contract reviews keep their types.
THEOREM ReviewsTyped == Spec => []TypeOK
<1>1. ReviewsInv => TypeOK
    BY DEF ReviewsInv, Tables, TypeOK
<1> QED BY <1>1, ReviewsInvariance, PTL

\* An upload is answered with the whole report, an opening misses a part only of
\* a review that is deleted, and a list leaves out only what newer reviews push
\* off its page, whatever is stored and deleted between the statements
\* (api/routes/contract_reviews.py).
THEOREM AnswersStayTrue == Spec => []AnswersHold
<1>1. ASSUME ReviewsInv PROVE ReportsAreWhole
    BY <1>1 DEF ReviewsInv, RequestOK, Reading, Whole, ReportsAreWhole, Answered
<1>2. ASSUME ReviewsInv PROVE ListMissesNothing
    BY <1>2 DEF ReviewsInv, RequestOK, Listed, ListMissesNothing, Answered
<1>3. ReviewsInv => AnswersHold
    BY <1>1, <1>2 DEF AnswersHold
<1> QED BY <1>3, ReviewsInvariance, PTL

-----------------------------------------------------------------------------
(* Hybrid ranking: one release, and who may overtake whom                    *)

IsRanking(s) ==
    /\ DOMAIN s \subseteq PointsOf[Expected]
    /\ \A c \in DOMAIN s : s[c] \in Nat \ {0}

RankingInv ==
    /\ serving \in Releases
    /\ step \in {"sparse", "embed", "dense", "fuse", "select", "done", "failed"}
    /\ IsRanking(sparse) /\ IsRanking(dense)
    /\ step \in {"select", "done"} => pool = FusedPool
    /\ step = "done" => context = SelectedContext

LEMMA RankingsRank ==
    ASSUME NEW S, NEW n, NEW s \in Rankings(S, n)
    PROVE  DOMAIN s \subseteq S /\ \A c \in DOMAIN s : s[c] \in Nat \ {0}
<1>1. PICK T \in SUBSET S : s \in Bijection(T, 1..Cardinality(T))
    BY DEF Rankings
<1>2. s \in [T -> 1..Cardinality(T)]
    BY <1>1 DEF Bijection, Injection
<1>3. 1..Cardinality(T) \subseteq Nat \ {0}
    OBVIOUS
<1> QED BY <1>2, <1>3

LEMMA SameFusion == ASSUME UNCHANGED <<sparse, dense>> PROVE FusedPool' = FusedPool
BY DEF FusedPool, Fused, FusedPlace, FusedBefore, FusedScore, BestRank, Term

LEMMA SameSelection ==
    ASSUME UNCHANGED <<sparse, dense, pool>> PROVE SelectedContext' = SelectedContext
BY DEF SelectedContext, SelectedPlace, SelectedBefore, SelectionScore, Boost, Votes, FusedScore, Term

LEMMA RankingNextKeepsRankingInv == ASSUME RankingInv, [RankingNext]_rankingVars PROVE RankingInv'
<1>1. CASE Activate \/ Embed \/ DenseFails \/ UNCHANGED rankingVars
  <2>1. /\ UNCHANGED <<sparse, dense, pool, context>> /\ serving' \in Releases
        /\ step' = step \/ step' \in {"dense", "failed"}
      BY <1>1 DEF RankingInv, Activate, Embed, DenseFails, rankingVars
  <2> QED BY <2>1, SameFusion, SameSelection DEF RankingInv, IsRanking
<1>2. CASE SearchSparse
  <2>1. IsRanking(sparse')
      BY <1>2, RankingsRank DEF SearchSparse, SparseRankings, IsRanking
  <2> QED BY <1>2, <2>1 DEF SearchSparse, RankingInv, IsRanking
<1>3. CASE SearchDense
  <2>1. CASE FingerprintsMatch
    <3>1. dense' \in Rankings(PointsOf[serving], CandidateK) /\ PointsOf[serving] \subseteq PointsOf[Expected]
      <4>1. dense' \in DenseRankings[serving] /\ serving \in Releases
          BY <1>3, <2>1, RankingAssumption DEF SearchDense, FingerprintsMatch, RankingInv
      <4> QED BY <2>1, <4>1 DEF DenseRankings, FingerprintsMatch
    <3>2. IsRanking(dense')
        BY <3>1, RankingsRank DEF IsRanking
    <3> QED BY <1>3, <2>1, <3>2 DEF SearchDense, RankingInv, IsRanking
  <2>2. CASE ~FingerprintsMatch
      BY <1>3, <2>2 DEF SearchDense, RankingInv, IsRanking
  <2> QED BY <2>1, <2>2
<1>4. CASE Fuse
    BY <1>4, SameFusion DEF Fuse, RankingInv, IsRanking
<1>5. CASE SelectContext
    BY <1>5, SameFusion, SameSelection DEF SelectContext, RankingInv, IsRanking
<1> QED BY <1>1, <1>2, <1>3, <1>4, <1>5 DEF RankingNext

THEOREM RankingInvariance == RankingSpec => []RankingInv
<1>1. RankingInit => RankingInv
    BY DEF RankingInit, RankingInv, IsRanking
<1>2. RankingInv /\ [RankingNext]_rankingVars => RankingInv'
    BY RankingNextKeepsRankingInv
<1> QED BY <1>1, <1>2, PTL DEF RankingSpec

\* However often the alias moves while a question is searched, no context
\* holds a chunk that the configured release does not have
\* (VnCoreNlpBm25Retriever, DenseRetriever.retrieve).
THEOREM ContextOfOneRelease == RankingSpec => []OneRelease
<1>1. ASSUME RankingInv, step = "done" PROVE DOMAIN context \subseteq PointsOf[Expected]
  <2>1. DOMAIN context \subseteq DOMAIN pool /\ DOMAIN pool \subseteq Fused
      BY <1>1 DEF RankingInv, SelectedContext, FusedPool
  <2> QED BY <1>1, <2>1 DEF RankingInv, IsRanking, Fused
<1>2. RankingInv => OneRelease
    BY <1>1 DEF OneRelease
<1> QED BY <1>2, RankingInvariance, PTL

\* A fused chunk is a number of the configured release, and its score, best rank and
\* place are numbers.
LEMMA FusedNumbers ==
    ASSUME RankingInv
    PROVE  /\ IsFiniteSet(Fused)
           /\ \A c \in Fused :
                 c \in Nat /\ FusedScore(c) \in Nat /\ BestRank(c) \in Nat /\ FusedPlace(c) \in Nat
<1>1. Fused \subseteq Chunks /\ Chunks \subseteq Nat /\ IsFiniteSet(Chunks)
    BY RankingAssumption DEF RankingInv, IsRanking, Fused
<1>2. IsFiniteSet(Fused)
    BY <1>1, FS_Subset
<1>3. ASSUME NEW c \in Fused PROVE FusedScore(c) \in Nat /\ BestRank(c) \in Nat
  <2>1. ASSUME NEW i \in Nat \ {0} PROVE Scale \div (RrfK + i) \in Nat
      BY RankingAssumption
  <2>2. \A a, b \in Nat : a * b \in Nat /\ a + b \in Nat
      OBVIOUS
  <2>3. c \in DOMAIN sparse => sparse[c] \in Nat \ {0}
      BY DEF RankingInv, IsRanking
  <2>4. c \in DOMAIN dense => dense[c] \in Nat \ {0}
      BY DEF RankingInv, IsRanking
  <2>5. Term(SparseWeight, sparse, c) \in Nat
    <3>1. CASE c \in DOMAIN sparse
      <4>1. Scale \div (RrfK + sparse[c]) \in Nat /\ SparseWeight \in Nat
          BY <2>1, <2>3, <3>1, RankingAssumption
      <4> QED BY <2>2, <3>1, <4>1 DEF Term
    <3> QED BY <3>1 DEF Term
  <2>6. Term(DenseWeight, dense, c) \in Nat
    <3>1. CASE c \in DOMAIN dense
      <4>1. Scale \div (RrfK + dense[c]) \in Nat /\ DenseWeight \in Nat
          BY <2>1, <2>4, <3>1, RankingAssumption
      <4> QED BY <2>2, <3>1, <4>1 DEF Term
    <3> QED BY <3>1 DEF Term
  <2>7. BestRank(c) \in Nat
      BY <2>3, <2>4 DEF BestRank, ShorterOf, Fused
  <2> QED BY <2>5, <2>6, <2>7 DEF FusedScore
<1>4. ASSUME NEW c \in Fused PROVE FusedPlace(c) \in Nat
  <2>1. {d \in Fused : FusedBefore(d, c)} \in SUBSET Fused
      OBVIOUS
  <2>2. Cardinality({d \in Fused : FusedBefore(d, c)}) \in Nat
      BY <1>2, <2>1, FS_Subset, FS_CardinalityType
  <2> QED BY <2>2 DEF FusedPlace
<1> QED BY <1>1, <1>2, <1>3, <1>4

\* The chunk that precedes another one in the pool has no lower score.
LEMMA PoolFollowsScores ==
    ASSUME RankingInv, step = "done", NEW c \in DOMAIN pool, NEW d \in DOMAIN pool, pool[c] < pool[d]
    PROVE  FusedScore(c) >= FusedScore(d)
<1> DEFINE Before(a) == {e \in Fused : FusedBefore(e, a)}
<1>1. /\ c \in Fused /\ d \in Fused
      /\ pool[c] = FusedPlace(c) /\ pool[d] = FusedPlace(d)
    BY DEF RankingInv, FusedPool
<1>2. SUFFICES ASSUME FusedScore(d) > FusedScore(c) PROVE FALSE
    BY <1>1, FusedNumbers
<1>3. Before(d) \subseteq Before(c)
  <2>1. ASSUME NEW e \in Fused, FusedBefore(e, d) PROVE FusedBefore(e, c)
    <3>1. FusedScore(e) \in Nat /\ FusedScore(c) \in Nat /\ FusedScore(d) \in Nat
        BY <1>1, FusedNumbers
    <3>2. FusedScore(e) >= FusedScore(d)
        BY <2>1, <3>1 DEF FusedBefore
    <3> QED BY <1>2, <3>1, <3>2 DEF FusedBefore
  <2> QED BY <2>1
<1>4. /\ IsFiniteSet(Before(c)) /\ Cardinality(Before(d)) <= Cardinality(Before(c))
      /\ Cardinality(Before(c)) \in Nat /\ Cardinality(Before(d)) \in Nat
  <2>1. IsFiniteSet(Before(c)) /\ IsFiniteSet(Before(d))
      BY FusedNumbers, FS_Subset
  <2> QED BY <1>3, <2>1, FS_Subset, FS_CardinalityType
<1>5. FusedPlace(c) = 1 + Cardinality(Before(c)) /\ FusedPlace(d) = 1 + Cardinality(Before(d))
    BY DEF FusedPlace
<1> QED BY <1>1, <1>4, <1>5

\* Among the chunks beyond the kept ones, a lower place in the selection
\* means a higher selection score, or an equal one and a lower place in the pool.
LEMMA SelectionFollowsScores ==
    ASSUME RankingInv, step = "done", NEW c \in DOMAIN pool, NEW d \in DOMAIN pool,
           \A e \in DOMAIN pool : SelectionScore(e) \in Nat /\ pool[e] \in Nat,
           Cardinality(DOMAIN pool) > ContextK, pool[c] > Kept, pool[d] > Kept,
           SelectedPlace(d) < SelectedPlace(c)
    PROVE  ~SelectedBefore(c, d)
<1> DEFINE Before(a) == {e \in DOMAIN pool : pool[e] > Kept /\ SelectedBefore(e, a)}
<1>1. SUFFICES ASSUME SelectedBefore(c, d) PROVE FALSE
    OBVIOUS
<1>2. Before(c) \subseteq Before(d)
  <2>1. ASSUME NEW e \in DOMAIN pool, SelectedBefore(e, c) PROVE SelectedBefore(e, d)
      BY <1>1, <2>1 DEF SelectedBefore
  <2> QED BY <2>1
<1>3. /\ Cardinality(Before(c)) <= Cardinality(Before(d))
      /\ Cardinality(Before(c)) \in Nat /\ Cardinality(Before(d)) \in Nat
  <2>1. DOMAIN pool \subseteq Fused
      BY DEF RankingInv, FusedPool
  <2>2. IsFiniteSet(DOMAIN pool)
      BY <2>1, FusedNumbers, FS_Subset
  <2>3. IsFiniteSet(Before(c)) /\ IsFiniteSet(Before(d))
      BY <2>2, FS_Subset
  <2> QED BY <1>2, <2>3, FS_Subset, FS_CardinalityType
<1>4. Kept \in Nat /\ Cardinality(DOMAIN pool) \in Nat /\ ContextK \in Nat /\ pool[c] \in Nat /\ pool[d] \in Nat
  <2>1. IsFiniteSet(DOMAIN pool)
    <3>1. DOMAIN pool \subseteq Fused
        BY DEF RankingInv, FusedPool
    <3> QED BY <3>1, FusedNumbers, FS_Subset
  <2> QED BY <2>1, FS_CardinalityType, RankingAssumption DEF Kept, ShorterOf
<1>5. /\ SelectedPlace(c) = 1 + Kept + Cardinality(Before(c))
      /\ SelectedPlace(d) = 1 + Kept + Cardinality(Before(d))
    BY <1>4 DEF SelectedPlace
<1> QED BY <1>3, <1>4, <1>5

LEMMA VotesCount == ASSUME RankingInv, step = "done", NEW c \in DOMAIN pool PROVE Votes(c) \in Nat
<1>1. DOMAIN pool \subseteq Fused
    BY DEF RankingInv, FusedPool
<1>2. IsFiniteSet({e \in DOMAIN pool : pool[e] <= Window /\ SameDocument(e, c)})
    BY <1>1, FusedNumbers, FS_Subset
<1> QED BY <1>2, FS_CardinalityType DEF Votes

\* No higher score times a boost stays above a product only by the boost.
LEMMA BoostDecides ==
    ASSUME NEW s \in Nat, NEW t \in Nat, NEW a \in Nat, NEW b \in Nat, s >= t, s * a < t * b
    PROVE  a < b
<1> SUFFICES ASSUME a >= b PROVE FALSE
    OBVIOUS
<1>1. PICK m \in Nat, k \in Nat : s = t + m /\ a = b + k
  <2>1. s - t \in Nat /\ a - b \in Nat /\ s = t + (s - t) /\ a = b + (a - b)
      OBVIOUS
  <2> QED BY <2>1
<1>2. t * k \in Nat /\ m * b \in Nat /\ m * k \in Nat /\ t * b \in Nat
    OBVIOUS
<1>3. s * a = t * b + t * k + m * b + m * k
    BY <1>1
<1> QED BY <1>2, <1>3

\* A chunk loses its place in the context only to a chunk whose document has
\* more of the first fused ranks, and never one of the preserved places
\* (select_generation_context).
THEOREM OvertakenOnlyByConsensus == RankingSpec => []OvertakenByConsensus
<1>1. ASSUME RankingInv, step = "done", NEW c \in DOMAIN pool, NEW d \in DOMAIN pool,
             pool[c] < pool[d], d \in DOMAIN context,
             c \notin DOMAIN context \/ context[d] < context[c]
      PROVE  pool[c] > Preserved /\ Votes(d) > Votes(c)
  <2> PICK n : n = Cardinality(DOMAIN pool)
      OBVIOUS
  <2>1. /\ DOMAIN pool \subseteq Fused
        /\ \A e \in DOMAIN pool : pool[e] \in Nat /\ FusedScore(e) \in Nat
    <3>1. DOMAIN pool \subseteq Fused /\ \A e \in DOMAIN pool : pool[e] = FusedPlace(e)
        BY <1>1 DEF RankingInv, FusedPool
    <3> QED BY <1>1, <3>1, FusedNumbers
  <2>2. /\ n \in Nat /\ Kept \in Nat /\ ContextK \in Nat /\ Preserved \in Nat
        /\ Kept = IF Preserved < ContextK THEN Preserved ELSE ContextK
    <3>1. IsFiniteSet(DOMAIN pool)
        BY <1>1, <2>1, FusedNumbers, FS_Subset
    <3> QED BY <3>1, FS_CardinalityType, RankingAssumption DEF Kept, ShorterOf
  <2>3. ASSUME NEW e \in DOMAIN pool
        PROVE  /\ n <= ContextK \/ pool[e] <= Kept => SelectedPlace(e) = pool[e]
               /\ n > ContextK /\ pool[e] > Kept => SelectedPlace(e) \in Nat /\ SelectedPlace(e) > Kept
    <3>1. n <= ContextK \/ pool[e] <= Kept => SelectedPlace(e) = pool[e]
        BY DEF SelectedPlace
    <3>2. Cardinality({f \in DOMAIN pool : pool[f] > Kept /\ SelectedBefore(f, e)}) \in Nat
        BY <1>1, <2>1, FusedNumbers, FS_Subset, FS_CardinalityType
    <3>3. n > ContextK /\ pool[e] > Kept => SelectedPlace(e) \in Nat /\ SelectedPlace(e) > Kept
        BY <2>1, <2>2, <3>2 DEF SelectedPlace
    <3> QED BY <3>1, <3>3
  <2>4. /\ SelectedPlace(d) <= ContextK
        /\ SelectedPlace(c) > ContextK \/ SelectedPlace(d) < SelectedPlace(c)
    <3>1. /\ DOMAIN context = {e \in DOMAIN pool : SelectedPlace(e) <= ContextK}
          /\ \A e \in DOMAIN context : context[e] = SelectedPlace(e)
        BY <1>1 DEF RankingInv, SelectedContext
    <3>2. SelectedPlace(c) \in Nat
        BY <2>1, <2>2, <2>3
    <3> QED BY <1>1, <2>2, <3>1, <3>2
  <2>5. SelectedPlace(d) \in Nat /\ SelectedPlace(c) \in Nat /\ SelectedPlace(d) < SelectedPlace(c)
    <3>1. SelectedPlace(c) \in Nat /\ SelectedPlace(d) \in Nat
        BY <2>1, <2>2, <2>3
    <3> QED BY <2>2, <2>4, <3>1
  <2>6. n > ContextK /\ pool[c] > Kept /\ pool[d] > Kept
      BY <1>1, <2>1, <2>2, <2>3, <2>5
  <2>7. pool[c] > Preserved
      BY <2>1, <2>2, <2>3, <2>4, <2>6
  <2>8. Votes(d) > Votes(c)
    <3>1. ASSUME NEW e \in DOMAIN pool PROVE Boost(e) \in Nat /\ SelectionScore(e) \in Nat
      <4>1. Votes(e) \in Nat
          BY <1>1, VotesCount
      <4>2. Boost(e) \in Nat
          BY <4>1 DEF Boost, ShorterOf
      <4>3. \A a, b \in Nat : a * b \in Nat
          OBVIOUS
      <4> QED BY <2>1, <4>2, <4>3 DEF SelectionScore
    <3>2. ~SelectedBefore(c, d)
        BY <1>1, <2>1, <2>5, <2>6, <3>1, SelectionFollowsScores
    <3>3. SelectionScore(c) < SelectionScore(d)
        BY <1>1, <2>1, <3>1, <3>2 DEF SelectedBefore
    <3>4. FusedScore(c) >= FusedScore(d)
        BY <1>1, PoolFollowsScores
    <3>5. Boost(c) < Boost(d)
        BY <2>1, <3>1, <3>3, <3>4, BoostDecides DEF SelectionScore
    <3>6. Votes(c) \in Nat /\ Votes(d) \in Nat
        BY <1>1, VotesCount
    <3> QED BY <3>5, <3>6 DEF Boost, ShorterOf
  <2> QED BY <2>7, <2>8
<1>2. RankingInv => OvertakenByConsensus
    BY <1>1 DEF OvertakenByConsensus
<1> QED BY <1>2, RankingInvariance, PTL

-----------------------------------------------------------------------------
(* The review of the labels: whatever is locked was decided                  *)

IsLabelling(l) == \A q \in Cases : l[q] \in Labels

\* A form shows labels of a dataset; a decision of it is one per case.
FormSound ==
    form # NoFile =>
        /\ form = [shown |-> form.shown, decided |-> form.decided]
        /\ IsLabelling(form.shown)
        /\ form.decided # NoFile => form.decided \in [Cases -> Decisions]

\* What the reviewer made of every case, and the exception
IsAgreed(label, agreed, stale) ==
    \A q \in Cases : agreed[q] # {} /\ (q \in stale \/ label[q] \in agreed[q])

\* A program that runs shows, or writes, labels; a review writes what was agreed.
RunningSound ==
    running # NoFile =>
        /\ running.program = "packet" => IsLabelling(running.shown)
        /\ running.program = "adjudication" => running.claims \in Adjudications
        /\ running.program = "review" =>
            /\ IsLabelling(running.label)
            /\ IsAgreed(running.label, running.agreed, running.stale)

\* What LockedMeansDecided says of a locked set holds, but for its claims where
\* an answer is expected, of every golden set from the moment it is written.
GoldenSound ==
    golden # NoFile =>
        /\ golden = [locked |-> golden.locked, byHand |-> golden.byHand, label |-> golden.label,
                     torn |-> golden.torn, stale |-> golden.stale, agreed |-> golden.agreed]
        /\ IsLabelling(golden.label)
        /\ \A q \in Cases :
            /\ Allowed(q, golden.label[q])
            /\ golden.locked => Adjudicated(q, golden.label[q])
        /\ ~golden.byHand =>
            /\ IsAgreed(golden.label, golden.agreed, golden.stale)
            /\ golden.torn \/ \A q \in Cases : Supported(q, golden.label[q], Bound)

LabelInv ==
    /\ reviewed # NoFile => IsLabelling(reviewed)
    /\ FormSound
    /\ RunningSound
    /\ GoldenSound

LEMMA SourcesAreLabellings ==
    ASSUME LabelInv, NEW source \in Sources
    PROVE  IsLabelling(source)
<1>1. IsLabelling(Unlabelled)
    BY LabelAssumption DEF IsLabelling, Unlabelled
<1> QED BY <1>1 DEF LabelInv, Sources

\* People's files fit the schema.
LEMMA LoadableIsAllowed ==
    ASSUME NEW label \in Loadable
    PROVE  IsLabelling(label) /\ \A q \in Cases : Allowed(q, label[q])
BY DEF Loadable, IsLabelling, WellFormed

LEMMA RewritingKeepsLabelInv ==
    ASSUME LabelInv, ReplaceCorpus \/ RewriteReviewed \/ GiveUp \/ UNCHANGED labelVars
    PROVE  LabelInv'
<1>1. CASE ReplaceCorpus
    BY <1>1 DEF ReplaceCorpus, LabelInv, FormSound, RunningSound, GoldenSound
<1>2. CASE RewriteReviewed
  <2>1. IsLabelling(reviewed')
      BY <1>2, LoadableIsAllowed DEF RewriteReviewed
  <2> QED BY <1>2, <2>1 DEF RewriteReviewed, LabelInv, FormSound, RunningSound, GoldenSound
<1>3. CASE GiveUp
    BY <1>3 DEF GiveUp, LabelInv, FormSound, RunningSound, GoldenSound
<1>4. CASE UNCHANGED labelVars
    BY <1>4 DEF labelVars, LabelInv, FormSound, RunningSound, GoldenSound
<1> QED BY <1>1, <1>2, <1>3, <1>4

LEMMA FillFormKeepsLabelInv == ASSUME LabelInv, FillForm PROVE LabelInv'
<1>1. form # NoFile /\ UNCHANGED <<corpus, reviewed, golden, running>>
    BY DEF FillForm
<1>2. PICK decisions \in [Cases -> Decisions] : form' = [form EXCEPT !.decided = decisions]
    BY DEF FillForm
<1>3. form' = [shown |-> form.shown, decided |-> decisions]
    BY <1>1, <1>2 DEF LabelInv, FormSound
<1>4. FormSound'
    BY <1>1, <1>3 DEF LabelInv, FormSound
<1> QED BY <1>1, <1>4 DEF LabelInv, RunningSound, GoldenSound

LEMMA RewriteGoldenKeepsLabelInv == ASSUME LabelInv, RewriteGolden PROVE LabelInv'
<1>1. PICK label \in Loadable :
          golden' = [locked |-> FALSE, byHand |-> TRUE, label |-> label,
                     torn |-> FALSE, stale |-> {}, agreed |-> [q \in Cases |-> {}]]
    BY DEF RewriteGolden
<1>2. UNCHANGED <<corpus, reviewed, form, running>>
    BY DEF RewriteGolden
<1>3. PICK nobody : nobody = [q \in Cases |-> {}]
    OBVIOUS
<1>4. golden' = [locked |-> FALSE, byHand |-> TRUE, label |-> label,
                 torn |-> FALSE, stale |-> {}, agreed |-> nobody]
    BY <1>1, <1>3
<1>5. /\ golden' = [locked |-> golden'.locked, byHand |-> golden'.byHand, label |-> golden'.label,
                    torn |-> golden'.torn, stale |-> golden'.stale, agreed |-> golden'.agreed]
      /\ golden'.label = label /\ golden'.byHand = TRUE /\ golden'.locked = FALSE
    BY <1>4
<1>6. GoldenSound'
    BY <1>5, LoadableIsAllowed DEF GoldenSound
<1> QED BY <1>2, <1>6 DEF LabelInv, FormSound, RunningSound

LEMMA StartAdjudicationKeepsLabelInv == ASSUME LabelInv, StartAdjudication PROVE LabelInv'
<1>1. PICK a \in Adjudications :
          running' = [program |-> "adjudication", claims |-> a] /\ UNCHANGED <<corpus, reviewed, form, golden>>
    BY DEF StartAdjudication, Start
<1>2. running'.program = "adjudication" /\ running'.claims = a
    BY <1>1
<1>3. RunningSound'
    BY <1>2 DEF RunningSound
<1> QED BY <1>1, <1>3 DEF LabelInv, FormSound, GoldenSound

LEMMA StartPacketKeepsLabelInv == ASSUME LabelInv, StartPacket PROVE LabelInv'
<1>1. PICK shown \in Sources :
          running' = [program |-> "packet", shown |-> shown] /\ UNCHANGED <<corpus, reviewed, form, golden>>
    BY DEF StartPacket, Start
<1>2. running'.program = "packet" /\ running'.shown = shown /\ IsLabelling(shown)
    BY <1>1, SourcesAreLabellings
<1>3. RunningSound'
    BY <1>2 DEF RunningSound
<1> QED BY <1>1, <1>3 DEF LabelInv, FormSound, GoldenSound

\* What a review that was not refused is about to write was agreed.
LEMMA StartReviewKeepsLabelInv == ASSUME LabelInv, StartReview PROVE LabelInv'
<1>1. PICK source \in Sources : running' = ReviewOf(source) /\ UNCHANGED <<corpus, reviewed, form, golden>>
    BY DEF StartReview, Start
<1>2. PICK shown, decisions : shown = form.shown /\ decisions = form.decided
    OBVIOUS
<1>3. form # NoFile /\ decisions \in [Cases -> Decisions] /\ Closed(decisions)
    BY <1>2 DEF StartReview, LabelInv, FormSound
<1>4. PICK label, stale, agreed :
          /\ label = [q \in Cases |-> LabelAfter(source[q], decisions[q])]
          /\ stale = {q \in Cases : ~Rewritten(decisions[q]) /\ source[q] # shown[q]}
          /\ agreed = [q \in Cases |-> Agreed(shown[q], decisions[q])]
    OBVIOUS
<1>5. running' = [program |-> "review", label |-> label, stale |-> stale, agreed |-> agreed]
    BY <1>1, <1>2, <1>4 DEF ReviewOf
<1>6. running'.program = "review" /\ running'.label = label /\ running'.stale = stale /\ running'.agreed = agreed
    BY <1>5
<1>7. ASSUME NEW q \in Cases
      PROVE  label[q] \in Labels /\ agreed[q] # {} /\ (q \in stale \/ label[q] \in agreed[q])
  <2>1. /\ decisions[q] \in Decisions /\ decisions[q].decision \in {"accept", "edit"}
        /\ label[q] = LabelAfter(source[q], decisions[q])
        /\ agreed[q] = Agreed(shown[q], decisions[q])
        /\ q \in stale <=> (~Rewritten(decisions[q]) /\ source[q] # shown[q])
        /\ source[q] \in Labels
      BY <1>3, <1>4, SourcesAreLabellings DEF Closed, IsLabelling
  <2>2. decisions[q].edited \in Labels
      BY <2>1, LabelAssumption DEF Decisions
  <2>3. agreed[q] = IF Rewritten(decisions[q]) THEN {decisions[q].edited} ELSE {shown[q]}
      BY <2>1 DEF Agreed
  <2>4. label[q] = IF Rewritten(decisions[q]) THEN decisions[q].edited ELSE source[q]
      BY <2>1 DEF LabelAfter
  <2> QED BY <2>1, <2>2, <2>3, <2>4
<1>8. RunningSound'
    BY <1>6, <1>7 DEF RunningSound, IsLabelling, IsAgreed
<1> QED BY <1>1, <1>8 DEF LabelInv, FormSound, GoldenSound

LEMMA AdjudicationKeepsLabelInv == ASSUME LabelInv, ApplyAdjudication PROVE LabelInv'
<1>1. /\ running # NoFile /\ running.program = "adjudication" /\ DOMAIN running.claims = Cases
      /\ reviewed' = running.claims /\ running' = NoFile /\ UNCHANGED <<corpus, form, golden>>
    BY DEF ApplyAdjudication, Ready
<1>2. IsLabelling(reviewed')
    BY <1>1, LabelAssumption DEF LabelInv, RunningSound, IsLabelling
<1> QED BY <1>1, <1>2 DEF LabelInv, FormSound, RunningSound, GoldenSound

LEMMA PacketKeepsLabelInv == ASSUME LabelInv, CreatePacket PROVE LabelInv'
<1>1. /\ running # NoFile /\ running.program = "packet"
      /\ form' = [shown |-> running.shown, decided |-> NoFile] /\ running' = NoFile
      /\ UNCHANGED <<corpus, reviewed, golden>>
    BY DEF CreatePacket, Ready
<1>2. /\ form' = [shown |-> form'.shown, decided |-> form'.decided]
      /\ form'.decided = NoFile /\ IsLabelling(form'.shown)
    BY <1>1 DEF LabelInv, RunningSound
<1>3. FormSound'
    BY <1>2 DEF FormSound
<1> QED BY <1>1, <1>3 DEF LabelInv, RunningSound, GoldenSound

\* The corpus decides on the claims; unless it is another one by now they stand
\* in the one that is bound.
LEMMA ApplyReviewKeepsLabelInv == ASSUME LabelInv, ApplyReview PROVE LabelInv'
<1>1. /\ running # NoFile /\ running.program = "review"
      /\ \A q \in Cases : Supported(q, running.label[q], corpus)
      /\ running' = NoFile /\ UNCHANGED <<corpus, reviewed, form>>
    BY DEF ApplyReview, Ready
<1>2. PICK label, stale, agreed, torn :
          /\ label = running.label /\ stale = running.stale /\ agreed = running.agreed
          /\ torn = (corpus # Bound)
    OBVIOUS
<1>3. golden' = [locked |-> FALSE, byHand |-> FALSE, label |-> label,
                 torn |-> torn, stale |-> stale, agreed |-> agreed]
    BY <1>2 DEF ApplyReview
<1>4. /\ golden' = [locked |-> golden'.locked, byHand |-> golden'.byHand, label |-> golden'.label,
                    torn |-> golden'.torn, stale |-> golden'.stale, agreed |-> golden'.agreed]
      /\ golden'.label = label /\ golden'.stale = stale /\ golden'.agreed = agreed
      /\ golden'.torn = torn /\ golden'.locked = FALSE
    BY <1>3
<1>5. IsLabelling(label) /\ IsAgreed(label, agreed, stale)
    BY <1>1, <1>2 DEF LabelInv, RunningSound
<1>6. \A q \in Cases : Allowed(q, label[q])
    BY <1>1, <1>2 DEF Supported
<1>7. torn \/ \A q \in Cases : Supported(q, label[q], Bound)
    BY <1>1, <1>2
<1>8. GoldenSound'
    BY <1>4, <1>5, <1>6, <1>7 DEF GoldenSound
<1> QED BY <1>1, <1>8 DEF LabelInv, FormSound, RunningSound

LEMMA LockKeepsLabelInv == ASSUME LabelInv, Lock PROVE LabelInv'
<1>1. /\ golden # NoFile /\ \A q \in Cases : Adjudicated(q, golden.label[q])
      /\ golden' = [golden EXCEPT !.locked = TRUE]
      /\ UNCHANGED <<corpus, reviewed, form, running>>
    BY DEF Lock
<1>2. golden' = [locked |-> TRUE, byHand |-> golden.byHand, label |-> golden.label,
                 torn |-> golden.torn, stale |-> golden.stale, agreed |-> golden.agreed]
    BY <1>1 DEF LabelInv, GoldenSound
<1>3. /\ golden' = [locked |-> golden'.locked, byHand |-> golden'.byHand, label |-> golden'.label,
                    torn |-> golden'.torn, stale |-> golden'.stale, agreed |-> golden'.agreed]
      /\ golden'.label = golden.label /\ golden'.stale = golden.stale /\ golden'.agreed = golden.agreed
      /\ golden'.torn = golden.torn /\ golden'.byHand = golden.byHand
    BY <1>2
<1>4. GoldenSound'
    BY <1>1, <1>3 DEF LabelInv, GoldenSound
<1> QED BY <1>1, <1>4 DEF LabelInv, FormSound, RunningSound

LEMMA LabelNextKeepsLabelInv == ASSUME LabelInv, [LabelNext]_labelVars PROVE LabelInv'
BY RewritingKeepsLabelInv, FillFormKeepsLabelInv, RewriteGoldenKeepsLabelInv,
   StartAdjudicationKeepsLabelInv, StartPacketKeepsLabelInv, StartReviewKeepsLabelInv,
   AdjudicationKeepsLabelInv, PacketKeepsLabelInv, ApplyReviewKeepsLabelInv, LockKeepsLabelInv
   DEF LabelNext

THEOREM LabelInvariance == LabelSpec => []LabelInv
<1>1. LabelInit => LabelInv
    BY DEF LabelInit, LabelInv, FormSound, RunningSound, GoldenSound
<1>2. LabelInv /\ [LabelNext]_labelVars => LabelInv'
    BY LabelNextKeepsLabelInv
<1> QED BY <1>1, <1>2, PTL DEF LabelSpec

\* No label is locked that its case does not list; and of a set that nobody
\* rewrote by hand, none that no reviewer agreed to or wrote in its place, unless
\* the dataset was another than the form showed, and none that the bound corpus
\* does not support, unless it was replaced while the review was applied
\* (apply_human_review, lock_human_adjudicated_dataset).
THEOREM LockedLabelsAreDecided == LabelSpec => []LockedMeansDecided
<1>1. ASSUME LabelInv PROVE LockedMeansDecided
  <2> SUFFICES ASSUME golden # NoFile, golden.locked, NEW q \in Cases
               PROVE  /\ Allowed(q, golden.label[q])
                      /\ q \in Answerable => CitesOf[golden.label[q]] # {}
                      /\ ~golden.byHand =>
                            /\ golden.agreed[q] # {}
                            /\ q \in golden.stale \/ golden.label[q] \in golden.agreed[q]
                            /\ golden.torn \/ Supported(q, golden.label[q], Bound)
      BY DEF LockedMeansDecided
  <2>1. /\ Allowed(q, golden.label[q]) /\ Adjudicated(q, golden.label[q])
        /\ golden.label[q] \in Labels
      BY <1>1 DEF LabelInv, GoldenSound, IsLabelling
  <2>2. q \in Answerable => CitesOf[golden.label[q]] # {}
      BY <2>1, LabelAssumption DEF Adjudicated
  <2>3. ~golden.byHand =>
            /\ golden.agreed[q] # {}
            /\ q \in golden.stale \/ golden.label[q] \in golden.agreed[q]
            /\ golden.torn \/ Supported(q, golden.label[q], Bound)
      BY <1>1 DEF LabelInv, GoldenSound, IsAgreed
  <2> QED BY <2>1, <2>2, <2>3
<1>2. LabelInv => LockedMeansDecided
    BY <1>1
<1> QED BY <1>2, LabelInvariance, PTL

-----------------------------------------------------------------------------
(* The panel: one dataset for all that is compared                           *)

\* While the panel asks, no file it is about to write holds an answer that
\* stands, and what is there was asked under its digest.
PanelAsks ==
    panel.pc \notin {"off", "loaded"} =>
        /\ panel = [pc |-> panel.pc, of |-> panel.of, digest |-> panel.digest, models |-> panel.models,
                    cases |-> panel.cases, run |-> panel.run, todo |-> panel.todo]
        /\ started # 0
        /\ \A f \in panel.todo : f \in DOMAIN records => records[f].status = "error"
        /\ ~blind =>
            /\ \A f \in DOMAIN records : records[f].digest = panel.digest
            /\ manifest # Nothing => manifest.dataset = panel.digest

\* One digest for all records, the manifest's
OneDigest ==
    ~blind =>
        /\ \A f, g \in DOMAIN records : records[f].digest = records[g].digest
        /\ manifest # Nothing => \A f \in DOMAIN records : records[f].digest = manifest.dataset

CompletedIsWhole ==
    (~blind /\ manifest # Nothing /\ manifest.status = "COMPLETED") =>
        \A c \in manifest.cases, m \in Range(manifest.models) :
            \E f \in OfCase(c) : f[3] = m /\ records[f].status = "success"

PanelInv ==
    /\ started = 0 => (\A f \in DOMAIN records : FALSE) /\ manifest = Nothing
    /\ started \in Nat
    /\ PanelAsks
    /\ OneDigest
    /\ CompletedIsWhole

\* One answer for a file that had none, or an error.
LEMMA RecordKeepsPanelInv == ASSUME PanelInv, Record PROVE PanelInv'
<1>1. /\ panel.pc = "asking"
      /\ panel = [pc |-> panel.pc, of |-> panel.of, digest |-> panel.digest, models |-> panel.models,
                  cases |-> panel.cases, run |-> panel.run, todo |-> panel.todo]
      /\ started \in Nat \ {0}
      /\ UNCHANGED <<consensus, manifest, started, blind>>
    BY DEF Record, PanelInv, PanelAsks
<1>2. PICK f \in panel.todo, answer \in Answers \ {"bad_usage"} :
          /\ records' = [g \in DOMAIN records \cup {f} |-> IF g = f THEN Annotated(f, answer) ELSE records[g]]
          /\ panel' = [panel EXCEPT !.todo = @ \ {f}]
    BY DEF Record
<1>3. /\ DOMAIN records' = DOMAIN records \cup {f}
      /\ records'[f].digest = panel.digest
      /\ \A g \in DOMAIN records : g # f => records'[g] = records[g]
    BY <1>2 DEF Annotated
<1>4. PICK todo : todo = panel.todo \ {f}
    OBVIOUS
<1>5. panel' = [pc |-> panel.pc, of |-> panel.of, digest |-> panel.digest, models |-> panel.models,
                cases |-> panel.cases, run |-> panel.run, todo |-> todo]
    BY <1>1, <1>2, <1>4
<1>6. f \in DOMAIN records => records[f].status # "success"
    BY <1>1, <1>2 DEF PanelInv, PanelAsks
<1>7. PanelAsks'
  <2>1. panel'.pc = "asking" /\ panel'.digest = panel.digest /\ panel'.todo = todo
        /\ panel' = [pc |-> panel'.pc, of |-> panel'.of, digest |-> panel'.digest, models |-> panel'.models,
                     cases |-> panel'.cases, run |-> panel'.run, todo |-> panel'.todo]
      BY <1>1, <1>5
  <2>2. \A g \in todo : g \in DOMAIN records' => records'[g].status = "error"
      BY <1>1, <1>3, <1>4 DEF PanelInv, PanelAsks
  <2>3. ~blind => /\ \A g \in DOMAIN records' : records'[g].digest = panel.digest
                  /\ manifest # Nothing => manifest.dataset = panel.digest
      BY <1>1, <1>3 DEF PanelInv, PanelAsks
  <2> QED BY <1>1, <2>1, <2>2, <2>3 DEF PanelAsks
<1>8. OneDigest'
    BY <1>1, <1>3 DEF PanelInv, PanelAsks, OneDigest
<1>9. CompletedIsWhole'
  <2> SUFFICES ASSUME ~blind, manifest # Nothing, manifest.status = "COMPLETED",
                      NEW c \in manifest.cases, NEW m \in Range(manifest.models)
               PROVE  \E g \in OfCase(c)' : g[3] = m /\ records'[g].status = "success"
      BY <1>1 DEF CompletedIsWhole
  <2>1. PICK g \in OfCase(c) : g[3] = m /\ records[g].status = "success"
      BY DEF PanelInv, CompletedIsWhole
  <2>2. g \in DOMAIN records /\ g[1] = c /\ g # f
      BY <2>1, <1>6 DEF OfCase
  <2>3. g \in OfCase(c)'
      BY <2>2, <1>3 DEF OfCase
  <2> QED BY <1>3, <2>1, <2>2, <2>3
<1> QED BY <1>1, <1>7, <1>8, <1>9 DEF PanelInv

\* A step that leaves the files alone and stops, or goes on to the manifest.
LEMMA QuietKeepsPanelInv ==
    ASSUME PanelInv, panel' = NoPanel, UNCHANGED <<records, manifest, started, blind>>
    PROVE  PanelInv'
    BY DEF PanelInv, PanelAsks, NoPanel, OneDigest, CompletedIsWhole, OfCase

LEMMA LoadKeepsPanelInv == ASSUME PanelInv, LoadDataset PROVE PanelInv'
<1>1. PICK content \in Datasets : panel' = [pc |-> "loaded", of |-> content]
    BY DEF LoadDataset
<1>2. panel'.pc = "loaded" /\ UNCHANGED <<records, manifest, started, blind>>
    BY <1>1 DEF LoadDataset
<1> QED BY <1>2 DEF PanelInv, PanelAsks, OneDigest, CompletedIsWhole, OfCase

LEMMA StartKeepsPanelInv == ASSUME PanelInv, StartPanel PROVE PanelInv'
<1>1. /\ started \in Nat /\ started' = started + 1
      /\ UNCHANGED <<records, manifest>>
    BY DEF StartPanel, PanelInv
<1> DEFINE Started(digest, models, cases, resume, retry) ==
              /\ Admitted(digest, models, cases, resume)
              /\ panel' = [pc |-> "asking", of |-> panel.of, digest |-> digest, models |-> models,
                           cases |-> cases, run |-> RunId(resume), todo |-> Tasks(models, cases, retry)]
              /\ blind' = (blind \/ (resume /\ manifest = Nothing /\ records # <<>>))
<1>a. PICK digest \in Datasets, models \in Panels, resume, retry \in BOOLEAN :
          \E cases \in SUBSET CasesOf[panel.of] \ {{}} : Started(digest, models, cases, resume, retry)
    BY ZenonT(30) DEF StartPanel
<1>b. PICK cases \in SUBSET CasesOf[panel.of] \ {{}} : Started(digest, models, cases, resume, retry)
    BY <1>a
<1>2. /\ Admitted(digest, models, cases, resume)
      /\ panel' = [pc |-> "asking", of |-> panel.of, digest |-> digest, models |-> models,
                   cases |-> cases, run |-> RunId(resume), todo |-> Tasks(models, cases, retry)]
      /\ blind' = (blind \/ (resume /\ manifest = Nothing /\ records # <<>>))
    BY <1>b
<1> HIDE DEF Started
<1>3. ~blind' => ~blind
    BY <1>2
<1>4. started' # 0 /\ started' \in Nat
    BY <1>1
<1>5. PICK run, todo : run = RunId(resume) /\ todo = Tasks(models, cases, retry)
    OBVIOUS
<1>6. /\ panel' = [pc |-> panel'.pc, of |-> panel'.of, digest |-> panel'.digest, models |-> panel'.models,
                   cases |-> panel'.cases, run |-> panel'.run, todo |-> panel'.todo]
      /\ panel'.digest = digest /\ panel'.todo = todo
    BY <1>2, <1>5
<1>7. \A f \in todo : f \in DOMAIN records => records[f].status = "error"
    BY <1>5 DEF Tasks
<1>8. ASSUME ~blind'
      PROVE  /\ \A f \in DOMAIN records : records[f].digest = digest
             /\ manifest # Nothing => manifest.dataset = digest
  <2>1. CASE ~resume
    <3>1. started = 0
        BY <1>2, <2>1 DEF Admitted
    <3> QED BY <3>1 DEF PanelInv
  <2>2. CASE resume /\ manifest # Nothing
    <3>1. manifest.dataset = digest
        BY <1>2, <2>2 DEF Admitted
    <3> QED BY <1>3, <1>8, <2>2, <3>1 DEF PanelInv, OneDigest
  <2>3. CASE resume /\ manifest = Nothing
    <3>1. records = <<>>
        BY <1>2, <1>8, <2>3
    <3>2. \A f \in DOMAIN <<>> : FALSE
        OBVIOUS
    <3> QED BY <2>3, <3>1, <3>2
  <2> QED BY <1>2, <2>1, <2>2, <2>3
<1>9. PanelAsks'
    BY <1>1, <1>4, <1>6, <1>7, <1>8 DEF PanelAsks
<1>10. OneDigest' /\ CompletedIsWhole'
    BY <1>1, <1>3 DEF PanelInv, OneDigest, CompletedIsWhole, OfCase
<1> QED BY <1>4, <1>9, <1>10 DEF PanelInv

LEMMA ConsensusKeepsPanelInv == ASSUME PanelInv, WriteConsensus PROVE PanelInv'
<1>1. /\ panel.pc = "asking" /\ panel' = [panel EXCEPT !.pc = "reported"]
      /\ UNCHANGED <<records, manifest, started, blind>>
    BY DEF WriteConsensus
<1>2. panel' = [pc |-> "reported", of |-> panel.of, digest |-> panel.digest, models |-> panel.models,
                cases |-> panel.cases, run |-> panel.run, todo |-> panel.todo]
    BY <1>1 DEF PanelInv, PanelAsks
<1>3. /\ panel' = [pc |-> panel'.pc, of |-> panel'.of, digest |-> panel'.digest, models |-> panel'.models,
                   cases |-> panel'.cases, run |-> panel'.run, todo |-> panel'.todo]
      /\ panel'.digest = panel.digest /\ panel'.todo = panel.todo
    BY <1>2
<1>4. PanelAsks'
    BY <1>1, <1>3 DEF PanelInv, PanelAsks
<1> QED BY <1>1, <1>4 DEF PanelInv, OneDigest, CompletedIsWhole, OfCase

\* The manifest has the digest under which was asked, and COMPLETED only when every
\* pair of a case and a model has a file that holds a label.
LEMMA ManifestKeepsPanelInv == ASSUME PanelInv, WriteManifest PROVE PanelInv'
<1>1. /\ panel.pc = "reported" /\ panel' = NoPanel /\ started # 0
      /\ UNCHANGED <<records, started, blind>>
    BY DEF WriteManifest, PanelInv, PanelAsks
<1>2. PICK value : value = IF /\ \A f \in DOMAIN records : records[f].status = "success"
                              /\ ExpectedPairs = {Pair(f) : f \in DOMAIN records}
                           THEN "COMPLETED" ELSE "COMPLETED_WITH_ERRORS"
    OBVIOUS
<1>3. manifest' = [run |-> panel.run, dataset |-> panel.digest, models |-> panel.models,
                   cases |-> panel.cases, status |-> value]
    BY <1>2 DEF WriteManifest
<1>4. /\ manifest'.dataset = panel.digest /\ manifest'.models = panel.models
      /\ manifest'.cases = panel.cases /\ manifest'.status = value
    BY <1>3
<1>5. PanelAsks'
    BY <1>1 DEF PanelAsks, NoPanel
<1>6. ASSUME value = "COMPLETED", NEW c \in panel.cases, NEW m \in Range(panel.models)
      PROVE  \E f \in OfCase(c) : f[3] = m /\ records[f].status = "success"
  <2>1. /\ \A f \in DOMAIN records : records[f].status = "success"
        /\ ExpectedPairs = {Pair(f) : f \in DOMAIN records}
      BY <1>2, <1>6
  <2>2. <<c, m>> \in ExpectedPairs
      BY <1>6 DEF ExpectedPairs
  <2>3. PICK f \in DOMAIN records : <<c, m>> = Pair(f)
      BY <2>1, <2>2
  <2>4. f[1] = c /\ f[3] = m
      BY <2>3 DEF Pair
  <2> QED BY <2>1, <2>4 DEF OfCase
<1>7. ~blind => \A f \in DOMAIN records : records[f].digest = panel.digest
    BY <1>1 DEF PanelInv, PanelAsks
<1>8. OneDigest' /\ CompletedIsWhole'
    BY <1>1, <1>4, <1>6, <1>7 DEF OneDigest, CompletedIsWhole, OfCase
<1> QED BY <1>1, <1>5, <1>8 DEF PanelInv

LEMMA PanelNextKeepsPanelInv == ASSUME PanelInv, [PanelNext]_panelVars PROVE PanelInv'
<1>0. CASE LoadDataset
    BY <1>0, LoadKeepsPanelInv
<1>1. CASE StartPanel
    BY <1>1, StartKeepsPanelInv
<1>2. CASE Record
    BY <1>2, RecordKeepsPanelInv
<1>3. CASE AbortOnUsage
    BY <1>3, QuietKeepsPanelInv DEF AbortOnUsage
<1>4. CASE Interrupt
    BY <1>4, QuietKeepsPanelInv DEF Interrupt
<1>5. CASE RefuseRecords
    BY <1>5, QuietKeepsPanelInv DEF RefuseRecords
<1>6. CASE WriteConsensus
    BY <1>6, ConsensusKeepsPanelInv
<1>7. CASE WriteManifest
    BY <1>7, ManifestKeepsPanelInv
<1>8. CASE UNCHANGED panelVars
    BY <1>8 DEF panelVars, PanelInv, PanelAsks, OneDigest, CompletedIsWhole, OfCase
<1> QED BY <1>0, <1>1, <1>2, <1>3, <1>4, <1>5, <1>6, <1>7, <1>8 DEF PanelNext

THEOREM PanelInvariance == PanelSpec => []PanelInv
<1>1. PanelInit => PanelInv
  <2> SUFFICES ASSUME PanelInit PROVE PanelInv
      OBVIOUS
  <2>1. records = <<>> /\ manifest = Nothing /\ panel.pc = "off" /\ started = 0
      BY DEF PanelInit, NoPanel
  <2>2. \A f \in DOMAIN <<>> : FALSE
      OBVIOUS
  <2> QED BY <2>1, <2>2 DEF PanelInv, PanelAsks, OneDigest, CompletedIsWhole
<1>2. PanelInv /\ [PanelNext]_panelVars => PanelInv'
    BY PanelNextKeepsPanelInv
<1> QED BY <1>1, <1>2, PTL DEF PanelSpec

\* As long as no run was continued without a manifest to compare with, all
\* labels were asked for under one digest, the manifest's, and those of runs that
\* read the same file twice for one dataset; and COMPLETED means that every
\* model labelled every case (panel.run_panel, consensus).
THEOREM PanelsCompareOneDataset == PanelSpec => []PanelOfOneDataset
<1>1. ASSUME PanelInv PROVE PanelOfOneDataset
  <2>1. \A f \in DOMAIN records \ Torn : records[f].of = records[f].digest
      BY DEF Torn
  <2> QED BY <1>1, <2>1 DEF PanelInv, OneDigest, CompletedIsWhole, PanelOfOneDataset, SameDataset
<1>2. PanelInv => PanelOfOneDataset
    BY <1>1
<1> QED BY <1>2, PanelInvariance, PTL

-----------------------------------------------------------------------------
(* The verification: an intact manifest means one run                        *)

Failed(result) == ProviderFailure(result[2].response)

\* The two conditions that SealedIsOneRun puts on the results of a report
NoLongStreak(results) ==
    \A i \in DOMAIN results : \E j \in i..(i + BreakAfter - 1) : j \in DOMAIN results => ~Failed(results[j])
Laid(results, files) ==
    \A i \in DOMAIN results : results[i][1] \in DOMAIN files /\ files[results[i][1]] = results[i][2]

\* The last answers, as many as the counter says, are failures, not the one before.
Streak(results, failures) ==
    /\ failures \in 0..Len(results) /\ failures < BreakAfter
    /\ failures < Len(results) => ~Failed(results[Len(results) - failures])
    /\ NoLongStreak(results)

Entries == {Asked[i] : i \in DOMAIN Asked} \X [run : Nat, response : Responses]

\* Questions that are still to be asked are other questions than those answered,
\* and a run of the whole dataset asks them in order.
AskSound ==
    check.pc \in {"probe", "ask"} =>
        /\ check.results \in Seq(Entries) /\ Laid(check.results, raw)
        /\ Streak(check.results, check.failures)
        /\ check.todo \subseteq DOMAIN Asked
        /\ \A i, j \in check.todo : Asked[i] = Asked[j] => i = j
        /\ \A i \in DOMAIN check.results, j \in check.todo : check.results[i][1] # Asked[j]
        /\ ~check.targeted =>
            /\ Len(Asked) = ExpectedCount
            /\ check.todo = (Len(check.results) + 1)..Len(Asked)
            /\ Len(check.results) <= Len(Asked)

\* A report is complete and has no long streak; its answers are those of `files'.
ReportSound(files) ==
    /\ Laid(report.results, files)
    /\ ~report.targeted => Len(report.results) = ExpectedCount
    /\ NoLongStreak(report.results)

WriteSound ==
    /\ check.pc \in {"page", "status", "seal"} => report.run = runs /\ ReportSound(raw)
    /\ check.pc \in {"status", "seal"} => page = runs
    /\ check.pc = "seal" => status = [run |-> runs, value |-> "COMPLETED"]

\* The manifest is of an earlier run while one is under way.
SealSound ==
    seal # NotWritten =>
        /\ seal.status = [run |-> seal.report, value |-> "COMPLETED"] /\ seal.page = seal.report
        /\ seal.report \in Nat /\ seal.report <= runs
        /\ check.pc # "off" => seal.report < runs
        /\ report # NotWritten /\ report.run = seal.report => ReportSound(seal.raw)

VerifyInv ==
    /\ runs \in Nat
    /\ check.pc # "off" =>
        /\ check = [pc |-> check.pc, targeted |-> check.targeted, todo |-> check.todo,
                    results |-> check.results, failures |-> check.failures]
        /\ check.pc \in {"probe", "ask", "page", "status", "seal"}
    /\ AskSound
    /\ WriteSound
    /\ SealSound

\* One more answer leaves no window of BreakAfter failures, as long as the
\* counter stays below it.
LEMMA StreakGrows ==
    ASSUME NEW S, NEW results \in Seq(S), NEW e \in S, NEW failures, Streak(results, failures),
           NEW after, after = (IF Failed(e) THEN failures + 1 ELSE 0), ~(after >= BreakAfter)
    PROVE  Streak(Append(results, e), after)
<1> PICK n : n = Len(results)
    OBVIOUS
<1> PICK more : more = Append(results, e)
    OBVIOUS
<1>1. /\ n \in Nat /\ DOMAIN results = 1..n /\ Len(more) = n + 1 /\ DOMAIN more = 1..(n + 1)
      /\ more[n + 1] = e /\ \A i \in 1..n : more[i] = results[i]
  <2>1. more \in Seq(S) /\ Len(more) = n + 1 /\ more[n + 1] = e /\ \A i \in 1..n : more[i] = results[i]
      BY AppendProperties
  <2> QED BY <2>1, LenProperties
<1>2. /\ failures \in 0..n /\ failures < BreakAfter /\ BreakAfter \in Nat \ {0}
      /\ failures < n => ~Failed(results[n - failures])
    BY <1>1, VerificationAssumption DEF Streak
<1>3. after \in 0..(n + 1) /\ after < BreakAfter
    BY <1>1, <1>2
<1>4. after < n + 1 => ~Failed(more[n + 1 - after])
  <2>1. CASE Failed(e)
    <3>1. after = failures + 1
        BY <2>1
    <3> HAVE after < n + 1
    <3>2. failures < n /\ n + 1 - after = n - failures /\ n - failures \in 1..n
        BY <1>1, <1>2, <3>1
    <3> QED BY <1>1, <1>2, <3>2
  <2>2. CASE ~Failed(e)
    <3>1. n + 1 - after = n + 1
        BY <1>1, <2>2
    <3> QED BY <1>1, <2>2, <3>1
  <2> QED BY <2>1, <2>2
<1>5. ASSUME NEW i \in 1..(n + 1)
      PROVE  \E j \in i..(i + BreakAfter - 1) : j \in 1..(n + 1) => ~Failed(more[j])
  <2>1. CASE i + BreakAfter - 1 > n + 1
    <3>1. i + BreakAfter - 1 \in i..(i + BreakAfter - 1) /\ i + BreakAfter - 1 \notin 1..(n + 1)
        BY <1>1, <1>2, <2>1
    <3> QED BY <3>1
  <2>2. CASE i + BreakAfter - 1 <= n + 1 /\ i + BreakAfter - 1 # n + 1
    <3>1. i \in 1..n
        BY <1>1, <1>2, <2>2
    <3>2. PICK j \in i..(i + BreakAfter - 1) : j \in DOMAIN results => ~Failed(results[j])
        BY <1>1, <3>1 DEF Streak, NoLongStreak
    <3>3. j \in 1..n
        BY SMTT(30), <1>1, <1>2, <2>2, <3>1, <3>2
    <3> QED BY <1>1, <3>2, <3>3
  <2>3. CASE i + BreakAfter - 1 = n + 1
    <3>1. n + 1 - after \in i..(i + BreakAfter - 1) /\ after < n + 1
        BY <1>1, <1>2, <1>3, <2>3
    <3> QED BY <1>4, <3>1
  <2> QED BY <1>1, <1>2, <2>1, <2>2, <2>3
<1>6. NoLongStreak(more)
    BY <1>1, <1>5 DEF NoLongStreak
<1>7. Streak(more, after)
    BY <1>1, <1>3, <1>4, <1>6 DEF Streak
<1> QED BY <1>7

LEMMA StartKeepsVerifyInv == ASSUME VerifyInv, StartVerification PROVE VerifyInv'
<1>1. /\ check.pc = "off" /\ runs \in Nat /\ runs' = runs + 1
      /\ UNCHANGED <<raw, report, page, status, seal>>
    BY DEF StartVerification, VerifyInv
<1>2. PICK ids \in SUBSET {Asked[i] : i \in DOMAIN Asked} :
          /\ ids = {} => Len(Asked) = ExpectedCount
          /\ \A i, j \in Chosen(ids) : Asked[i] = Asked[j] => i = j
          /\ check' = [pc |-> "probe", targeted |-> ids # {}, todo |-> Chosen(ids),
                       results |-> <<>>, failures |-> 0]
    BY DEF StartVerification
<1>3. PICK todo, targeted : todo = Chosen(ids) /\ targeted = (ids # {})
    OBVIOUS
<1>4. check' = [pc |-> "probe", targeted |-> targeted, todo |-> todo, results |-> <<>>, failures |-> 0]
    BY <1>2, <1>3
<1>5. /\ check'.pc = "probe" /\ check'.targeted = targeted /\ check'.todo = todo
      /\ check'.results = <<>> /\ check'.failures = 0
      /\ check' = [pc |-> check'.pc, targeted |-> check'.targeted, todo |-> check'.todo,
                   results |-> check'.results, failures |-> check'.failures]
    BY <1>4
<1>6. <<>> \in Seq(Entries) /\ Len(<<>>) = 0 /\ \A i \in DOMAIN <<>> : FALSE
  <2>1. <<>> \in Seq(Entries) /\ Len(<<>>) = 0
      BY EmptySeq
  <2>2. \A i \in DOMAIN <<>> : FALSE
      OBVIOUS
  <2> QED BY <2>1, <2>2
<1>7. todo \subseteq DOMAIN Asked /\ \A i, j \in todo : Asked[i] = Asked[j] => i = j
    BY <1>2, <1>3 DEF Chosen
<1>8. ~targeted => /\ Len(Asked) = ExpectedCount
                   /\ todo = 1..Len(Asked) /\ 0 <= Len(Asked)
  <2>1. DOMAIN Asked = 1..Len(Asked) /\ Len(Asked) \in Nat
      BY VerificationAssumption, LenProperties
  <2>2. ~targeted => ids = {}
      BY <1>3
  <2>3. ids = {} => todo = DOMAIN Asked
      BY <1>3 DEF Chosen
  <2> QED BY <1>2, <2>1, <2>2, <2>3
<1>9. Streak(<<>>, 0)
    BY <1>6, VerificationAssumption DEF Streak, NoLongStreak
<1>10. AskSound'
  <2>1. Laid(<<>>, raw')
      BY <1>6 DEF Laid
  <2>2. ~targeted => todo = (Len(<<>>) + 1)..Len(Asked) /\ Len(<<>>) <= Len(Asked)
      BY <1>6, <1>8
  <2> QED BY <1>5, <1>6, <1>7, <1>8, <1>9, <2>1, <2>2 DEF AskSound
<1>11. WriteSound'
    BY <1>5 DEF WriteSound
<1>12. SealSound'
    BY <1>1 DEF VerifyInv, SealSound, ReportSound
<1> QED BY <1>1, <1>5, <1>10, <1>11, <1>12 DEF VerifyInv

\* One answer: the run breaks off, or its result is written and appended.
LEMMA AskKeepsVerifyInv == ASSUME VerifyInv, Ask PROVE VerifyInv'
<1>1. /\ check.pc = "ask" /\ runs \in Nat
      /\ check = [pc |-> check.pc, targeted |-> check.targeted, todo |-> check.todo,
                  results |-> check.results, failures |-> check.failures]
      /\ UNCHANGED <<report, page, seal, runs>>
    BY DEF Ask, VerifyInv
<1>2. /\ check.results \in Seq(Entries) /\ Laid(check.results, raw)
      /\ Streak(check.results, check.failures)
      /\ check.todo \subseteq DOMAIN Asked
      /\ \A i, j \in check.todo : Asked[i] = Asked[j] => i = j
      /\ \A i \in DOMAIN check.results, j \in check.todo : check.results[i][1] # Asked[j]
    BY <1>1 DEF VerifyInv, AskSound
<1>3. ~check.targeted =>
          /\ Len(Asked) = ExpectedCount
          /\ check.todo = (Len(check.results) + 1)..Len(Asked)
          /\ Len(check.results) <= Len(Asked)
    BY <1>1 DEF VerifyInv, AskSound
<1> DEFINE AnsweredWith(next, r, failures, q) ==
              IF failures >= BreakAfter
              THEN /\ status' = [run |-> runs, value |-> "INCOMPLETE"]
                   /\ check' = Idle
                   /\ UNCHANGED raw
              ELSE /\ raw' = [p \in DOMAIN raw \cup {q} |-> IF p = q THEN Result(r) ELSE raw[p]]
                   /\ check' = [check EXCEPT !.todo = @ \ {next}, !.failures = failures,
                                             !.results = Append(@, <<q, Result(r)>>)]
                   /\ UNCHANGED status
<1>4. PICK next \in check.todo, r \in Responses :
          /\ \A i \in check.todo : next <= i
          /\ AnsweredWith(next, r, IF ProviderFailure(r) THEN check.failures + 1 ELSE 0, Asked[next])
    BY DEF Ask
<1>5. PICK failures, q : failures = (IF ProviderFailure(r) THEN check.failures + 1 ELSE 0) /\ q = Asked[next]
    OBVIOUS
<1>6. AnsweredWith(next, r, failures, q)
    BY <1>4, <1>5
<1>7. CASE failures >= BreakAfter
  <2>1. check' = Idle /\ UNCHANGED raw
      BY <1>6, <1>7
  <2>2. check'.pc = "off"
      BY <2>1 DEF Idle
  <2> QED BY <1>1, <2>1, <2>2 DEF VerifyInv, AskSound, WriteSound, SealSound, ReportSound
<1>8. CASE ~(failures >= BreakAfter)
  <2>1. /\ raw' = [p \in DOMAIN raw \cup {q} |-> IF p = q THEN Result(r) ELSE raw[p]]
        /\ check' = [check EXCEPT !.todo = @ \ {next}, !.failures = failures,
                                  !.results = Append(@, <<q, Result(r)>>)]
      BY <1>6, <1>8
  <2> HIDE DEF AnsweredWith
  <2>2. PICK result, e : result = Result(r) /\ e = <<q, result>>
      OBVIOUS
  <2>3. PICK todo, results : todo = check.todo \ {next} /\ results = Append(check.results, e)
      OBVIOUS
  <2>4. check' = [pc |-> check.pc, targeted |-> check.targeted, todo |-> todo,
                  results |-> results, failures |-> failures]
      BY <1>1, <2>1, <2>2, <2>3
  <2>5. /\ check'.pc = "ask" /\ check'.targeted = check.targeted /\ check'.todo = todo
        /\ check'.results = results /\ check'.failures = failures
        /\ check' = [pc |-> check'.pc, targeted |-> check'.targeted, todo |-> check'.todo,
                     results |-> check'.results, failures |-> check'.failures]
      BY <1>1, <2>4
  <2>6. e \in Entries /\ e[1] = q /\ e[2] = result /\ result.response = r
    <3>1. result = [run |-> runs, response |-> r]
        BY <2>2 DEF Result
    <3> QED BY <3>1, <1>1, <1>2, <1>5, <2>2 DEF Entries
  <2>7. Streak(results, failures)
    <3>1. failures = (IF Failed(e) THEN check.failures + 1 ELSE 0)
        BY <1>5, <2>6 DEF Failed
    <3> QED BY <3>1, <1>2, <1>8, <2>3, <2>6, StreakGrows
  <2>8. PICK n : n = Len(check.results)
      OBVIOUS
  <2>9. /\ n \in Nat /\ DOMAIN check.results = 1..n
        /\ results \in Seq(Entries) /\ Len(results) = n + 1 /\ DOMAIN results = 1..(n + 1)
        /\ results[n + 1] = e /\ \A i \in 1..n : results[i] = check.results[i]
    <3>1. /\ results \in Seq(Entries) /\ Len(results) = n + 1 /\ results[n + 1] = e
          /\ \A i \in 1..n : results[i] = check.results[i]
        BY <1>2, <2>3, <2>6, <2>8, AppendProperties
    <3>2. n \in Nat /\ DOMAIN check.results = 1..n
        BY <1>2, <2>8, LenProperties
    <3> QED BY <3>1, <3>2, LenProperties
  <2>10. \A i \in 1..(n + 1) : i = n + 1 \/ i \in 1..n
      BY <2>9
  <2>11. Laid(results, raw')
    <3>1. ASSUME NEW i \in 1..n PROVE results[i][1] \in DOMAIN raw' /\ raw'[results[i][1]] = results[i][2]
      <4>1. results[i] = check.results[i] /\ check.results[i][1] # q
          BY <3>1, <1>2, <1>5, <2>9
      <4>2. check.results[i][1] \in DOMAIN raw /\ raw[check.results[i][1]] = check.results[i][2]
          BY <1>2, <2>9 DEF Laid
      <4> QED BY <4>1, <4>2, <2>1
    <3>2. results[n + 1][1] \in DOMAIN raw' /\ raw'[results[n + 1][1]] = results[n + 1][2]
        BY <2>1, <2>2, <2>6, <2>9
    <3> QED BY <3>1, <3>2, <2>9, <2>10 DEF Laid
  <2>12. todo \subseteq DOMAIN Asked /\ \A i, j \in todo : Asked[i] = Asked[j] => i = j
      BY <1>2, <2>3
  <2>13. \A i \in DOMAIN results, j \in todo : results[i][1] # Asked[j]
    <3>1. \A j \in todo : Asked[j] # q /\ j \in check.todo
        BY <1>2, <1>5, <2>3
    <3> QED BY <3>1, <1>2, <2>6, <2>9, <2>10
  <2>14. ~check.targeted =>
             /\ Len(Asked) = ExpectedCount
             /\ todo = (Len(results) + 1)..Len(Asked)
             /\ Len(results) <= Len(Asked)
    <3> SUFFICES ASSUME ~check.targeted
                 PROVE  /\ Len(Asked) = ExpectedCount
                        /\ todo = (Len(results) + 1)..Len(Asked)
                        /\ Len(results) <= Len(Asked)
        OBVIOUS
    <3>1. Len(Asked) = ExpectedCount /\ check.todo = (n + 1)..Len(Asked) /\ Len(Asked) \in Nat
        BY <1>3, <2>8, VerificationAssumption
    <3>2. next \in (n + 1)..Len(Asked) /\ n + 1 <= Len(Asked)
        BY <3>1, <2>9
    <3>3. next = n + 1
        BY <1>4, <2>9, <3>1, <3>2
    <3>4. todo = (n + 2)..Len(Asked)
        BY <2>3, <2>9, <3>1, <3>3
    <3> QED BY <2>9, <3>1, <3>2, <3>4
  <2>15. AskSound'
      BY <2>5, <2>7, <2>9, <2>11, <2>12, <2>13, <2>14 DEF AskSound
  <2>16. WriteSound'
      BY <2>5 DEF WriteSound
  <2>17. SealSound'
      BY <1>1, <2>5 DEF VerifyInv, SealSound, ReportSound
  <2> QED BY <1>1, <2>5, <2>15, <2>16, <2>17 DEF VerifyInv
<1> QED BY <1>7, <1>8

\* A run that stops leaves the files as they are.
LEMMA StopKeepsVerifyInv ==
    ASSUME VerifyInv, check' = Idle, UNCHANGED <<raw, report, page, status, seal, runs>>
    PROVE  VerifyInv'
<1>1. check'.pc = "off"
    BY DEF Idle
<1> QED BY <1>1 DEF VerifyInv, AskSound, WriteSound, SealSound, ReportSound

LEMMA ProbeKeepsVerifyInv == ASSUME VerifyInv, Probe PROVE VerifyInv'
<1>1. check.pc = "probe" /\ UNCHANGED <<raw, report, page, status, seal, runs>>
    BY DEF Probe
<1>2. CASE check' = Idle
    BY <1>1, <1>2, StopKeepsVerifyInv
<1>3. CASE check' = [check EXCEPT !.pc = "ask"]
  <2>1. check' = [pc |-> "ask", targeted |-> check.targeted, todo |-> check.todo,
                  results |-> check.results, failures |-> check.failures]
      BY <1>1, <1>3 DEF VerifyInv
  <2>2. /\ check'.pc = "ask" /\ check'.targeted = check.targeted /\ check'.todo = check.todo
        /\ check'.results = check.results /\ check'.failures = check.failures
        /\ check' = [pc |-> check'.pc, targeted |-> check'.targeted, todo |-> check'.todo,
                     results |-> check'.results, failures |-> check'.failures]
      BY <2>1
  <2>3. AskSound'
      BY <1>1, <2>2 DEF VerifyInv, AskSound
  <2>4. WriteSound'
      BY <2>2 DEF WriteSound
  <2>5. SealSound'
      BY <1>1, <2>2 DEF VerifyInv, SealSound, ReportSound
  <2> QED BY <1>1, <2>2, <2>3, <2>4, <2>5 DEF VerifyInv
<1> QED BY <1>2, <1>3 DEF Probe

\* Going on to write the next file
LEMMA PcMoves ==
    ASSUME VerifyInv, check.pc # "off", NEW pc, check' = [check EXCEPT !.pc = pc]
    PROVE  /\ check' = [pc |-> check'.pc, targeted |-> check'.targeted, todo |-> check'.todo,
                        results |-> check'.results, failures |-> check'.failures]
           /\ check'.pc = pc
<1>1. check' = [pc |-> pc, targeted |-> check.targeted, todo |-> check.todo,
                results |-> check.results, failures |-> check.failures]
    BY DEF VerifyInv
<1> QED BY <1>1

\* The report that replaces an older one is not the one a manifest is of.
LEMMA WriteReportKeepsVerifyInv == ASSUME VerifyInv, WriteReport PROVE VerifyInv'
<1>1. /\ check.pc = "ask" /\ check.todo = {} /\ runs \in Nat
      /\ check' = [check EXCEPT !.pc = "page"]
      /\ UNCHANGED <<raw, page, status, seal, runs>>
    BY DEF WriteReport, VerifyInv
<1>2. PICK passed : passed = Passes(check.results)
    OBVIOUS
<1>3. report' = [run |-> runs, results |-> check.results, targeted |-> check.targeted, passed |-> passed]
    BY <1>2 DEF WriteReport
<1>4. report'.run = runs /\ report'.results = check.results /\ report'.targeted = check.targeted
    BY <1>3
<1>5. /\ check' = [pc |-> check'.pc, targeted |-> check'.targeted, todo |-> check'.todo,
                   results |-> check'.results, failures |-> check'.failures]
      /\ check'.pc = "page"
    BY <1>1, PcMoves
<1>6. ~check.targeted => Len(check.results) = ExpectedCount
  <2>1. Len(Asked) \in Nat /\ Len(check.results) \in Nat
      BY <1>1, VerificationAssumption, LenProperties DEF VerifyInv, AskSound
  <2>2. ~check.targeted =>
            /\ Len(Asked) = ExpectedCount
            /\ {} = (Len(check.results) + 1)..Len(Asked)
            /\ Len(check.results) <= Len(Asked)
      BY <1>1 DEF VerifyInv, AskSound
  <2>3. ASSUME Len(check.results) < Len(Asked) PROVE Len(Asked) \in (Len(check.results) + 1)..Len(Asked)
      BY <2>1, <2>3
  <2> QED BY <2>1, <2>2, <2>3
<1>7. ReportSound(raw)'
    BY <1>1, <1>4, <1>6 DEF ReportSound, VerifyInv, AskSound, Streak
<1>8. WriteSound'
    BY <1>1, <1>4, <1>5, <1>7 DEF WriteSound
<1>9. AskSound'
    BY <1>5 DEF AskSound
<1>10. SealSound'
    BY <1>1, <1>4, <1>5 DEF VerifyInv, SealSound
<1> QED BY <1>1, <1>5, <1>8, <1>9, <1>10 DEF VerifyInv

LEMMA WritePageKeepsVerifyInv == ASSUME VerifyInv, WritePage PROVE VerifyInv'
<1>1. /\ check.pc = "page" /\ page' = runs
      /\ check' = [check EXCEPT !.pc = "status"]
      /\ UNCHANGED <<raw, report, status, seal, runs>>
    BY DEF WritePage
<1>2. /\ check' = [pc |-> check'.pc, targeted |-> check'.targeted, todo |-> check'.todo,
                   results |-> check'.results, failures |-> check'.failures]
      /\ check'.pc = "status"
    BY <1>1, PcMoves
<1>3. AskSound' /\ WriteSound'
    BY <1>1, <1>2 DEF VerifyInv, AskSound, WriteSound, ReportSound
<1>4. SealSound'
    BY <1>1, <1>2 DEF VerifyInv, SealSound, ReportSound
<1> QED BY <1>1, <1>2, <1>3, <1>4 DEF VerifyInv

LEMMA WriteStatusKeepsVerifyInv == ASSUME VerifyInv, WriteStatus PROVE VerifyInv'
<1>1. /\ check.pc = "status" /\ status' = [run |-> runs, value |-> "COMPLETED"]
      /\ check' = [check EXCEPT !.pc = "seal"]
      /\ UNCHANGED <<raw, report, page, seal, runs>>
    BY DEF WriteStatus
<1>2. /\ check' = [pc |-> check'.pc, targeted |-> check'.targeted, todo |-> check'.todo,
                   results |-> check'.results, failures |-> check'.failures]
      /\ check'.pc = "seal"
    BY <1>1, PcMoves
<1>3. AskSound' /\ WriteSound'
    BY <1>1, <1>2 DEF VerifyInv, AskSound, WriteSound, ReportSound
<1>4. SealSound'
    BY <1>1, <1>2 DEF VerifyInv, SealSound, ReportSound
<1> QED BY <1>1, <1>2, <1>3, <1>4 DEF VerifyInv

LEMMA WriteSealKeepsVerifyInv == ASSUME VerifyInv, WriteSeal PROVE VerifyInv'
<1>1. /\ check.pc = "seal" /\ check' = Idle /\ runs \in Nat
      /\ UNCHANGED <<raw, report, page, status, runs>>
    BY DEF WriteSeal, VerifyInv
<1>2. seal' = [raw |-> raw, report |-> report.run, page |-> page, status |-> status]
    BY DEF WriteSeal, Digests
<1>3. seal'.raw = raw /\ seal'.report = report.run /\ seal'.page = page /\ seal'.status = status
    BY <1>2
<1>4. /\ report.run = runs /\ ReportSound(raw) /\ page = runs
      /\ status = [run |-> runs, value |-> "COMPLETED"]
    BY <1>1 DEF VerifyInv, WriteSound
<1>5. check'.pc = "off"
    BY <1>1 DEF Idle
<1>6. AskSound' /\ WriteSound'
    BY <1>5 DEF AskSound, WriteSound
<1>7. SealSound'
    BY <1>1, <1>3, <1>4, <1>5 DEF SealSound, ReportSound
<1> QED BY <1>1, <1>5, <1>6, <1>7 DEF VerifyInv

LEMMA VerifyNextKeepsVerifyInv == ASSUME VerifyInv, [VerifyNext]_verifyVars PROVE VerifyInv'
<1>1. CASE StartVerification
    BY <1>1, StartKeepsVerifyInv
<1>2. CASE Probe
    BY <1>2, ProbeKeepsVerifyInv
<1>3. CASE Ask
    BY <1>3, AskKeepsVerifyInv
<1>4. CASE WriteReport
    BY <1>4, WriteReportKeepsVerifyInv
<1>5. CASE WritePage
    BY <1>5, WritePageKeepsVerifyInv
<1>6. CASE WriteStatus
    BY <1>6, WriteStatusKeepsVerifyInv
<1>7. CASE WriteSeal
    BY <1>7, WriteSealKeepsVerifyInv
<1>8. CASE Break
    BY <1>8, StopKeepsVerifyInv DEF Break
<1>9. CASE UNCHANGED verifyVars
    BY <1>9 DEF verifyVars, VerifyInv, AskSound, WriteSound, SealSound, ReportSound
<1> QED BY <1>1, <1>2, <1>3, <1>4, <1>5, <1>6, <1>7, <1>8, <1>9 DEF VerifyNext

THEOREM VerifyInvariance == VerifySpec => []VerifyInv
<1>1. VerifyInit => VerifyInv
  <2> SUFFICES ASSUME VerifyInit PROVE VerifyInv
      OBVIOUS
  <2>1. check.pc = "off" /\ seal = NotWritten /\ runs = 0
      BY DEF VerifyInit, Idle
  <2> QED BY <2>1 DEF VerifyInv, AskSound, WriteSound, SealSound
<1>2. VerifyInv /\ [VerifyNext]_verifyVars => VerifyInv'
    BY VerifyNextKeepsVerifyInv
<1> QED BY <1>1, <1>2, PTL DEF VerifySpec

\* A directory whose manifest is intact holds one run: report, page, status and
\* raw responses of the same one, complete, and with no BreakAfter failures in a
\* row, whatever other runs left in it (runtime_verification.main).
THEOREM SealsAreOfOneRun == VerifySpec => []SealedIsOneRun
<1>1. ASSUME VerifyInv, Intact
      PROVE  /\ status = [run |-> report.run, value |-> "COMPLETED"] /\ page = report.run
             /\ ~report.targeted => Len(report.results) = ExpectedCount
             /\ Laid(report.results, raw)
             /\ NoLongStreak(report.results)
  <2>1. /\ seal # NotWritten /\ report # NotWritten
        /\ seal.report = report.run /\ seal.page = page /\ seal.status = status
        /\ \A q \in DOMAIN seal.raw : q \in DOMAIN raw /\ raw[q] = seal.raw[q]
      BY <1>1 DEF Intact
  <2>2. /\ seal.status = [run |-> seal.report, value |-> "COMPLETED"] /\ seal.page = seal.report
        /\ ReportSound(seal.raw)
      BY <1>1, <2>1 DEF VerifyInv, SealSound
  <2>3. Laid(report.results, raw)
      BY <2>1, <2>2 DEF ReportSound, Laid
  <2> QED BY <2>1, <2>2, <2>3 DEF ReportSound
<1>2. VerifyInv => SealedIsOneRun
    BY <1>1 DEF SealedIsOneRun, Laid, NoLongStreak, Failed
<1> QED BY <1>2, VerifyInvariance, PTL

-----------------------------------------------------------------------------
(* The evidence of a finding, when the cross-encoder fails *)

LEMMA LeastNumber ==
    ASSUME NEW T, T \subseteq Nat, T # {}
    PROVE  Min(T) \in T /\ \A y \in T : Min(T) <= y
<1>1. PICK W : W = {0..x : x \in T}
    OBVIOUS
<1>2. W \subseteq FiniteSubsetsOf(Nat)
  <2>1. ASSUME NEW x \in T
        PROVE  0..x \in FiniteSubsetsOf(Nat)
    <3>1. x \in Int /\ 0 \in Int
        OBVIOUS
    <3>2. IsFiniteSet(0..x)
        BY <3>1, FS_Interval
    <3> QED BY <3>2 DEF FiniteSubsetsOf
  <2> QED BY <1>1, <2>1
<1>3. W # {}
    BY <1>1
<1>4. PICK w \in W : \A v \in W : ~(<<v, w>> \in StrictSubsetOrdering(Nat))
    BY <1>2, <1>3, FS_StrictSubsetOrderingWellFounded, WFMin
<1>5. PICK x \in T : w = 0..x
    BY <1>1
<1>6. ASSUME NEW y \in T
      PROVE  x <= y
  <2>1. 0..y \in W /\ 0..y \in SUBSET Nat /\ 0..x \in SUBSET Nat
      BY <1>1
  <2>2. ASSUME y < x
        PROVE  FALSE
    <3>1. 0..y \subseteq 0..x
        BY <2>2
    <3>2. x \in 0..x /\ x \notin 0..y
        BY <2>2
    <3>3. <<0..y, 0..x>> \in StrictSubsetOrdering(Nat)
        BY <2>1, <3>1, <3>2 DEF StrictSubsetOrdering
    <3> QED BY <1>4, <1>5, <2>1, <3>3
  <2> QED BY <2>2
<1> QED BY <1>6 DEF Min

\* The positions of S up to i
Upto(S, i) == {j \in S : j <= i}

LEMMA UptoFinite ==
    ASSUME NEW m \in Nat, NEW S, S \subseteq 1..m
    PROVE  /\ IsFiniteSet(S) /\ Cardinality(S) \in Nat
           /\ \A i : IsFiniteSet(Upto(S, i)) /\ Cardinality(Upto(S, i)) \in Nat
<1>1. 1 \in Int /\ m \in Int
    OBVIOUS
<1>2. IsFiniteSet(S)
    BY <1>1, FS_Interval, FS_Subset
<1>3. \A i : Upto(S, i) \in SUBSET S
    BY DEF Upto
<1>4. \A i : IsFiniteSet(Upto(S, i))
    BY <1>2, <1>3, FS_Subset
<1> QED BY <1>2, <1>4, FS_CardinalityType

\* Of k positions, there is an n-th for every n up to k.
LEMMA NthIsThere ==
    ASSUME NEW m \in Nat, NEW S, S \subseteq 1..m, NEW n \in Nat, n >= 1, n <= Cardinality(S)
    PROVE  /\ Nth(S, n) \in S
           /\ Cardinality(Upto(S, Nth(S, n))) = n
<1>1. /\ IsFiniteSet(S) /\ Cardinality(S) \in Nat
      /\ \A i : IsFiniteSet(Upto(S, i)) /\ Cardinality(Upto(S, i)) \in Nat
    BY UptoFinite
<1>11. \A j \in S : j \in Int /\ 1 <= j /\ j <= m
    OBVIOUS
<1>2. PICK Enough : Enough = {i \in 0..m : n <= Cardinality(Upto(S, i))}
    OBVIOUS
<1>3. m \in Enough
  <2>1. Upto(S, m) = S
      BY <1>11 DEF Upto
  <2> QED BY <1>2, <2>1
<1>4. PICK i : i = Min(Enough)
    OBVIOUS
<1>5. i \in Enough /\ \A k \in Enough : i <= k
  <2>1. Enough \subseteq Nat /\ Enough # {}
      BY <1>2, <1>3
  <2> QED BY <1>4, <2>1, LeastNumber
<1>6. i \in 0..m /\ n <= Cardinality(Upto(S, i))
    BY <1>2, <1>5
<1>7. i # 0
  <2>1. Upto(S, 0) = {}
    <3>1. \A j \in S : ~(j <= 0)
        BY <1>11
    <3> QED BY <3>1 DEF Upto
  <2> QED BY <1>6, <2>1, FS_EmptySet
<1>8. Cardinality(Upto(S, i - 1)) < n
  <2>1. i - 1 \in 0..m /\ ~(i <= i - 1)
      BY <1>6, <1>7
  <2>2. i - 1 \notin Enough
      BY <1>5, <2>1
  <2> QED BY <1>1, <1>2, <2>1, <2>2
<1>9. CASE i \notin S
  <2>1. Upto(S, i) = Upto(S, i - 1)
    <3>1. \A j \in S : j <= i <=> j <= i - 1
        BY <1>6, <1>9, <1>11
    <3> QED BY <3>1 DEF Upto
  <2> QED BY <1>1, <1>6, <1>8, <2>1
<1>10. CASE i \in S
  <2>1. Upto(S, i) = Upto(S, i - 1) \cup {i}
    <3>1. \A j \in S : j <= i <=> j <= i - 1 \/ j = i
        BY <1>6, <1>11
    <3> QED BY <1>10, <3>1 DEF Upto
  <2>2. i \notin Upto(S, i - 1)
      BY <1>6 DEF Upto
  <2>3. Cardinality(Upto(S, i)) = Cardinality(Upto(S, i - 1)) + 1
      BY <1>1, <2>1, <2>2, FS_AddElement
  <2>4. Cardinality(Upto(S, i)) = n
      BY <1>1, <1>6, <1>8, <2>3
  <2>5. PICK A : A = {k \in S : Cardinality(Upto(S, k)) = n}
      OBVIOUS
  <2>6. A \subseteq Nat /\ A # {}
    <3>1. A \subseteq S /\ i \in A
        BY <1>10, <2>4, <2>5
    <3> QED BY <1>11, <3>1
  <2>7. Min(A) \in A
      BY <2>6, LeastNumber
  <2>8. Nth(S, n) = Min(A)
      BY <2>5 DEF Nth, Upto
  <2> QED BY <2>5, <2>7, <2>8
<1> QED BY <1>9, <1>10

\* The first positions of a part of the list are those of the whole.
LEMMA NthOfPart ==
    ASSUME NEW S, S \subseteq Nat, IsFiniteSet(S),
           NEW P, P \subseteq S, \A j \in P : \A i \in S : i \notin P => j < i,
           NEW n \in Nat, n <= Cardinality(P)
    PROVE  Nth(P, n) = Nth(S, n)
<1>1. \A i : Upto(S, i) \in SUBSET S
    BY DEF Upto
<1>2. \A i : IsFiniteSet(Upto(S, i)) /\ Cardinality(Upto(S, i)) \in Nat
    BY <1>1, FS_Subset, FS_CardinalityType
<1>3. IsFiniteSet(P) /\ Cardinality(P) \in Nat
    BY FS_Subset, FS_CardinalityType
<1>4. ASSUME NEW i \in P
      PROVE  Upto(P, i) = Upto(S, i)
  <2>1. ASSUME NEW j \in S, j \notin P
        PROVE  ~(j <= i)
    <3>1. i < j /\ i \in Nat /\ j \in Nat
        BY <2>1
    <3> QED BY <3>1
  <2> QED BY <2>1 DEF Upto
<1>5. ASSUME NEW i \in S, i \notin P
      PROVE  Cardinality(Upto(S, i)) # n
  <2>1. P \cup {i} \in SUBSET Upto(S, i)
    <3>1. ASSUME NEW j \in P
          PROVE  j \in S /\ j <= i
      <4>1. j < i /\ i \in Nat /\ j \in Nat /\ j \in S
          BY <1>5
      <4> QED BY <4>1
    <3>2. i <= i
      <4>1. i \in Nat
          OBVIOUS
      <4> QED BY <4>1
    <3> QED BY <3>1, <3>2 DEF Upto
  <2>2. Cardinality(P \cup {i}) = Cardinality(P) + 1
      BY <1>3, <1>5, FS_AddElement
  <2>3. Cardinality(P \cup {i}) <= Cardinality(Upto(S, i))
      BY <1>2, <2>1, FS_Subset
  <2> QED BY <1>2, <1>3, <2>2, <2>3
<1>6. {i \in P : Cardinality(Upto(P, i)) = n} = {i \in S : Cardinality(Upto(S, i)) = n}
    BY <1>4, <1>5
<1> QED BY <1>6 DEF Nth, Upto

LEMMA HeadIsPart ==
    ASSUME NEW S, NEW s \in Seq(S), NEW k \in Nat
    PROVE  /\ FirstOf(s, k) \in Seq(S)
           /\ Len(FirstOf(s, k)) = IF k < Len(s) THEN k ELSE Len(s)
           /\ \A i \in 1..Len(FirstOf(s, k)) : FirstOf(s, k)[i] = s[i]
BY DEF FirstOf

LEMMA FirstsArePositions ==
    ASSUME NEW s \in Seq(Passages)
    PROVE  /\ Firsts(s) \subseteq 1..Len(s)
           /\ Cardinality(Firsts(s)) \in Nat
           /\ Distinct(s) \in Seq(Passages)
           /\ Len(Distinct(s)) = Cardinality(Firsts(s))
<1>1. Firsts(s) \subseteq 1..Len(s) /\ Len(s) \in Nat
    BY DEF Firsts
<1>2. PICK F : F = Firsts(s)
    OBVIOUS
<1>3. PICK c : c = Cardinality(F)
    OBVIOUS
<1>4. c \in Nat
    BY <1>1, <1>2, <1>3, UptoFinite
<1>5. ASSUME NEW n \in 1..c
      PROVE  s[Nth(F, n)] \in Passages
  <2>1. Nth(F, n) \in F
      BY <1>1, <1>2, <1>3, <1>4, NthIsThere
  <2> QED BY <1>1, <1>2, <2>1
<1>6. PICK d : d = [n \in 1..c |-> s[Nth(F, n)]]
    OBVIOUS
<1>7. d \in [1..c -> Passages]
    BY <1>5, <1>6
<1>8. d \in Seq(Passages) /\ Len(d) = c
    BY <1>4, <1>7
<1> QED BY <1>1, <1>2, <1>3, <1>4, <1>6, <1>8 DEF Distinct

\* The passages of a head of the ranking, one per article, begin those of the whole.
LEMMA DistinctOfHead ==
    ASSUME NEW s \in Seq(Passages), NEW k \in Nat, NEW p, p = FirstOf(s, k)
    PROVE  /\ Len(Distinct(p)) <= Len(Distinct(s))
           /\ \A n \in 1..Len(Distinct(p)) : Distinct(p)[n] = Distinct(s)[n]
<1>1. /\ p \in Seq(Passages) /\ Len(p) <= Len(s)
      /\ \A i \in 1..Len(p) : p[i] = s[i]
    BY HeadIsPart
<1>2. PICK P : P = Firsts(p)
    OBVIOUS
<1>3. PICK S : S = Firsts(s)
    OBVIOUS
<1>4. /\ P \subseteq 1..Len(p) /\ Cardinality(P) \in Nat /\ Len(Distinct(p)) = Cardinality(P)
      /\ S \subseteq 1..Len(s) /\ Cardinality(S) \in Nat /\ Len(Distinct(s)) = Cardinality(S)
      /\ Len(p) \in Nat /\ Len(s) \in Nat
    BY <1>1, <1>2, <1>3, FirstsArePositions
<1>5. P = {i \in S : i <= Len(p)}
  <2>1. ASSUME NEW i \in 1..Len(p)
        PROVE  i \in P <=> i \in S
    <3>1. \A j \in 1..(i - 1) : p[j] = s[j]
        BY <1>1, <1>4
    <3>2. i \in DOMAIN p /\ i \in DOMAIN s /\ p[i] = s[i]
        BY <1>1, <1>4
    <3> QED BY <1>2, <1>3, <3>1, <3>2 DEF Firsts
  <2>2. \A i \in S : i <= Len(p) => i \in 1..Len(p)
      BY <1>4
  <2>3. \A i \in P : i <= Len(p)
      BY <1>4
  <2> QED BY <1>4, <2>1, <2>2, <2>3
<1>6. Cardinality(P) <= Cardinality(S)
    BY <1>4, <1>5, UptoFinite, FS_Subset
<1>7. ASSUME NEW n \in 1..Cardinality(P)
      PROVE  Distinct(p)[n] = Distinct(s)[n]
  <2>0. n \in Nat /\ n >= 1 /\ n <= Cardinality(P)
      BY <1>4
  <2>1. Nth(P, n) = Nth(S, n)
    <3>1. S \subseteq Nat /\ IsFiniteSet(S)
      <4>1. PICK ls : ls = Len(s)
          OBVIOUS
      <4>2. ls \in Nat /\ S \subseteq 1..ls
          BY <1>4, <4>1
      <4>3. \A j \in S : j \in Nat
          BY <4>2
      <4> QED BY <4>2, <4>3, UptoFinite
    <3>2. P \subseteq S
        BY <1>5
    <3>3. ASSUME NEW j \in P, NEW i \in S, i \notin P
          PROVE  j < i
      <4>1. PICK lp : lp = Len(p)
          OBVIOUS
      <4>2. j <= lp /\ ~(i <= lp) /\ lp \in Nat /\ j \in Nat /\ i \in Nat
          BY <1>4, <1>5, <3>1, <3>2, <3>3, <4>1
      <4> QED BY <4>2
    <3> QED BY <2>0, <3>1, <3>2, <3>3, NthOfPart
  <2>2. Nth(P, n) \in P
    <3>1. PICK lp : lp = Len(p)
        OBVIOUS
    <3>2. lp \in Nat /\ P \subseteq 1..lp
        BY <1>4, <3>1
    <3> QED BY <2>0, <3>2, NthIsThere
  <2>3. p[Nth(P, n)] = s[Nth(S, n)]
      BY <1>1, <1>4, <2>1, <2>2
  <2>4. n \in 1..Cardinality(S)
      BY <1>4, <1>6
  <2> QED BY <1>2, <1>3, <2>3, <2>4 DEF Distinct
<1> QED BY <1>4, <1>6, <1>7

LEMMA PrefixByElements ==
    ASSUME NEW S, NEW s \in Seq(S), NEW t \in Seq(S), Len(s) <= Len(t),
           \A i \in 1..Len(s) : s[i] = t[i]
    PROVE  IsPrefix(s, t)
<1>1. PICK n : n = Len(s)
    OBVIOUS
<1>2. n \in Nat /\ Len(t) \in Nat /\ n <= Len(t) /\ \A i \in 1..n : s[i] = t[i]
    BY <1>1
<1>3. SubSeq(s, 1, n) = [i \in 1..n |-> s[i]]
    BY <1>1, <1>2
<1>4. SubSeq(t, 1, n) = [i \in 1..n |-> t[i]]
    BY <1>2
<1>5. SubSeq(s, 1, n) = SubSeq(t, 1, n)
    BY <1>2, <1>3, <1>4
<1> QED BY <1>1, <1>5 DEF IsPrefix

\* The head that the cross-encoder gets gives the beginning of the findings' passages.
LEMMA PoolGivesPrefix ==
    ASSUME NEW s \in Seq(Passages), NEW p, p = Pool(s)
    PROVE  /\ IsPrefix(FirstOf(Distinct(p), TopK), FirstOf(Distinct(s), TopK))
           /\ Len(s) <= PoolK => FirstOf(Distinct(p), TopK) = FirstOf(Distinct(s), TopK)
<1>1. TopK \in Nat /\ PoolK \in Nat /\ p = FirstOf(s, PoolK)
    BY EvidenceAssumption DEF Pool
<1>2. p \in Seq(Passages)
    BY <1>1, HeadIsPart
<1>3. PICK d, e : d = Distinct(p) /\ e = Distinct(s)
    OBVIOUS
<1>4. d \in Seq(Passages) /\ e \in Seq(Passages)
    BY <1>2, <1>3, FirstsArePositions
<1>5. Len(d) <= Len(e) /\ \A n \in 1..Len(d) : d[n] = e[n]
    BY <1>1, <1>3, DistinctOfHead
<1>6. PICK x, y : x = FirstOf(d, TopK) /\ y = FirstOf(e, TopK)
    OBVIOUS
<1>7. /\ x \in Seq(Passages) /\ Len(x) = (IF TopK < Len(d) THEN TopK ELSE Len(d))
      /\ \A i \in 1..Len(x) : x[i] = d[i]
    BY <1>1, <1>4, <1>6, HeadIsPart
<1>8. /\ y \in Seq(Passages) /\ Len(y) = (IF TopK < Len(e) THEN TopK ELSE Len(e))
      /\ \A i \in 1..Len(y) : y[i] = e[i]
    BY <1>1, <1>4, <1>6, HeadIsPart
<1>9. Len(x) <= Len(y) /\ \A i \in 1..Len(x) : x[i] = y[i]
    BY <1>1, <1>4, <1>5, <1>7, <1>8
<1>10. IsPrefix(x, y)
    BY <1>7, <1>8, <1>9, PrefixByElements
<1>11. Len(s) <= PoolK => p = s
    BY <1>1 DEF FirstOf
<1> QED BY <1>3, <1>6, <1>10, <1>11

\* The passages are those of the lexical order, or begin it.
LexicalOrder ==
    /\ IsPrefix(sources, FirstOf(Distinct(matches), TopK))
    /\ Len(matches) <= PoolK => sources = FirstOf(Distinct(matches), TopK)

\* Until the next category, matches holds the ranking the other two come from,
\* and no scores mean that the cross-encoder had no say.
EvidenceInv ==
    /\ matches \in Seq(Passages)
    /\ stage = "rerank" => candidates = Pool(matches)
    /\ stage \in {"analyse", "next"} /\ scores = Unknown => LexicalOrder

LEMMA RankedIsSequence ==
    ASSUME NEW lexical, NEW s \in Ranked(lexical)
    PROVE  s \in Seq(Passages)
<1>1. PICK M : M = {c \in Passages : Ranking(lexical, c) > 0}
    OBVIOUS
<1>2. s \in [1..Cardinality(M) -> M]
    BY <1>1 DEF Ranked, SetToSeqs
<1>3. M \subseteq Passages
    BY <1>1
<1>4. Cardinality(M) \in Nat
    BY <1>3, EvidenceAssumption, FS_Subset, FS_CardinalityType
<1> QED BY <1>2, <1>3, <1>4

THEOREM EvidenceInvariance == DraftSpec => []EvidenceInv
<1>1. DraftInit => EvidenceInv
    BY DEF DraftInit, EvidenceInv
<1>2. EvidenceInv /\ [DraftNext]_draftVars => EvidenceInv'
  <2> SUFFICES ASSUME EvidenceInv, [DraftNext]_draftVars
               PROVE  EvidenceInv'
      OBVIOUS
  <2> USE DEF EvidenceInv, LexicalOrder
  <2>1. CASE Load
      BY <2>1 DEF Load
  <2>2. CASE FindExcerpt
      BY <2>2 DEF FindExcerpt
  <2>3. CASE Retrieve
    <3>1. PICK lexical \in [Passages -> 0..MaxRaw] : matches' \in Ranked(lexical)
        BY <2>3 DEF Retrieve
    <3>2. matches' \in Seq(Passages)
        BY <3>1, RankedIsSequence
    <3>3. CASE reranker = "off"
      <4>1. PICK d, x : d = Distinct(matches') /\ x = FirstOf(d, TopK)
          OBVIOUS
      <4>2. x \in Seq(Passages)
        <5>1. d \in Seq(Passages)
            BY <3>2, <4>1, FirstsArePositions
        <5> QED BY <4>1, <5>1, HeadIsPart, EvidenceAssumption
      <4>3. Len(x) <= Len(x)
          BY <4>2
      <4>4. IsPrefix(x, x)
          BY <4>2, <4>3, PrefixByElements
      <4>5. stage' = "analyse" /\ sources' = x
          BY <2>3, <3>3, <4>1 DEF Retrieve
      <4> QED BY <3>2, <4>1, <4>4, <4>5
    <3>4. CASE reranker # "off"
      <4>1. stage' = "rerank" /\ candidates' = Pool(matches')
          BY <2>3, <3>4 DEF Retrieve
      <4> QED BY <3>2, <4>1
    <3> QED BY <3>3, <3>4
  <2>4. CASE Rerank
    <3>1. scores' # Unknown
      <4>1. PICK m : m = Len(candidates)
          OBVIOUS
      <4>2. candidates \in Seq(Passages) /\ Len(candidates) <= PoolK /\ Len(candidates) \in Nat
        <5>1. candidates = FirstOf(matches, PoolK) /\ PoolK \in Nat
            BY <2>4, EvidenceAssumption DEF Rerank, Pool
        <5>2. /\ candidates \in Seq(Passages)
              /\ Len(candidates) = (IF PoolK < Len(matches) THEN PoolK ELSE Len(matches))
            BY <5>1, HeadIsPart
        <5>3. Len(matches) \in Nat
            OBVIOUS
        <5> QED BY <5>1, <5>2, <5>3
      <4>3. m \in 0..PoolK /\ DOMAIN candidates = 1..m
          BY <4>1, <4>2, EvidenceAssumption
      <4>4. scores' \in [1..m -> 0..MaxScore]
          BY <2>4, <4>3 DEF Rerank
      <4> QED BY <4>3, <4>4, EvidenceAssumption
    <3>2. stage' = "analyse" /\ matches' = matches
        BY <2>4 DEF Rerank
    <3> QED BY <3>1, <3>2
  <2>5. CASE ScorerFails
    <3>1. candidates = Pool(matches) /\ matches' = matches
        BY <2>5 DEF ScorerFails
    <3>2. CASE reranker = "open"
      <4>1. stage' = "analyse" /\ sources' = FirstOf(Distinct(candidates), TopK)
          BY <2>5, <3>2 DEF ScorerFails, Baseline
      <4>2. /\ IsPrefix(sources', FirstOf(Distinct(matches), TopK))
            /\ Len(matches) <= PoolK => sources' = FirstOf(Distinct(matches), TopK)
          BY <3>1, <4>1, PoolGivesPrefix
      <4> QED BY <3>1, <4>1, <4>2
    <3>3. CASE reranker # "open"
        BY <2>5, <3>1, <3>3 DEF ScorerFails
    <3> QED BY <3>2, <3>3
  <2>6. CASE Analyse
      BY <2>6 DEF Analyse
  <2>7. CASE NextCategory
    <3>1. stage' # "rerank" /\ stage' \notin {"analyse", "next"} /\ matches' = <<>>
        BY <2>7 DEF NextCategory
    <3>2. <<>> \in Seq(Passages)
        OBVIOUS
    <3> QED BY <3>1, <3>2
  <2>8. CASE UNCHANGED draftVars
      BY <2>8 DEF draftVars
  <2> QED BY <2>1, <2>2, <2>3, <2>4, <2>5, <2>6, <2>7, <2>8 DEF DraftNext
<1> QED BY <1>1, <1>2, PTL DEF DraftSpec

\* When the cross-encoder fails, a finding gets the passages it would get with
\* the cross-encoder switched off, or the beginning of them (ScorerFails).
THEOREM FallbackFollowsLexicalOrder == DraftSpec => []FallbackKeepsOrder
<1>1. EvidenceInv => FallbackKeepsOrder
    BY DEF EvidenceInv, LexicalOrder, FallbackKeepsOrder, Selected
<1> QED BY <1>1, EvidenceInvariance, PTL

=============================================================================
