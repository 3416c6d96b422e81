----------------------------- MODULE LabelReview -----------------------------
(***************************************************************************)
(* How the labels of an answer-quality dataset become a locked golden set: *)
(* apply_adjudication.py writes the labels of the model panel into the     *)
(* draft, create_human_review_packet.py shows them to a reviewer, whose    *)
(* decisions apply_human_review.py applies and whose result                *)
(* lock_human_adjudicated_dataset.py enables for the benchmark. The        *)
(* programs are run one after another, by hand. Each reads its inputs and  *)
(* compares the digest of the corpus, then reads the corpus once more, and *)
(* people rewrite every file at any time, also in between. A review does   *)
(* not name the dataset it reviewed.                                       *)
(***************************************************************************)
EXTENDS Integers, FiniteSets

CONSTANTS
    Cases,         \* the questions of the dataset
    Answerable,    \* those that expect an answer
    Labels,        \* sets of claims a case may be labelled with
    CitesOf,       \* [Labels -> the <<chunk, article>> pairs of the claims]
    EvidenceOf,    \* [Cases -> the chunks its claims may cite]
    ArticlesOf,    \* [Cases -> the articles its claims may cite]
    Corpora,       \* contents of the corpus file
    Bound,         \* the one whose digest the dataset names
    ArticleOf,     \* [Corpora -> [its chunks -> article]]
    Adjudications, \* contents of the adjudication artifact
    NoClaims,      \* the label without claims
    NoFile

ASSUME LabelAssumption ==
    /\ Answerable \subseteq Cases
    /\ NoClaims \in Labels /\ CitesOf[NoClaims] = {}
    /\ \A l \in Labels \ {NoClaims} : CitesOf[l] # {}  \* schema.py:74
    /\ \A a \in Adjudications : DOMAIN a \subseteq Cases /\ \A q \in DOMAIN a : a[q] \in Labels

VARIABLES
    corpus,   \* what the corpus file holds
    reviewed, \* multi_llm_reviewed_questions.json: [Cases -> Labels]
    form,     \* human-review.json: what it shows and what was decided
    golden,   \* human_adjudicated_questions.json, locked or not
    running   \* the program that compared the corpus's digest, with its inputs

labelVars == <<corpus, reviewed, form, golden, running>>

\* The draft holds no claims.
Unlabelled == [q \in Cases |-> NoClaims]

LabelInit ==
    /\ corpus = Bound
    /\ reviewed = NoFile /\ form = NoFile /\ golden = NoFile /\ running = NoFile

-----------------------------------------------------------------------------
(* What the schema and the corpus allow *)

\* Claims cite what their case lists ...
Allowed(q, label) == \A c \in CitesOf[label] : c[1] \in EvidenceOf[q] /\ c[2] \in ArticlesOf[q]

\* ... each chunk under its own article in a corpus.
Supported(q, label, content) ==
    /\ Allowed(q, label)
    /\ \A c \in CitesOf[label] : c[1] \in DOMAIN ArticleOf[content] /\ ArticleOf[content][c[1]] = c[2]

\* Only an answerable case has required claims; an adjudicated one must.
WellFormed(q, label) == Allowed(q, label) /\ (q \notin Answerable => label = NoClaims)
Adjudicated(q, label) == (label # NoClaims) <=> q \in Answerable

-----------------------------------------------------------------------------
(* People *)

ReplaceCorpus ==
    /\ \E content \in Corpora \ {corpus} : corpus' = content
    /\ UNCHANGED <<reviewed, form, golden, running>>

\* A file that does not fit the schema is one that no program reads.
Loadable == {l \in [Cases -> Labels] : \A q \in Cases : WellFormed(q, l[q])}

RewriteReviewed ==
    /\ \E label \in Loadable : reviewed' = label
    /\ UNCHANGED <<corpus, form, golden, running>>

\* Claims come with "edit" only; with none it leaves those of the dataset.
Decisions ==
    [decision : {"accept", "reject"}, edited : {NoClaims}] \cup [decision : {"edit"}, edited : Labels]

\* The reviewer fills in the form. In the name of a model, or of nobody, it
\* does not load, and is as good as blank.
FillForm ==
    /\ form # NoFile /\ form.decided = NoFile
    /\ \E decisions \in [Cases -> Decisions] : form' = [form EXCEPT !.decided = decisions]
    /\ UNCHANGED <<corpus, reviewed, golden, running>>

\* The output of the review is rewritten, with its statuses and a person's name.
RewriteGolden ==
    /\ \E label \in Loadable :
        golden' = [locked |-> FALSE, byHand |-> TRUE, label |-> label,
                   torn |-> FALSE, stale |-> {}, agreed |-> [q \in Cases |-> {}]]
    /\ UNCHANGED <<corpus, reviewed, form, running>>

-----------------------------------------------------------------------------
(* The programs: the inputs, and the digest of the corpus *)

Start(program) ==
    /\ running = NoFile /\ corpus = Bound
    /\ running' = program
    /\ UNCHANGED <<corpus, reviewed, form, golden>>

\* The dataset of the command line: the draft is admitted as well.
Sources == {Unlabelled} \cup (IF reviewed = NoFile THEN {} ELSE {reviewed})

StartAdjudication == \E a \in Adjudications : Start([program |-> "adjudication", claims |-> a])

StartPacket == \E shown \in Sources : Start([program |-> "packet", shown |-> shown])

\* What the reviewer stands for: the claims written instead, or those shown.
Rewritten(d) == d.decision = "edit" /\ d.edited # NoClaims
Agreed(shown, d) == IF d.decision = "reject" THEN {} ELSE IF Rewritten(d) THEN {d.edited} ELSE {shown}

\* The claims a case leaves the review with. An empty edit is no edit.
LabelAfter(base, d) == IF Rewritten(d) THEN d.edited ELSE base

\* Mutant: a rejected case keeps its claims and passes.
ClosedToBlanks(decisions) == \A q \in Cases : decisions[q].decision \in {"accept", "edit", "reject"}

\* One case that is rejected stops the review of all.
Closed(decisions) == \A q \in Cases : decisions[q].decision \in {"accept", "edit"}

\* What the dataset and the form make of the review; "stale" are the cases whose
\* shown claims are no longer those of the dataset.
ReviewOf(source) ==
    LET decisions == form.decided IN
        [program |-> "review",
         label |-> [q \in Cases |-> LabelAfter(source[q], decisions[q])],
         stale |-> {q \in Cases : ~Rewritten(decisions[q]) /\ source[q] # form.shown[q]},
         agreed |-> [q \in Cases |-> Agreed(form.shown[q], decisions[q])]]

StartReview ==
    /\ form # NoFile /\ form.decided # NoFile
    /\ Closed(form.decided)
    /\ \E source \in Sources : Start(ReviewOf(source))

-----------------------------------------------------------------------------
(* The programs: the corpus as it is by then, and the output *)

Ready(program) == running # NoFile /\ running.program = program

\* Whatever is refused leaves all files as they are; so does an interruption.
GiveUp ==
    /\ running # NoFile /\ running' = NoFile
    /\ UNCHANGED <<corpus, reviewed, form, golden>>

ApplyAdjudication ==
    /\ Ready("adjudication") /\ DOMAIN running.claims = Cases
    /\ \A q \in Cases : Adjudicated(q, running.claims[q]) /\ Supported(q, running.claims[q], corpus)
    /\ reviewed' = running.claims /\ running' = NoFile
    /\ UNCHANGED <<corpus, form, golden>>

\* A form that was already filled in is overwritten.
CreatePacket ==
    /\ Ready("packet") /\ \A q \in Cases : EvidenceOf[q] \subseteq DOMAIN ArticleOf[corpus]
    /\ form' = [shown |-> running.shown, decided |-> NoFile] /\ running' = NoFile
    /\ UNCHANGED <<corpus, reviewed, golden>>

ApplyReview ==
    /\ Ready("review")
    /\ \A q \in Cases : Supported(q, running.label[q], corpus) /\ WellFormed(q, running.label[q])
    /\ golden' = [locked |-> FALSE, byHand |-> FALSE, label |-> running.label,
                  torn |-> corpus # Bound, stale |-> running.stale, agreed |-> running.agreed]
    /\ running' = NoFile
    /\ UNCHANGED <<corpus, reviewed, form>>

\* The lock reads the set and the corpus's digest, each once, and nothing
\* else: it asks for statuses, a person's name and the schema.
Lock ==
    /\ running = NoFile /\ corpus = Bound
    /\ golden # NoFile /\ ~golden.locked
    /\ \A q \in Cases : Adjudicated(q, golden.label[q])
    /\ golden' = [golden EXCEPT !.locked = TRUE]
    /\ UNCHANGED <<corpus, reviewed, form, running>>

LabelNext ==
    \/ ReplaceCorpus \/ RewriteReviewed \/ FillForm \/ RewriteGolden
    \/ StartAdjudication \/ StartPacket \/ StartReview \/ GiveUp
    \/ ApplyAdjudication \/ CreatePacket \/ ApplyReview \/ Lock

LabelSpec == LabelInit /\ [][LabelNext]_labelVars

-----------------------------------------------------------------------------
(* Properties *)

\* Every locked case keeps to what it lists and, where an answer is expected,
\* has claims; and if the locked set came out of the review, somebody decided
\* every case: the claims are those written in the form or else those it
\* showed, and stand in the corpus under the articles they name. The programs
\* cannot notice three things, and for each the rest still holds: the form
\* showed other claims than the dataset it was applied to
\* (apply_human_review.py:103 compares case ids only); the corpus was replaced
\* between its digest and its content (apply_human_review.py:93-95); and the
\* reviewed set was rewritten by hand before the lock, which asks for statuses
\* and the schema only (lock_human_adjudicated_dataset.py:53-87), so that
\* nothing of the review is left.
LockedMeansDecided ==
    golden # NoFile /\ golden.locked =>
        \A q \in Cases :
            /\ Allowed(q, golden.label[q])
            /\ q \in Answerable => CitesOf[golden.label[q]] # {}
            /\ ~golden.byHand =>
                /\ golden.agreed[q] # {}
                /\ q \in golden.stale \/ golden.label[q] \in golden.agreed[q]
                /\ golden.torn \/ Supported(q, golden.label[q], Bound)
=============================================================================
