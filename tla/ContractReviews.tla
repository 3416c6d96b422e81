--------------------------- MODULE ContractReviews ---------------------------
(***************************************************************************)
(* The stored contract reviews: POST, GET (list and detail) and DELETE of  *)
(* /contract-reviews, statement by statement.                              *)
(*                                                                         *)
(* A review is written with its findings and their sources in one commit;  *)
(* it is read back in three SELECTs (the row, its findings, the sources of *)
(* the findings), each of which sees what is committed when it runs. POST  *)
(* is a coroutine without an await after the upload is read, so one POST   *)
(* runs at a time; the other handlers run in threads and interleave with   *)
(* it. The draft itself is the subject of EvidenceSelection.               *)
(***************************************************************************)
EXTENDS Naturals, Sequences, FiniteSets, SequencesExt

CONSTANTS
    Users,
    OldReviews, \* reviews there from the start
    Requests,   \* HTTP requests; the review a POST stores has its id
    Limit,      \* page size of a list request
    None        \* Python's None

Reviews == OldReviews \cup Requests

ReviewOutcomes == {"ok", "refused", "not_found", "crashed", "unavailable"}

ASSUME ReviewsAssumption ==
    /\ OldReviews \cap Requests = {} /\ IsFiniteSet(OldReviews)
    /\ None \notin Reviews \cup Users \cup ReviewOutcomes
    /\ Limit \in 1..100

VARIABLES
    stored,     \* the reviews committed so far, oldest first
    gone,       \* those that have been deleted
    owner,      \* owner[v]: the user of review v, None before v is created
    req         \* req[r]: the request

vars == <<stored, gone, owner, req>>
rows == <<stored, gone, owner>>

NewRequest(kind, user, pc, v, all) ==
    [kind |-> kind, user |-> user, pc |-> pc, review |-> v, page |-> {},
     findings |-> {}, sources |-> FALSE, all |-> all, outcome |-> None]

NoRequest == NewRequest(None, None, "idle", None, {})

Init ==
    /\ stored \in SetToSeqs(OldReviews)
    /\ gone = {}
    /\ owner \in [Reviews -> Users \cup {None}]
    /\ \A v \in Reviews : owner[v] = None <=> v \in Requests
    /\ req = [r \in Requests |-> NoRequest]

\* The rows there are; findings and sources go with their review.
Live == Range(stored) \ gone
OwnedBy(u) == {v \in Live : owner[v] = u}

Goto(r, pc) == req' = [req EXCEPT ![r].pc = pc]
Finish(r, outcome) == req' = [req EXCEPT ![r].pc = "done", ![r].outcome = outcome]

\* A request arrives; `all` notes what its user had stored then.
Arrive(r, kind, pc, v) ==
    /\ req[r].pc = "idle"
    /\ \E u \in Users : req' = [req EXCEPT ![r] = NewRequest(kind, u, pc, v, OwnedBy(u))]
    /\ UNCHANGED rows

-----------------------------------------------------------------------------
(* POST /contract-reviews *)

PostArrives(r) == Arrive(r, "post", "upload", r)

\* No other POST is between its upload and its response.
LoopFree == \A q \in Requests : req[q].kind = "post" => req[q].pc \in {"upload", "done"}

\* The file is unreadable (422) or no evidence can be retrieved (503), or the
\* draft is ready; nothing is written before.
Draft(r) ==
    /\ req[r].kind = "post" /\ req[r].pc = "upload"
    /\ LoopFree
    /\ Finish(r, "refused") \/ Goto(r, "commit")
    /\ UNCHANGED rows

Author(r) == req[r].user

\* create_contract_review: every flush and the one commit.
Commit(r) ==
    /\ req[r].kind = "post" /\ req[r].pc = "commit"
    /\ stored' = Append(stored, r)
    /\ owner' = [owner EXCEPT ![r] = Author(r)]
    /\ Goto(r, "row")
    /\ UNCHANGED gone

-----------------------------------------------------------------------------
(* _owned_review: used by POST (twice) and by GET /{review_id} *)

GetArrives(r) == \E v \in Reviews : Arrive(r, "get", "row", v)

\* What the WHERE clauses let a request see
Visible(r) == OwnedBy(req[r].user)

\* SELECT of the row. ContractReviewNotFoundError is a 404 in GET and DELETE;
\* in POST nothing catches it.
NotFound(r) == IF req[r].kind = "post" THEN "crashed" ELSE "not_found"

ReadRow(r) ==
    /\ req[r].kind \in {"post", "get"} /\ req[r].pc = "row"
    /\ IF req[r].review \in Visible(r)
       THEN Goto(r, "findings")
       ELSE Finish(r, NotFound(r))
    /\ UNCHANGED rows

\* SELECT of the findings; a row without findings needs no third statement.
ReadFindings(r) ==
    /\ req[r].kind \in {"post", "get"} /\ req[r].pc = "findings"
    /\ LET found == {req[r].review} \cap Live
           next == IF req[r].kind = "post" THEN "again" ELSE "respond"
       IN req' = [req EXCEPT ![r].pc = IF found = {} THEN next ELSE "sources",
                             ![r].findings = found]
    /\ UNCHANGED rows

ReadSources(r) ==
    /\ req[r].kind \in {"post", "get"} /\ req[r].pc = "sources"
    /\ req' = [req EXCEPT ![r].pc = IF req[r].kind = "post" THEN "again" ELSE "respond",
                          ![r].sources = req[r].review \in Live]
    /\ UNCHANGED rows

\* Mutant: POST answers with the record it has, without the second query.
AnswerAtOnce(r) == TRUE

\* POST asks for the review once more; the relations already loaded are kept.
StillThere(r) == req[r].review \in Visible(r)

ReadAgain(r) ==
    /\ req[r].pc = "again"
    /\ IF StillThere(r) THEN Goto(r, "respond") ELSE Finish(r, NotFound(r))
    /\ UNCHANGED rows

Respond(r) ==
    /\ req[r].pc = "respond"
    /\ Finish(r, "ok")
    /\ UNCHANGED rows

-----------------------------------------------------------------------------
(* GET /contract-reviews *)

ListArrives(r) == Arrive(r, "list", "count", None)

\* The total of the response is read first.
Count(r) ==
    /\ req[r].pc = "count"
    /\ Goto(r, "page")
    /\ UNCHANGED rows

Newer(w, v) == \E i, j \in DOMAIN stored : i < j /\ stored[i] = v /\ stored[j] = w

\* The newest reviews of the user, at most Limit (offset 0)
IsPage(r, page) ==
    /\ page \subseteq Visible(r)
    /\ Cardinality(page) = IF Cardinality(Visible(r)) < Limit THEN Cardinality(Visible(r)) ELSE Limit
    /\ \A w \in page, v \in Visible(r) \ page : Newer(w, v)

ReadPage(r) ==
    /\ req[r].pc = "page"
    /\ \E page \in SUBSET Visible(r) :
        /\ IsPage(r, page)
        /\ req' = [req EXCEPT ![r].pc = IF page = {} THEN "respond" ELSE "page_findings",
                              ![r].page = page]
    /\ UNCHANGED rows

\* The findings of the page; an item whose findings are gone counts none.
ReadPageFindings(r) ==
    /\ req[r].pc = "page_findings"
    /\ req' = [req EXCEPT ![r].pc = "respond", ![r].findings = req[r].page \cap Live]
    /\ UNCHANGED rows

-----------------------------------------------------------------------------
(* DELETE /contract-reviews/{review_id} *)

DeleteArrives(r) == \E v \in Reviews : Arrive(r, "delete", "select", v)

Select(r) ==
    /\ req[r].pc = "select"
    /\ IF req[r].review \in Visible(r) THEN Goto(r, "delete") ELSE Finish(r, "not_found")
    /\ UNCHANGED rows

\* The children loaded for the cascade, the row, and by the database's own
\* cascade whatever else refers to it. A row deleted meanwhile is no error.
Delete(r) ==
    /\ req[r].kind = "delete" /\ req[r].pc = "delete"
    /\ gone' = gone \cup {req[r].review}
    /\ Finish(r, "ok")
    /\ UNCHANGED <<stored, owner>>

-----------------------------------------------------------------------------

\* A statement fails (rollback, 503). A commit whose reply is lost has been
\* applied or not.
Lost(r) ==
    /\ req[r].pc \notin {"idle", "upload", "respond", "done"}
    /\ req' = [req EXCEPT ![r].pc = "done", ![r].outcome = "unavailable"]
    /\ \/ UNCHANGED rows
       \/ /\ req[r].pc = "commit"
          /\ stored' = Append(stored, r) /\ owner' = [owner EXCEPT ![r] = Author(r)]
          /\ UNCHANGED gone
       \/ /\ req[r].kind = "delete" /\ req[r].pc = "delete"
          /\ gone' = gone \cup {req[r].review}
          /\ UNCHANGED <<stored, owner>>

Handle(r) ==
    \/ Draft(r) \/ Commit(r)
    \/ ReadRow(r) \/ ReadFindings(r) \/ ReadSources(r) \/ ReadAgain(r) \/ Respond(r)
    \/ Count(r) \/ ReadPage(r) \/ ReadPageFindings(r)
    \/ Select(r) \/ Delete(r)

Next ==
    \E r \in Requests :
        \/ PostArrives(r) \/ GetArrives(r) \/ ListArrives(r) \/ DeleteArrives(r)
        \/ Handle(r)
        \/ Lost(r)

Spec == Init /\ [][Next]_vars

-----------------------------------------------------------------------------

RequestStates ==
    [kind : {"post", "get", "list", "delete", None}, user : Users \cup {None},
     pc : {"idle", "upload", "commit", "row", "findings", "sources", "again", "respond",
           "count", "page", "page_findings", "select", "delete", "done"},
     review : Reviews \cup {None}, page : SUBSET Reviews, findings : SUBSET Reviews,
     sources : BOOLEAN, all : SUBSET Reviews, outcome : ReviewOutcomes \cup {None}]

TypeOK ==
    /\ stored \in Seq(Reviews) /\ IsInjective(stored)
    /\ gone \subseteq Range(stored)
    /\ owner \in [Reviews -> Users \cup {None}] /\ \A v \in Range(stored) : owner[v] # None
    /\ req \in [Requests -> RequestStates]

Answered(r, kind) == req[r].kind = kind /\ req[r].outcome = "ok"

\* No report is torn without a reason: the answer to an upload is the whole
\* report, because the second lookup of the route turns one that is deleted
\* between the three reads into an error; and a detail page without findings,
\* or with findings without sources, is only ever that of a review deleted
\* while it was read.
ReportsAreWhole ==
    \A r \in Requests :
        LET whole == req[r].findings = {req[r].review} /\ req[r].sources IN
        /\ Answered(r, "post") => whole
        /\ Answered(r, "get") => whole \/ req[r].review \in gone

\* A review its user had when the list was asked for, and still has, is in
\* the list unless newer reviews fill the page.
ListMissesNothing ==
    \A r \in Requests :
        Answered(r, "list") =>
            \A v \in req[r].all \ (gone \cup req[r].page) :
                /\ Cardinality(req[r].page) = Limit
                /\ \A w \in req[r].page \ gone : Newer(w, v)

\* What uploads, openings and lists answer while reviews come and go, though
\* each answer is put together from several statements without a snapshot.
AnswersHold == ReportsAreWhole /\ ListMissesNothing
=============================================================================
