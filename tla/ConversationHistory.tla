-------------------------- MODULE ConversationHistory --------------------------
(***************************************************************************)
(* The conversation history of one signed-in user: POST /ask with its      *)
(* record_exchange, and the endpoints for conversations and bookmarks.     *)
(* /ask is a coroutine, so its statements after the model's answer run on  *)
(* the event loop one request at a time; the other handlers run in threads *)
(* and interleave with it at every statement.                              *)
(*                                                                         *)
(* Every statement reads what is committed (READ COMMITTED). A handler     *)
(* writes in one flush directly followed by the commit: writers of a row   *)
(* wait for its holder and readers see the old row, so flush and commit    *)
(* are one step. The sessions have autoflush and expire_on_commit off.     *)
(* Ids of other users' rows behave like ids of no row at all, because each *)
(* query filters by user_id.                                               *)
(***************************************************************************)
EXTENDS Naturals, FiniteSets

CONSTANTS
    OldConvs,   \* conversations there from the start
    OldAnswers, \* exchanges there from the start
    Requests,   \* HTTP requests; the rows a request inserts have its id
    Notes,      \* notes of a bookmark
    None        \* Python's None

Convs == OldConvs \cup Requests
Exchanges == OldAnswers \cup Requests

RequestKinds == {"ask", "create", "delete", "rename", "put", "unmark", "list"}
Outcomes == {"saved", "unsaved", "error", "ok", "not_found", "unavailable", "http_500"}

ASSUME IdsAssumption ==
    /\ OldConvs \cap Requests = {}
    /\ OldAnswers \cap Requests = {}
    /\ None \notin Convs \cup Exchanges \cup Notes \cup RequestKinds \cup Outcomes
    /\ OldConvs # {}

VARIABLES
    conv,       \* conv[c]: "absent", "live" or "gone"
    title,      \* title[c]: the request that renamed c last, or None
    question,   \* question[x]: the conversation of the user message, or None
    answer,     \* answer[x]: the conversation of the assistant message, or None
    marks,      \* marks[x]: the bookmark row of answer x; row None if none
    removals,   \* committed deletions of conversations and bookmarks (history)
    req         \* req[r]: the request

vars == <<conv, title, question, answer, marks, removals, req>>

NoMark == [row |-> None, note |-> None]

NoRequest ==
    [kind |-> None, pc |-> "idle", conv |-> None, answer |-> None, note |-> None,
     seen |-> NoMark, title |-> None, listed |-> {}, since |-> 0, failed |-> FALSE,
     outcome |-> None]

Init ==
    /\ conv = [c \in Convs |-> IF c \in OldConvs THEN "live" ELSE "absent"]
    /\ title = [c \in Convs |-> None]
    /\ question \in [Exchanges -> OldConvs \cup {None}]
    /\ \A x \in Exchanges : question[x] # None <=> x \in OldAnswers
    /\ answer = question
    /\ marks \in [Exchanges -> {NoMark} \cup [row : OldAnswers, note : Notes]]
    /\ \A x \in Exchanges : marks[x].row \in IF x \in OldAnswers THEN {None, x} ELSE {None}
    /\ removals = 0
    /\ req = [r \in Requests |-> NoRequest]

Live(c) == conv[c] = "live"

Arrive(r, kind, pc, c, x) ==
    [NoRequest EXCEPT !.kind = kind, !.pc = pc, !.conv = c, !.answer = x, !.since = removals]

Goto(r, pc) == [req EXCEPT ![r].pc = pc]
Finish(r, outcome) == [req EXCEPT ![r].pc = "done", ![r].outcome = outcome]

rows == <<conv, title, question, answer, marks, removals>>

-----------------------------------------------------------------------------
(* POST /ask *)

\* The ownership check comes before the model is called; the conversation row
\* it loads stays in the session.
AskArrives(r) ==
    /\ req[r].pc = "idle"
    /\ \E c \in Convs \cup {None} :
        req' = [req EXCEPT ![r] =
            IF c = None THEN Arrive(r, "ask", "answering", c, None)
            ELSE IF Live(c)
            THEN [Arrive(r, "ask", "answering", c, None) EXCEPT !.title = title[c]]
            ELSE [Arrive(r, "ask", "done", c, None) EXCEPT !.outcome = "not_found"]]
    /\ UNCHANGED rows

\* No other request is between the model's answer and its response.
LoopFree == \A q \in Requests : req[q].kind = "ask" => req[q].pc \in {"idle", "answering", "done"}

\* The service answers, or raises an HTTP error; nothing is stored then.
Answered(r) ==
    /\ req[r].pc = "answering"
    /\ LoopFree
    /\ req' = Goto(r, "recheck") \/ req' = Finish(r, "error")
    /\ UNCHANGED rows

\* The conversation an ask continues has been deleted meanwhile.
Lost(r) == req[r].conv # None /\ ~Live(req[r].conv)

\* record_exchange selects the conversation again.
Recheck(r) ==
    /\ req[r].pc = "recheck"
    /\ req' = IF Lost(r) THEN Finish(r, "unsaved") ELSE Goto(r, "record")
    /\ UNCHANGED rows

\* Where the exchange of r goes
TargetOf(r) == IF req[r].conv = None THEN r ELSE req[r].conv

\* Mutant: the whole conversation row is written, as loaded before the answer.
LoadedTitle(r) == req[r].title

\* The UPDATE of the conversation writes updated_at only.
WrittenTitle(r) == title[TargetOf(r)]

\* Mutant: the user's message is committed without its answer.
AnswerLater(r) == answer

\* Both messages are in one commit.
AnswerStored(r) == [answer EXCEPT ![r] = TargetOf(r)]

\* The flush and commit of record_exchange; an UPDATE of a deleted row is a
\* StaleDataError.
Record(r) ==
    /\ req[r].pc = "record"
    /\ IF Lost(r)
       THEN req' = Finish(r, "unsaved") /\ UNCHANGED rows
       ELSE /\ conv' = [conv EXCEPT ![TargetOf(r)] = "live"]
            /\ title' = [title EXCEPT ![TargetOf(r)] = WrittenTitle(r)]
            /\ question' = [question EXCEPT ![r] = TargetOf(r)]
            /\ answer' = AnswerStored(r)
            /\ req' = Goto(r, "refresh")
            /\ UNCHANGED <<marks, removals>>

\* The refreshes after the commit; a row that is gone is an error.
RefreshExchange(r) ==
    /\ req[r].kind = "ask" /\ req[r].pc = "refresh"
    /\ req' = Finish(r, IF Live(TargetOf(r)) THEN "saved" ELSE "unsaved")
    /\ UNCHANGED rows

-----------------------------------------------------------------------------
(* /conversations *)

CreateConversation(r) ==
    /\ req[r].pc = "idle"
    /\ conv' = [conv EXCEPT ![r] = "live"]
    /\ req' = [req EXCEPT ![r] = Arrive(r, "create", "detail", r, None)]
    /\ UNCHANGED <<title, question, answer, marks, removals>>

\* DELETE and PATCH select the conversation first.
LoadConversation(r) ==
    /\ req[r].pc = "idle"
    /\ \E kind \in {"delete", "rename"}, c \in Convs :
        req' = [req EXCEPT ![r] =
            IF Live(c) THEN Arrive(r, kind, "write", c, None)
            ELSE [Arrive(r, kind, "done", c, None) EXCEPT !.outcome = "not_found"]]
    /\ UNCHANGED rows

\* Mutant: the children are deleted by the ORM alone, as it loaded them, and
\* bookmarks are forgotten.
MarksKept(c) == marks

\* ON DELETE CASCADE reaches rows the ORM has not loaded.
MarksAfterDelete(c) == [x \in Exchanges |-> IF answer[x] = c THEN NoMark ELSE marks[x]]

\* A DELETE that matches no row is only a warning.
DeleteConversation(r) ==
    /\ req[r].kind = "delete" /\ req[r].pc = "write"
    /\ LET c == req[r].conv
       IN  /\ conv' = [conv EXCEPT ![c] = "gone"]
           /\ question' = [x \in Exchanges |-> IF question[x] = c THEN None ELSE question[x]]
           /\ answer' = [x \in Exchanges |-> IF answer[x] = c THEN None ELSE answer[x]]
           /\ marks' = MarksAfterDelete(c)
           /\ removals' = IF Live(c) THEN removals + 1 ELSE removals
    /\ req' = Finish(r, "ok")
    /\ UNCHANGED title

\* An UPDATE that matches no row is a StaleDataError.
Rename(r) ==
    /\ req[r].kind = "rename" /\ req[r].pc = "write"
    /\ IF Live(req[r].conv)
       THEN title' = [title EXCEPT ![req[r].conv] = r] /\ req' = Goto(r, "detail")
       ELSE UNCHANGED title /\ req' = Finish(r, "unavailable")
    /\ UNCHANGED <<conv, question, answer, marks, removals>>

\* The response to a conversation that is gone; POST catches no
\* ConversationNotFoundError.
NoDetail(kind) == IF kind = "create" THEN "http_500" ELSE "not_found"

\* The refresh and conversation_detail of POST and PATCH, after the commit
ConversationDetail(r) ==
    /\ req[r].pc = "detail"
    /\ req' \in IF Live(req[r].conv) THEN {Finish(r, "ok")}
                ELSE {Finish(r, "unavailable"), Finish(r, NoDetail(req[r].kind))}
    /\ UNCHANGED rows

-----------------------------------------------------------------------------
(* /bookmarks *)

\* PUT looks for the answer, then for its bookmark.
PutArrives(r) ==
    /\ req[r].pc = "idle"
    /\ \E x \in Exchanges, note \in Notes :
        req' = [req EXCEPT ![r] =
            IF answer[x] # None
            THEN [Arrive(r, "put", "lookup", None, x) EXCEPT !.note = note]
            ELSE [Arrive(r, "put", "done", None, x) EXCEPT !.outcome = "not_found"]]
    /\ UNCHANGED rows

PutLookup(r) ==
    /\ req[r].pc = "lookup"
    /\ LET mark == marks[req[r].answer]
       IN  req' = [req EXCEPT ![r].seen = mark,
                              ![r].pc = IF mark.row = None THEN "insert" ELSE "update"]
    /\ UNCHANGED rows

\* Mutant: the unique constraint's error is not expected.
AfterDuplicateRaise(r) == Finish(r, "unavailable")

\* PUT meets the row of another PUT and reads it.
AfterDuplicate(r) == Goto(r, "reread")

\* INSERT in a savepoint; its foreign key and unique constraint may object.
PutInsert(r) ==
    /\ req[r].pc = "insert"
    /\ LET x == req[r].answer
       IN  IF answer[x] = None \/ marks[x].row # None
           THEN req' = AfterDuplicate(r) /\ UNCHANGED marks
           ELSE /\ marks' = [marks EXCEPT ![x] = [row |-> r, note |-> req[r].note]]
                /\ req' = [req EXCEPT ![r].pc = "refresh", ![r].seen = marks'[x]]
    /\ UNCHANGED <<conv, title, question, answer, removals>>

\* After the savepoint is rolled back; without a row the error is raised again.
PutReread(r) ==
    /\ req[r].pc = "reread"
    /\ LET mark == marks[req[r].answer]
       IN  req' = IF mark.row = None THEN Finish(r, "unavailable")
                  ELSE [req EXCEPT ![r].seen = mark, ![r].pc = "update"]
    /\ UNCHANGED rows

\* UPDATE by primary key, of a changed note only
PutUpdate(r) ==
    /\ req[r].pc = "update"
    /\ LET x == req[r].answer
       IN  IF req[r].note = req[r].seen.note
           THEN req' = Goto(r, "refresh") /\ UNCHANGED marks
           ELSE IF marks[x].row = req[r].seen.row
           THEN /\ marks' = [marks EXCEPT ![x].note = req[r].note]
                /\ req' = Goto(r, "refresh")
           ELSE req' = Finish(r, "unavailable") /\ UNCHANGED marks
    /\ UNCHANGED <<conv, title, question, answer, removals>>

RefreshMark(r) ==
    /\ req[r].kind = "put" /\ req[r].pc = "refresh"
    /\ req' = Finish(r, IF marks[req[r].answer].row = req[r].seen.row THEN "ok" ELSE "unavailable")
    /\ UNCHANGED rows

UnmarkArrives(r) ==
    /\ req[r].pc = "idle"
    /\ \E x \in Exchanges :
        req' = [req EXCEPT ![r] =
            IF marks[x].row = None
            THEN [Arrive(r, "unmark", "done", None, x) EXCEPT !.outcome = "ok"]
            ELSE [Arrive(r, "unmark", "write", None, x) EXCEPT !.seen = marks[x]]]
    /\ UNCHANGED rows

\* DELETE by primary key
Unmark(r) ==
    /\ req[r].kind = "unmark" /\ req[r].pc = "write"
    /\ LET x == req[r].answer
       IN  IF marks[x].row = req[r].seen.row
           THEN marks' = [marks EXCEPT ![x] = NoMark] /\ removals' = removals + 1
           ELSE UNCHANGED <<marks, removals>>
    /\ req' = Finish(r, "ok")
    /\ UNCHANGED <<conv, title, question, answer>>

\* GET /bookmarks: the bookmarks, then by further SELECTs their messages and
\* the messages' conversations.
ListArrives(r) ==
    /\ req[r].pc = "idle"
    /\ req' = [req EXCEPT ![r] = [Arrive(r, "list", "messages", None, None) EXCEPT
                 !.listed = {x \in Exchanges : marks[x].row # None}]]
    /\ UNCHANGED rows

\* A message that is missing by now is None, and None has no conversation.
ListMessages(r) ==
    /\ req[r].pc = "messages"
    /\ req' = IF \A x \in req[r].listed : answer[x] # None
              THEN Goto(r, "conversations") ELSE Finish(r, "http_500")
    /\ UNCHANGED rows

ListConversations(r) ==
    /\ req[r].pc = "conversations"
    /\ req' = Finish(r, IF \A x \in req[r].listed : answer[x] # None THEN "ok" ELSE "http_500")
    /\ UNCHANGED rows

-----------------------------------------------------------------------------
\* A statement fails: rollback, and 503 or, after the model's answer,
\* history_saved = false. What is committed stays.
Fail(r) ==
    /\ req[r].pc \notin {"idle", "answering", "done"}
    /\ req' = [req EXCEPT ![r].pc = "done", ![r].failed = TRUE,
                 ![r].outcome = IF req[r].kind = "ask" THEN "unsaved" ELSE "unavailable"]
    /\ UNCHANGED rows

Next == \E r \in Requests :
    \/ AskArrives(r) \/ Answered(r) \/ Recheck(r) \/ Record(r) \/ RefreshExchange(r)
    \/ CreateConversation(r) \/ LoadConversation(r) \/ DeleteConversation(r)
    \/ Rename(r) \/ ConversationDetail(r)
    \/ PutArrives(r) \/ PutLookup(r) \/ PutInsert(r) \/ PutReread(r) \/ PutUpdate(r)
    \/ RefreshMark(r) \/ UnmarkArrives(r) \/ Unmark(r)
    \/ ListArrives(r) \/ ListMessages(r) \/ ListConversations(r)
    \/ Fail(r)

Spec == Init /\ [][Next]_vars

-----------------------------------------------------------------------------
Marks == [row : Exchanges \cup {None}, note : Notes \cup {None}]

ReqRecords ==
    [kind : RequestKinds \cup {None},
     pc : {"idle", "answering", "recheck", "record", "refresh", "write", "detail",
           "lookup", "insert", "reread", "update", "messages", "conversations", "done"},
     conv : Convs \cup {None}, answer : Exchanges \cup {None}, note : Notes \cup {None},
     seen : Marks, title : Requests \cup {None}, listed : SUBSET Exchanges,
     since : Nat, failed : BOOLEAN, outcome : Outcomes \cup {None}]

TypeOK ==
    /\ conv \in [Convs -> {"absent", "live", "gone"}]
    /\ title \in [Convs -> Requests \cup {None}]
    /\ question \in [Exchanges -> Convs \cup {None}]
    /\ answer \in [Exchanges -> Convs \cup {None}]
    /\ marks \in [Exchanges -> Marks]
    /\ removals \in Nat
    /\ req \in [Requests -> ReqRecords]

\* history_saved = true is the truth: the question and its answer are in the
\* conversation named in the response, unless that has been deleted.
SavedMeansStored ==
    \A r \in Requests : req[r].outcome = "saved" =>
        \/ question[r] = TargetOf(r) /\ answer[r] = TargetOf(r)
        \/ conv[TargetOf(r)] = "gone"

\* Without a database failure, a request fails only if a conversation or a
\* bookmark was deleted under it; in particular any number of PUTs of one
\* bookmark all succeed (the comment at repositories/conversations.py:373).
FailuresHaveACause ==
    \A r \in Requests :
        req[r].outcome \in {"unsaved", "unavailable", "http_500"} /\ ~req[r].failed =>
            removals > req[r].since

\* A rename is not undone by an ask that loaded the conversation earlier and
\* writes it after the model's answer.
RenameStands ==
    \A r \in Requests : req[r].kind = "rename" /\ req[r].outcome = "ok" =>
        title[req[r].conv] # None

\* The committed rows of all this are the history the user was promised.
History == INSTANCE HistoryPromise WITH
    state  <- conv,
    placed <- answer,
    marked <- {x \in Exchanges : marks[x].row # None}
HistoryKept == History!Spec

=============================================================================
