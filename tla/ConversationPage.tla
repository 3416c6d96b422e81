--------------------------- MODULE ConversationPage ---------------------------
(***************************************************************************)
(* The question-and-answer page of the browser (frontend/src/App.tsx,      *)
(* QuestionAnswerPage) with its sidebar, for one signed-in user.           *)
(*                                                                         *)
(* Every click starts an asynchronous handler.  A handler keeps the values *)
(* of the render it was started from (the conversation that was open then) *)
(* and goes on whenever one of its requests settles; several handlers are  *)
(* in flight at a time.  When the page is left, its handlers go on: their  *)
(* set-state calls do nothing any more, but localStorage still obeys them. *)
(* The server is what ConversationHistory shows it to be, one step for     *)
(* each request; any request may fail, before or after it took effect.     *)
(***************************************************************************)
EXTENDS FiniteSets

CONSTANTS
    OldConvs,   \* conversations that may exist when the browser is opened
    OldAnswers, \* exchanges they may hold
    Questions,  \* questions the user may ask, once each; one that opens a
                \* conversation gives it its id
    Flows,      \* the clicks that start a handler or leave the page
    Loader,     \* slot of the effect that loads the history of a new page
    None, Failed

Convs == OldConvs \cup Questions
Exchanges == OldAnswers \cup Questions
Slots == Flows \cup {Loader}

ASSUME SlotsAssumption == Loader \notin Flows
ASSUME NoneAssumption == None \notin Convs \cup Exchanges
ASSUME IdsAssumption == OldConvs \cap Questions = {} /\ OldAnswers \cap Questions = {}

VARIABLES
    live,    \* server: the conversations of the user
    placed,  \* server: the conversation of each exchange, or None
    asked,   \* the questions asked so far
    localId, \* localStorage: legal_rag_active_conversation_v1, or None
    view,    \* React state of the mounted page
    flow     \* the handlers: not yet started, in flight, or done

vars == <<live, placed, asked, localId, view, flow>>

NoTranscript == [id |-> None, msgs |-> {}]

\* The state of a page that has just been mounted
NewPage(id) ==
    [listed |-> {}, active |-> id, shown |-> NoTranscript, result |-> None,
     question |-> None, loading |-> FALSE, historyLoading |-> TRUE,
     convLoading |-> FALSE, bookmarking |-> None, editing |-> None]

NoFlow == [kind |-> "none", pc |-> "none", mounted |-> FALSE, conv |-> None,
           closure |-> None, x |-> None, reply |-> "none", detail |-> None,
           list |-> None]

Done == [NoFlow EXCEPT !.kind = "done"]
InFlight(f) == flow[f].kind \notin {"none", "done"}

Handler(kind, pc, conv, x) ==
    [kind |-> kind, pc |-> pc, mounted |-> TRUE, conv |-> conv,
     closure |-> view.active, x |-> x, reply |-> "none", detail |-> None,
     list |-> None]

LoadHistory == [NoFlow EXCEPT !.kind = "load", !.pc = "list", !.mounted = TRUE]

Init ==
    /\ live \in SUBSET OldConvs
    /\ \E old \in [OldAnswers -> live \cup {None}] :
        placed = [x \in Exchanges |-> IF x \in OldAnswers THEN old[x] ELSE None]
    /\ asked = {}
    /\ localId \in OldConvs \cup {None}
    /\ view = NewPage(localId)
    /\ flow = [f \in Slots |-> IF f = Loader THEN LoadHistory ELSE NoFlow]

server == <<live, placed, asked>>

-----------------------------------------------------------------------------
(* The server's side of the requests *)

Messages(c) == {x \in Exchanges : placed[x] = c}

Reply(f, reply) == flow' = [flow EXCEPT ![f].reply = reply]

Called(f, kind) ==
    /\ flow[f].kind = kind
    /\ flow[f].pc = "call"
    /\ flow[f].reply = "none"

\* A request that does not get through, or asks for what is gone
ServeFailure(f) ==
    /\ flow[f].pc = "call"
    /\ flow[f].reply = "none"
    /\ Reply(f, "failed")
    /\ UNCHANGED <<server, localId, view>>

ServeDelete(f) ==
    /\ Called(f, "delete")
    /\ flow[f].conv \in live
    /\ live' = live \ {flow[f].conv}
    /\ placed' = [x \in Exchanges |->
                    IF placed[x] = flow[f].conv THEN None ELSE placed[x]]
    /\ \E reply \in {"ok", "failed"} : Reply(f, reply)
    /\ UNCHANGED <<asked, localId, view>>

ServeRename(f) ==
    /\ Called(f, "rename")
    /\ flow[f].conv \in live
    /\ flow' = [flow EXCEPT ![f].reply = "ok", ![f].detail = Messages(flow[f].conv)]
    /\ UNCHANGED <<server, localId, view>>

ServeMark(f) ==
    /\ Called(f, "mark")
    /\ placed[flow[f].x] # None
    /\ Reply(f, "ok")
    /\ UNCHANGED <<server, localId, view>>

\* The exchange is saved, in a conversation of its own if none was open; it may
\* be reported unsaved all the same (RefreshExchange in ConversationHistory).
ServeAskSaved(f) ==
    LET c == IF flow[f].conv = None THEN flow[f].x ELSE flow[f].conv IN
    /\ Called(f, "ask")
    /\ flow[f].conv = None \/ flow[f].conv \in live
    /\ live' = live \cup {c}
    /\ placed' = [placed EXCEPT ![flow[f].x] = c]
    /\ \E reply \in {"saved", "unsaved", "failed"} :
        flow' = [flow EXCEPT ![f].reply = reply, ![f].conv = c]
    /\ UNCHANGED <<asked, localId, view>>

ServeAskUnsaved(f) ==
    /\ Called(f, "ask")
    /\ Reply(f, "unsaved")
    /\ UNCHANGED <<server, localId, view>>

\* GET /conversations/{id}
ServeDetail(f) ==
    /\ flow[f].pc \in {"reload", "detail"}
    /\ flow[f].detail = None
    /\ \E answer \in {Failed} \cup {Messages(c) : c \in live \cap {flow[f].conv}} :
        flow' = [flow EXCEPT ![f].detail = answer]
    /\ UNCHANGED <<server, localId, view>>

\* GET /conversations
ServeList(f) ==
    /\ flow[f].pc \in {"reload", "list"}
    /\ flow[f].list = None
    /\ \E answer \in {Failed, live} : flow' = [flow EXCEPT ![f].list = answer]
    /\ UNCHANGED <<server, localId, view>>

Serve(f) ==
    \/ ServeFailure(f) \/ ServeDelete(f) \/ ServeRename(f) \/ ServeMark(f)
    \/ ServeAskSaved(f) \/ ServeAskUnsaved(f) \/ ServeDetail(f) \/ ServeList(f)

-----------------------------------------------------------------------------
(* What the user does *)

Busy == view.historyLoading \/ view.loading \/ view.convLoading

Free(f) == flow[f].kind = "none"

Launch(f, handler) == flow' = [flow EXCEPT ![f] = handler]

\* startNewConversation: nothing open, nothing shown
Cleared(v) == [v EXCEPT !.active = None, !.shown = NoTranscript,
                        !.result = None, !.question = None]

NewConversation ==
    /\ ~Busy
    /\ view' = Cleared(view)
    /\ localId' = None
    /\ UNCHANGED <<server, flow>>

Open(f, c) ==
    /\ Free(f) /\ ~Busy /\ c \in view.listed
    /\ view' = [view EXCEPT !.result = None, !.question = None, !.convLoading = TRUE]
    /\ Launch(f, Handler("open", "reload", c, None))
    /\ UNCHANGED <<server, localId>>

Renaming == \E f \in Flows : flow[f].kind = "rename" /\ flow[f].mounted

StartRename(c) ==
    /\ ~Busy /\ c \in view.listed
    /\ view' = [view EXCEPT !.editing = c]
    /\ UNCHANGED <<server, localId, flow>>

CancelRename ==
    /\ view.editing # None /\ ~Renaming
    /\ view' = [view EXCEPT !.editing = None]
    /\ UNCHANGED <<server, localId, flow>>

\* The editor's own button does not look at Busy.
ConfirmRename(f) ==
    /\ Free(f) /\ view.editing \in view.listed /\ ~Renaming
    /\ Launch(f, Handler("rename", "call", view.editing, None))
    /\ UNCHANGED <<server, localId, view>>

Delete(f, c) ==
    /\ Free(f) /\ ~Busy /\ c \in view.listed /\ c # view.editing
    /\ Launch(f, Handler("delete", "call", c, None))
    /\ UNCHANGED <<server, localId, view>>

ToggleBookmark(f, x) ==
    /\ Free(f) /\ x \in view.shown.msgs /\ ~view.convLoading /\ view.bookmarking # x
    /\ view' = [view EXCEPT !.bookmarking = x]
    /\ Launch(f, Handler("mark", "call", None, x))
    /\ UNCHANGED <<server, localId>>

\* Only an earlier question keeps the user from asking.
SubmitQuestion(f, x) ==
    /\ Free(f) /\ ~view.loading /\ x \in Questions \ asked
    /\ asked' = asked \cup {x}
    /\ view' = [view EXCEPT !.result = None, !.question = x, !.loading = TRUE]
    /\ Launch(f, Handler("ask", "call", view.active, x))
    /\ UNCHANGED <<live, placed, localId>>

\* Click f brings a new page with conversation id; the handlers of the old one
\* are left to themselves.
Remount(f, id) ==
    /\ Free(f)
    /\ localId' = id
    /\ view' = NewPage(id)
    /\ flow' = [g \in Slots |->
                  IF g = Loader THEN LoadHistory
                  ELSE IF g = f THEN Done
                  ELSE IF InFlight(g) THEN [flow[g] EXCEPT !.mounted = FALSE]
                  ELSE flow[g]]
    /\ UNCHANGED server

\* Leave for another page of the application and come back, with the same
\* conversation or one chosen on the page of saved answers.
ComeBack(f) == \E id \in live \cup {localId} : Remount(f, id)

\* A logout, or a 401 to a request of any handler, takes the page away; when the
\* user has signed in again, no conversation is open.
SignInAgain(f) == Remount(f, None)

\* Reload the document: no handler survives.
ReloadDocument(f) ==
    /\ Free(f)
    /\ view' = NewPage(localId)
    /\ flow' = [g \in Slots |->
                  IF g = Loader THEN LoadHistory
                  ELSE IF g = f \/ InFlight(g) THEN Done ELSE flow[g]]
    /\ UNCHANGED <<server, localId>>

-----------------------------------------------------------------------------
(* Handlers go on *)

End(f) == flow' = [flow EXCEPT ![f] = Done]

\* The next request of handler f, about conversation c
NextRequest(f, pc, c) ==
    flow' = [flow EXCEPT ![f].pc = pc, ![f].conv = c, ![f].list = None]

Arrived(answer) == answer \notin {None, Failed}

\* A set-state call of handler f: it does nothing once its page is gone.
SetState(f, v) == view' = IF flow[f].mounted THEN v ELSE view

\* reloadConversation, when both its requests have been answered
Reloaded(f) == flow[f].pc = "reload" /\ Arrived(flow[f].detail) /\ Arrived(flow[f].list)
ReloadFailed(f) == flow[f].pc = "reload" /\ Failed \in {flow[f].detail, flow[f].list}

\* Mutant: the reload does not make the conversation the active one.
WithReloadedOnly(f) ==
    [view EXCEPT !.shown = [id |-> flow[f].conv, msgs |-> flow[f].detail],
                 !.listed = flow[f].list]

WithReloaded(f) ==
    [view EXCEPT !.shown = [id |-> flow[f].conv, msgs |-> flow[f].detail],
                 !.listed = flow[f].list, !.active = flow[f].conv]

\* loadInitialHistory after GET /conversations
LoadList(f) ==
    /\ flow[f].kind = "load" /\ flow[f].pc = "list" /\ Arrived(flow[f].list)
    /\ IF localId \in flow[f].list
       THEN /\ view' = [view EXCEPT !.listed = flow[f].list, !.convLoading = TRUE]
            /\ NextRequest(f, "detail", localId)
            /\ UNCHANGED localId
       ELSE /\ view' = [view EXCEPT !.listed = flow[f].list, !.active = None,
                                    !.historyLoading = FALSE, !.convLoading = FALSE]
            /\ localId' = None
            /\ End(f)
    /\ UNCHANGED server

\* ... and after GET /conversations/{id}
LoadDetail(f) ==
    /\ flow[f].kind = "load" /\ flow[f].pc = "detail" /\ Arrived(flow[f].detail)
    /\ view' = [view EXCEPT !.shown = [id |-> flow[f].conv, msgs |-> flow[f].detail],
                            !.active = flow[f].conv,
                            !.historyLoading = FALSE, !.convLoading = FALSE]
    /\ End(f)
    /\ UNCHANGED <<server, localId>>

LoadFails(f) ==
    /\ flow[f].kind = "load" /\ Failed \in {flow[f].list, flow[f].detail}
    /\ view' = [view EXCEPT !.active = None, !.shown = NoTranscript,
                            !.historyLoading = FALSE, !.convLoading = FALSE]
    /\ localId' = None
    /\ End(f)
    /\ UNCHANGED server

\* selectConversation
FinishOpen(f) ==
    /\ flow[f].kind = "open"
    /\ \/ /\ Reloaded(f)
          /\ SetState(f, [WithReloaded(f) EXCEPT !.convLoading = FALSE])
          /\ localId' = flow[f].conv
       \/ /\ ReloadFailed(f)
          /\ SetState(f, [view EXCEPT !.convLoading = FALSE])
          /\ UNCHANGED localId
    /\ End(f)
    /\ UNCHANGED server

CallFailed(f, kind) ==
    flow[f].kind = kind /\ flow[f].pc = "call" /\ flow[f].reply = "failed"
CallDone(f, kind) ==
    flow[f].kind = kind /\ flow[f].pc = "call" /\ flow[f].reply \notin {"none", "failed"}

\* handleRename after PATCH: the list is fetched before anything is shown.
RenameAccepted(f) ==
    /\ CallDone(f, "rename")
    /\ NextRequest(f, "list", flow[f].conv)
    /\ UNCHANGED <<server, localId, view>>

\* The renamed conversation is shown if it was open at the click.
FinishRename(f) ==
    /\ flow[f].kind = "rename" /\ Arrived(flow[f].list)
    /\ LET listed == [view EXCEPT !.listed = flow[f].list, !.editing = None] IN
       SetState(f, IF flow[f].closure = flow[f].conv
                   THEN [listed EXCEPT !.shown = [id |-> flow[f].conv, msgs |-> flow[f].detail]]
                   ELSE listed)
    /\ End(f)
    /\ UNCHANGED <<server, localId>>

RenameFails(f) ==
    /\ CallFailed(f, "rename") \/ (flow[f].kind = "rename" /\ flow[f].list = Failed)
    /\ End(f)
    /\ UNCHANGED <<server, localId, view>>

\* handleDelete after DELETE
DeleteAccepted(f) ==
    /\ CallDone(f, "delete")
    /\ NextRequest(f, "list", flow[f].conv)
    /\ UNCHANGED <<server, localId, view>>

\* The page is cleared if the conversation was open at the click.
FinishDelete(f) ==
    /\ flow[f].kind = "delete" /\ Arrived(flow[f].list)
    /\ LET listed == [view EXCEPT !.listed = flow[f].list]
           wasOpen == flow[f].closure = flow[f].conv IN
       /\ SetState(f, IF wasOpen THEN Cleared(listed) ELSE listed)
       /\ localId' = IF wasOpen THEN None ELSE localId
    /\ End(f)
    /\ UNCHANGED server

DeleteFails(f) ==
    /\ CallFailed(f, "delete") \/ (flow[f].kind = "delete" /\ flow[f].list = Failed)
    /\ End(f)
    /\ UNCHANGED <<server, localId, view>>

\* handleToggleBookmark reloads the conversation that was open at the click.
MarkAccepted(f) ==
    /\ CallDone(f, "mark")
    /\ flow[f].closure # None
    /\ NextRequest(f, "reload", flow[f].closure)
    /\ UNCHANGED <<server, localId, view>>

\* Mutant: no `finally' around the requests.
FinishMarkInTry(f) ==
    /\ flow[f].kind = "mark"
    /\ \/ /\ Reloaded(f)
          /\ SetState(f, [WithReloaded(f) EXCEPT !.bookmarking = None])
          /\ localId' = flow[f].conv
       \/ /\ ReloadFailed(f) \/ CallFailed(f, "mark")
          /\ UNCHANGED <<view, localId>>
    /\ End(f)
    /\ UNCHANGED server

FinishMark(f) ==
    /\ flow[f].kind = "mark"
    /\ \/ /\ Reloaded(f)
          /\ SetState(f, [WithReloaded(f) EXCEPT !.bookmarking = None])
          /\ localId' = flow[f].conv
       \/ /\ \/ ReloadFailed(f) \/ CallFailed(f, "mark")
             \/ (CallDone(f, "mark") /\ flow[f].closure = None)
          /\ SetState(f, [view EXCEPT !.bookmarking = None])
          /\ UNCHANGED localId
    /\ End(f)
    /\ UNCHANGED server

\* handleSubmit after POST /ask: an answer that is not saved stays on the page,
\* a saved one is shown until its conversation has been reloaded.
ShowUnsavedAnswer(f) ==
    /\ CallDone(f, "ask") /\ flow[f].reply = "unsaved"
    /\ SetState(f, [view EXCEPT !.result = flow[f].x, !.loading = FALSE])
    /\ End(f)
    /\ UNCHANGED <<server, localId>>

ShowSavedAnswer(f) ==
    /\ CallDone(f, "ask") /\ flow[f].reply = "saved"
    /\ SetState(f, [view EXCEPT !.result = flow[f].x])
    /\ NextRequest(f, "reload", flow[f].conv)
    /\ UNCHANGED <<server, localId>>

\* Mutant: the transient answer is dropped before the reload has succeeded.
FinishAskDropping(f) ==
    /\ flow[f].kind = "ask"
    /\ \/ /\ Reloaded(f)
          /\ SetState(f, [WithReloaded(f) EXCEPT !.result = None, !.question = None,
                                                 !.loading = FALSE])
          /\ localId' = flow[f].conv
       \/ /\ ReloadFailed(f) \/ CallFailed(f, "ask")
          /\ SetState(f, [view EXCEPT !.result = None, !.question = None,
                                      !.loading = FALSE])
          /\ UNCHANGED localId
    /\ End(f)
    /\ UNCHANGED server

FinishAsk(f) ==
    /\ flow[f].kind = "ask"
    /\ \/ /\ Reloaded(f)
          /\ SetState(f, [WithReloaded(f) EXCEPT !.result = None, !.question = None,
                                                 !.loading = FALSE])
          /\ localId' = flow[f].conv
       \/ /\ ReloadFailed(f)
          /\ SetState(f, [view EXCEPT !.loading = FALSE])
          /\ UNCHANGED localId
       \/ /\ CallFailed(f, "ask")
          /\ SetState(f, [view EXCEPT !.question = None, !.loading = FALSE])
          /\ UNCHANGED localId
    /\ End(f)
    /\ UNCHANGED server

Resume(f) ==
    \/ LoadList(f) \/ LoadDetail(f) \/ LoadFails(f)
    \/ FinishOpen(f)
    \/ RenameAccepted(f) \/ FinishRename(f) \/ RenameFails(f)
    \/ DeleteAccepted(f) \/ FinishDelete(f) \/ DeleteFails(f)
    \/ MarkAccepted(f) \/ FinishMark(f)
    \/ ShowUnsavedAnswer(f) \/ ShowSavedAnswer(f) \/ FinishAsk(f)

UserStep ==
    \/ \E f \in Flows :
        \/ \E c \in view.listed : Open(f, c) \/ Delete(f, c)
        \/ \E x \in Exchanges : ToggleBookmark(f, x) \/ SubmitQuestion(f, x)
        \/ ConfirmRename(f) \/ ComeBack(f) \/ ReloadDocument(f)
    \/ \E c \in view.listed : StartRename(c)
    \/ CancelRename \/ NewConversation

SessionEnds == \E f \in Flows : SignInAgain(f)

Next == UserStep \/ SessionEnds \/ \E f \in Slots : Serve(f) \/ Resume(f)

Spec ==
    /\ Init /\ [][Next]_vars
    /\ \A f \in Slots : WF_vars(Serve(f)) /\ WF_vars(Resume(f))

-----------------------------------------------------------------------------
Transcripts == [id : Convs \cup {None}, msgs : SUBSET Exchanges]

\* Types; the server keeps exchanges of its conversations only.
TypeOK ==
    /\ live \in SUBSET Convs
    /\ placed \in [Exchanges -> live \cup {None}]
    /\ asked \in SUBSET Questions
    /\ localId \in Convs \cup {None}
    /\ view \in [listed : SUBSET Convs, active : Convs \cup {None},
                 shown : Transcripts, result : Questions \cup {None},
                 question : Questions \cup {None}, loading : BOOLEAN,
                 historyLoading : BOOLEAN, convLoading : BOOLEAN,
                 bookmarking : Exchanges \cup {None}, editing : Convs \cup {None}]
    /\ \A f \in Slots :
        /\ flow[f].kind \in {"none", "load", "open", "rename", "delete", "mark", "ask", "done"}
        /\ flow[f].pc \in {"none", "call", "list", "detail", "reload"}
        /\ flow[f].conv \in Convs \cup {None}
        /\ flow[f].closure \in Convs \cup {None}

\* An answer that has been shown leaves the page only into the transcript of
\* its conversation, by a click of the user, because a deletion that was in
\* flight clears the page, or with the session: while that lasts, no failed or
\* late request of a question, a bookmark, a renaming or of the initial load
\* takes it away (App.tsx:674-683 clears the transient result only after the
\* reload).
AnswerStays ==
    [][\A x \in Questions :
        view.result = x /\ view'.result # x =>
            \/ x \in view'.shown.msgs
            \/ UserStep \/ SessionEnds
            \/ \E f \in Flows : FinishDelete(f)]_vars

\* The conversation on the page is the one the next question will go to, and
\* the one localStorage will bring back.
Together == view.shown.id \in {None, view.active} /\ view.active = localId

\* Only three things part them: a renaming, which shows what was open at the
\* click (App.tsx:610), the initial load, which works with a list and an id
\* that another handler may have made obsolete (App.tsx:532-543), and a handler
\* of a page that has been left. Every other interleaving keeps them together.
PartedOnlyBy ==
    [][Together /\ ~Together' =>
        \E f \in Slots : \/ FinishRename(f)
                         \/ LoadList(f) \/ LoadDetail(f)
                         \/ ~flow[f].mounted /\ Resume(f)]_vars

\* No handler leaves a control of the page disabled for ever, whichever of its
\* requests fails or comes late: each flag that is set is cleared again.
BusyEnds ==
    /\ view.loading ~> ~view.loading
    /\ view.historyLoading ~> ~view.historyLoading
    /\ view.convLoading ~> ~view.convLoading
    /\ view.bookmarking # None ~> view.bookmarking = None

=============================================================================
