----------------------------- MODULE BrowserProofs -----------------------------
(***************************************************************************)
(* Proofs about the two browser machines, BrowserSession and               *)
(* ConversationPage, for any accounts, conversations, questions and number *)
(* of handlers, and any order of replies.                                  *)
(*                                                                         *)
(* BrowserSession. ActsAsShown is not inductive: what a reply shows and    *)
(* what a write does was settled when the request was sent. The invariant  *)
(* therefore says of every request on its way that its token is one of the *)
(* account shown at the click (Sound), and, while the cookies were not     *)
(* replaced behind the tab's back, that a request of the page now shown    *)
(* carries the cookie of the account now shown (OfThisPage).               *)
(*                                                                         *)
(* ConversationPage. AnswerStays needs to know that what the reload of an  *)
(* ask has fetched holds the answer. It does because the server keeps the  *)
(* answer in the conversation the handler remembers as long as there is    *)
(* one of that id (Placed), which nobody can have created again: an id is  *)
(* known to nobody before its conversation exists (OnlyKnown). And the     *)
(* page has one transient answer, of the one ask it waits for (AsksShown). *)
(***************************************************************************)
EXTENDS BrowserSession, ConversationPage, SequenceTheorems, TLAPS

-----------------------------------------------------------------------------
(* BrowserSession: what a tab does *)

Sessions == 1..Len(owners)
Kinds == {"me", "login", "logout", "list", "open", "upload", "remove", "ask"}
PageKinds == {"list", "open", "upload", "remove"}

\* The shapes of the records that are updated field by field
IsRequest(q) ==
    /\ q = [kind |-> q.kind, cookie |-> q.cookie, csrf |-> q.csrf, user |-> q.user, of |-> q.of,
            signal |-> q.signal, mounted |-> q.mounted, reply |-> q.reply, session |-> q.session]
    /\ q.kind \in Kinds
IsTab(t) ==
    /\ t = [user |-> t.user, csrf |-> t.csrf, route |-> t.route, page |-> t.page, dialog |-> t.dialog]
    /\ t.page = [review |-> t.page.review, list |-> t.page.list, submitting |-> t.page.submitting]

\* What cookie, token and session of a request belong to, from its click to its reply
Sound(q) ==
    /\ q.cookie \in Sessions \cup {Nobody} /\ q.session \in Sessions \cup {Nobody}
    /\ q.csrf # Nobody => q.csrf \in Sessions /\ owners[q.csrf] = q.user
    /\ q.kind \in PageKinds \cup {"me"} =>
          /\ q.session \in {Nobody, q.cookie}
          /\ q.reply = "ok" => q.session # Nobody
    /\ q.kind = "login" =>
          /\ q.of \in Accounts
          /\ q.reply = "ok" => q.session \in Sessions /\ owners[q.session] = q.of

\* A request whose reply the shown page will use
OfThisPage(q) ==
    ~excused /\ q.mounted /\ q.kind \in PageKinds =>
        /\ q.user = tab.user /\ tab.user # Nobody
        /\ q.cookie # Nobody => owners[q.cookie] = tab.user

CallOK(q) == q = NoCall \/ q = Spent \/ (IsRequest(q) /\ Sound(q) /\ OfThisPage(q))

ServerOK == owners \in Seq(Accounts) /\ alive \subseteq Sessions /\ jar \in Sessions \cup {Nobody}

TabOK ==
    /\ IsTab(tab)
    /\ tab.user # Nobody => tab.csrf \in Sessions /\ owners[tab.csrf] = tab.user

IInv ==
    /\ ServerOK /\ TabOK
    /\ call = [c \in Calls |-> call[c]] /\ \A c \in Calls : CallOK(call[c])
    /\ ActsAsShown

-----------------------------------------------------------------------------
(* Sessions are only added, and a page is left or stays                      *)

\* The sessions there were keep their accounts.
Grown ==
    /\ owners \in Seq(Accounts) /\ owners' \in Seq(Accounts)
    /\ Len(owners) \in Nat /\ Len(owners') \in Nat /\ Len(owners) <= Len(owners')
    /\ \A s \in 1..Len(owners) : owners'[s] = owners[s]

\* The tab still shows the same account, and its page only what is that account's.
SameTab ==
    /\ IsTab(tab)' /\ tab'.user = tab.user /\ tab'.csrf = tab.csrf
    /\ ~excused => {tab'.page.review, tab'.page.list} \subseteq {Nobody, tab.user}

LEMMA Unchanging ==
    ASSUME IInv, UNCHANGED owners
    PROVE  Grown
BY LenProperties DEF IInv, ServerOK, Grown

LEMMA Opened ==
    ASSUME IInv, NEW u \in Accounts, owners' = Append(owners, u)
    PROVE  /\ Grown /\ Len(owners') \in Sessions' /\ owners'[Len(owners')] = u
           /\ Len(owners') \notin Sessions
<1>1. owners \in Seq(Accounts)
    BY DEF IInv, ServerOK
<1>2. /\ owners' \in Seq(Accounts) /\ Len(owners') = Len(owners) + 1 /\ Len(owners) \in Nat
      /\ owners'[Len(owners) + 1] = u
      /\ \A s \in 1..Len(owners) : owners'[s] = owners[s]
    BY <1>1, AppendProperties, LenProperties
<1> QED BY <1>1, <1>2 DEF Grown, Sessions

LEMMA SoundStays ==
    ASSUME Grown, NEW q, Sound(q)
    PROVE  Sound(q)'
<1>1. Sessions \subseteq Sessions'
    BY DEF Grown, Sessions
<1>2. \A s \in Sessions : owners'[s] = owners[s]
    BY DEF Grown, Sessions
<1>3. (q.cookie \in Sessions \cup {Nobody} /\ q.session \in Sessions \cup {Nobody})'
    BY <1>1 DEF Sound
<1>4. (q.csrf # Nobody => q.csrf \in Sessions /\ owners[q.csrf] = q.user)'
    BY <1>1, <1>2 DEF Sound
<1>5. (q.kind = "login" =>
          /\ q.of \in Accounts
          /\ q.reply = "ok" => q.session \in Sessions /\ owners[q.session] = q.of)'
    BY <1>1, <1>2 DEF Sound
<1> QED BY <1>3, <1>4, <1>5 DEF Sound

\* A request is not touched, and neither is what the tab shows.
LEMMA CallStays ==
    ASSUME IInv, Grown, tab'.user = tab.user, excused => excused', NEW q, CallOK(q)
    PROVE  CallOK(q)'
<1>1. CASE q = NoCall \/ q = Spent
    BY <1>1 DEF CallOK, NoCall, Spent
<1>2. CASE IsRequest(q) /\ Sound(q) /\ OfThisPage(q)
  <2>1. Sound(q)'
      BY <1>2, SoundStays
  <2>2. q.cookie \in Sessions \cup {Nobody}
      BY <1>2 DEF Sound
  <2>3. q.cookie # Nobody => owners'[q.cookie] = owners[q.cookie]
      BY <2>2 DEF Grown, Sessions
  <2>4. OfThisPage(q)'
      BY <1>2, <2>3 DEF OfThisPage
  <2> QED BY <1>2, <2>1, <2>4 DEF CallOK, IsRequest
<1> QED BY <1>1, <1>2 DEF CallOK

\* A request the shown page does not wait for may see the tab change.
LEMMA CallLeft ==
    ASSUME Grown, NEW q, IsRequest(q), Sound(q), ~q.mounted \/ q.kind \notin PageKinds
    PROVE  CallOK(q)'
<1>1. Sound(q)'
    BY SoundStays
<1> QED BY <1>1 DEF CallOK, OfThisPage, IsRequest


LEMMA SameCall ==
    ASSUME NEW c, NEW q, q = call'[c], CallOK(q)'
    PROVE  CallOK(call[c])'
BY DEF CallOK, IsRequest, Sound, OfThisPage

\* A step after which the tab shows what it showed
LEMMA StepKeeps ==
    ASSUME IInv, Grown, SameTab, UNCHANGED <<jar, excused>>, alive' \subseteq Sessions', strayed' = {},
           call' = [c \in Calls |-> call'[c]],
           \A c \in Calls : call'[c] = call[c] \/ CallOK(call[c])'
    PROVE  IInv'
<1>1. Sessions \subseteq Sessions' /\ \A s \in Sessions : owners'[s] = owners[s]
    BY DEF Grown, Sessions
<1>2. ServerOK'
    BY <1>1 DEF IInv, ServerOK, Grown
<1>3. TabOK'
    BY <1>1 DEF IInv, TabOK, SameTab
<1>4. ASSUME NEW c \in Calls
      PROVE  CallOK(call[c])'
  <2>1. CASE call'[c] = call[c]
    <3> PICK q : q = call[c]
        OBVIOUS
    <3>1. CallOK(q)
        BY DEF IInv
    <3>2. CallOK(q)'
        BY <3>1, CallStays DEF SameTab
    <3> QED BY <2>1, <3>2, SameCall
  <2> QED BY <2>1
<1>5. ASSUME ~excused'
      PROVE  /\ {tab'.page.review, tab'.page.list} \subseteq {Nobody, tab'.user}
             /\ tab'.user # Nobody /\ jar' # Nobody => owners'[jar'] = tab'.user
  <2>1. {tab'.page.review, tab'.page.list} \subseteq {Nobody, tab.user}
      BY <1>5 DEF SameTab
  <2>2. tab.user # Nobody /\ jar # Nobody => jar \in Sessions /\ owners[jar] = tab.user
      BY <1>5 DEF IInv, ActsAsShown, SignedIn, OwnerOf, ServerOK
  <2> QED BY <1>1, <2>1, <2>2 DEF SameTab
<1>6. ActsAsShown'
    BY <1>5 DEF ActsAsShown, SignedIn, OwnerOf
<1> QED BY <1>2, <1>3, <1>4, <1>6 DEF IInv

-----------------------------------------------------------------------------
(* Clicks                                                                    *)

\* A request that is made now is one of the account and the cookie of now.
LEMMA RequestOK ==
    ASSUME IInv, NEW kind \in Kinds, NEW csrf, NEW of, NEW signal,
           csrf # Nobody => csrf \in Sessions /\ owners[csrf] = tab.user,
           kind = "login" => of \in Accounts,
           kind \in PageKinds => SignedIn
    PROVE  CallOK(Request(kind, csrf, of, signal))
<1> PICK mounted : mounted = (kind = "login" \/ tab.route = "contracts")
    OBVIOUS
<1> PICK q : q = [kind |-> kind, cookie |-> jar, csrf |-> csrf, user |-> tab.user, of |-> of,
                  signal |-> signal, mounted |-> mounted, reply |-> "none", session |-> Nobody]
    OBVIOUS
<1>1. /\ q = Request(kind, csrf, of, signal)
      /\ q.kind = kind /\ q.cookie = jar /\ q.csrf = csrf /\ q.user = tab.user /\ q.of = of
      /\ q.signal = signal /\ q.mounted = mounted /\ q.reply = "none" /\ q.session = Nobody
    BY DEF Request
<1>2. IsRequest(q)
    BY <1>1 DEF IsRequest
<1>3. Sound(q)
    BY <1>1 DEF Sound, IInv, ServerOK
<1>4. OfThisPage(q)
    BY <1>1 DEF OfThisPage, IInv, ActsAsShown, SignedIn, OwnerOf
<1> QED BY <1>1, <1>2, <1>3, <1>4 DEF CallOK

LEMMA SendKeepsIInv ==
    ASSUME IInv, NEW c \in Calls, NEW kind \in Kinds, NEW csrf, NEW of, NEW signal,
           csrf # Nobody => csrf \in Sessions /\ owners[csrf] = tab.user,
           kind = "login" => of \in Accounts,
           kind \in PageKinds => SignedIn,
           Send(c, kind, csrf, of, signal), SameTab
    PROVE  IInv'
<1> PICK q : q = Request(kind, csrf, of, signal)
    OBVIOUS
<1>1. CallOK(q)
    BY RequestOK
<1>2. /\ call' = [call EXCEPT ![c] = q] /\ UNCHANGED <<jar, excused, owners, alive, strayed>>
    BY DEF Send, server_
<1>3. Grown
    BY <1>2, Unchanging
<1>4. CallOK(q)'
    BY <1>1, <1>2, <1>3, CallStays DEF SameTab
<1>5. /\ call' = [d \in Calls |-> call'[d]]
      /\ \A d \in Calls : call'[d] = call[d] \/ call'[d] = q
    BY <1>2 DEF IInv
<1>6. alive' \subseteq Sessions' /\ strayed' = {}
    BY <1>2 DEF IInv, ServerOK, ActsAsShown, Sessions
<1>7. \A d \in Calls : call'[d] = call[d] \/ CallOK(call[d])'
    BY <1>4, <1>5, SameCall
<1> QED BY <1>2, <1>3, <1>5, <1>6, <1>7, StepKeeps

LEMMA NullIsNoSession == Nobody \notin Sessions
<1>1. Sessions \subseteq Nat
    BY DEF Sessions
<1> QED BY <1>1, BrowserAssumption

\* The token of the header is one of the shown account.
LEMMA HeaderIsShown ==
    ASSUME IInv, SignedIn
    PROVE  HeaderToken \in Sessions /\ owners[HeaderToken] = tab.user
<1>1. tab.csrf \in Sessions /\ owners[tab.csrf] = tab.user
    BY DEF IInv, TabOK, SignedIn
<1> QED BY <1>1, NullIsNoSession DEF HeaderToken

LEMMA SamePage ==
    ASSUME IInv, IsTab(tab)', tab'.user = tab.user, tab'.csrf = tab.csrf,
           tab'.page.review = tab.page.review, tab'.page.list = tab.page.list
    PROVE  SameTab
BY DEF IInv, ActsAsShown, SameTab

LEMMA UnchangedTab ==
    ASSUME IInv, UNCHANGED tab
    PROVE  SameTab
BY SamePage DEF IInv, TabOK, IsTab

LEMMA ClicksKeepIInv ==
    ASSUME IInv, NEW c \in Calls,
           Submit(c) \/ Logout(c) \/ LoadReviews(c) \/ OpenReview(c) \/ Upload(c)
              \/ RemoveReview(c) \/ AskQuestion(c)
    PROVE  IInv'
<1>1. IsTab(tab)
    BY DEF IInv, TabOK
<1>2. CASE Submit(c)
  <2>1. PICK u \in Accounts : Send(c, "login", Nobody, u, FALSE)
      BY <1>2 DEF Submit
  <2>2. SameTab
    <3>1. tab' = [tab EXCEPT !.dialog = "busy"]
        BY <1>2 DEF Submit
    <3> QED BY <1>1, <3>1, SamePage DEF IsTab
  <2> QED BY <2>1, <2>2, SendKeepsIInv DEF Kinds, PageKinds
<1>3. CASE Logout(c)
    BY <1>3, HeaderIsShown, UnchangedTab, SendKeepsIInv DEF Logout, Kinds, PageKinds
<1>4. CASE LoadReviews(c)
    BY <1>4, UnchangedTab, SendKeepsIInv DEF LoadReviews, OnPage, Kinds
<1>5. CASE OpenReview(c)
    BY <1>5, UnchangedTab, SendKeepsIInv DEF OpenReview, OnPage, Kinds
<1>6. CASE Upload(c)
  <2>1. SameTab
    <3>1. PICK page : page = [tab.page EXCEPT !.submitting = TRUE]
        OBVIOUS
    <3>2. /\ page = [review |-> page.review, list |-> page.list, submitting |-> page.submitting]
          /\ page.review = tab.page.review /\ page.list = tab.page.list
        BY <1>1, <3>1 DEF IsTab
    <3>3. tab' = [tab EXCEPT !.page = page]
        BY <1>6, <3>1 DEF Upload
    <3>4. /\ tab' = [user |-> tab.user, csrf |-> tab.csrf, route |-> tab.route, page |-> page,
                     dialog |-> tab.dialog]
        BY <1>1, <3>3 DEF IsTab
    <3> QED BY <3>2, <3>4, SamePage DEF IsTab
  <2> QED BY <1>6, <2>1, HeaderIsShown, SendKeepsIInv DEF Upload, OnPage, Kinds
<1>7. CASE RemoveReview(c)
    BY <1>7, HeaderIsShown, UnchangedTab, SendKeepsIInv DEF RemoveReview, OnPage, Kinds
<1>8. CASE AskQuestion(c)
  <2>1. PICK csrf : csrf = IF SignedIn THEN HeaderToken ELSE Nobody
      OBVIOUS
  <2> QED BY <1>8, <2>1, HeaderIsShown, UnchangedTab, SendKeepsIInv DEF AskQuestion, Kinds, PageKinds
<1> QED BY <1>2, <1>3, <1>4, <1>5, <1>6, <1>7, <1>8


\* Closing the dialog does not recall the request it has made.
LEMMA DialogKeepsIInv ==
    ASSUME IInv, ToggleDialog
    PROVE  IInv'
<1>1. /\ UNCHANGED <<owners, alive, strayed, jar, excused>> /\ IsTab(tab)
      /\ alive \subseteq Sessions /\ strayed = {}
    BY DEF ToggleDialog, server_, IInv, TabOK, ServerOK, ActsAsShown
<1>2. Grown
    BY <1>1, Unchanging
<1>3. SameTab
  <2>1. PICK dialog : tab' = [tab EXCEPT !.dialog = dialog]
      BY DEF ToggleDialog
  <2> QED BY <1>1, <2>1, SamePage DEF IsTab
<1>4. call' = [c \in Calls |-> call'[c]]
    BY DEF ToggleDialog, IInv
<1>5. ASSUME NEW c \in Calls, call'[c] # call[c]
      PROVE  CallOK(call[c])'
  <2> PICK q : q = call[c]
      OBVIOUS
  <2>1. PICK u : u = [q EXCEPT !.mounted = FALSE]
      OBVIOUS
  <2>2. q.kind = "login" /\ u = call'[c]
      BY <1>5, <2>1 DEF ToggleDialog
  <2>3. IsRequest(q) /\ Sound(q)
      BY <2>2 DEF IInv, CallOK, NoCall, Spent
  <2>4. /\ u.kind = q.kind /\ u.cookie = q.cookie /\ u.csrf = q.csrf /\ u.user = q.user /\ u.of = q.of
        /\ u.signal = q.signal /\ u.mounted = FALSE /\ u.reply = q.reply /\ u.session = q.session
        /\ IsRequest(u)
      BY <2>1, <2>3 DEF IsRequest
  <2>5. Sound(u)
      BY <2>3, <2>4 DEF Sound
  <2> QED BY <1>2, <2>2, <2>4, <2>5, CallLeft, SameCall
<1> QED BY <1>1, <1>2, <1>3, <1>4, <1>5, StepKeeps DEF Sessions

-----------------------------------------------------------------------------
(* The server                                                                *)

\* A reply that is of the session the request carried, or of the one it opened
LEMMA AnswerKeepsIInv ==
    ASSUME IInv, Grown, NEW c \in Calls, NEW q, q = call[c], IsRequest(q), Sound(q), OfThisPage(q),
           NEW reply, NEW session \in Sessions' \cup {Nobody},
           q.kind \in PageKinds \cup {"me"} =>
              session \in {Nobody, q.cookie} /\ (reply = "ok" => session # Nobody),
           q.kind = "login" /\ reply = "ok" => session \in Sessions' /\ owners'[session] = q.of,
           Answer(c, reply, session),
           UNCHANGED <<jar, tab, excused>>, alive' \subseteq Sessions', strayed' = {}
    PROVE  IInv'
<1>1. PICK t : t = [q EXCEPT !.reply = reply]
    OBVIOUS
<1>2. PICK u : u = [t EXCEPT !.session = session]
    OBVIOUS
<1>3. /\ u.kind = q.kind /\ u.cookie = q.cookie /\ u.csrf = q.csrf /\ u.user = q.user /\ u.of = q.of
      /\ u.signal = q.signal /\ u.mounted = q.mounted /\ u.reply = reply /\ u.session = session
      /\ IsRequest(u)
  <2>1. /\ t.kind = q.kind /\ t.cookie = q.cookie /\ t.csrf = q.csrf /\ t.user = q.user /\ t.of = q.of
        /\ t.signal = q.signal /\ t.mounted = q.mounted /\ t.reply = reply /\ t.session = q.session
        /\ IsRequest(t)
      BY <1>1 DEF IsRequest
  <2> QED BY <1>2, <2>1 DEF IsRequest
<1>4. call' = [call EXCEPT ![c] = u] /\ call = [d \in Calls |-> call[d]]
    BY <1>1, <1>2 DEF Answer, IInv
<1>5. Sound(q)' /\ OfThisPage(q)'
  <2>1. Sound(q)'
      BY SoundStays
  <2>2. q.cookie \in Sessions \cup {Nobody}
      BY DEF Sound
  <2> QED BY <2>1, <2>2 DEF OfThisPage, Grown, Sessions
<1>6. Sound(u)'
  <2>1. (u.cookie \in Sessions \cup {Nobody} /\ u.session \in Sessions \cup {Nobody})'
      BY <1>3, <1>5 DEF Sound
  <2>2. (u.csrf # Nobody => u.csrf \in Sessions /\ owners[u.csrf] = u.user)'
      BY <1>3, <1>5 DEF Sound
  <2>3. u.kind \in PageKinds \cup {"me"} =>
          /\ u.session \in {Nobody, u.cookie}
          /\ u.reply = "ok" => u.session # Nobody
      BY <1>3
  <2>4. (u.kind = "login" =>
          /\ u.of \in Accounts
          /\ u.reply = "ok" => u.session \in Sessions /\ owners[u.session] = u.of)'
      BY <1>3, <1>5 DEF Sound
  <2> QED BY <2>1, <2>2, <2>3, <2>4 DEF Sound
<1>7. CallOK(u)'
    BY <1>3, <1>5, <1>6 DEF CallOK, OfThisPage, IsRequest
<1>8. call' = [d \in Calls |-> call'[d]]
    BY <1>4
<1>9. \A d \in Calls : call'[d] = call[d] \/ CallOK(call[d])'
    BY <1>4, <1>7, SameCall
<1> QED BY <1>8, <1>9, UnchangedTab, StepKeeps

\* A request that is answered or settled is on its way.
LEMMA OnItsWay ==
    ASSUME IInv, NEW c \in Calls, call[c].kind \notin {"none", "spent"}
    PROVE  \E q : q = call[c] /\ IsRequest(q) /\ Sound(q) /\ OfThisPage(q)
BY DEF IInv, CallOK, NoCall, Spent

\* Only a request with the token of the session of its cookie is carried out,
\* and that token is one of the account that was shown.
LEMMA ServeWriteKeepsIInv ==
    ASSUME IInv, NEW c \in Calls, ServeWrite(c)
    PROVE  IInv'
<1>1. /\ call[c].kind \in {"logout", "upload", "remove", "ask"}
      /\ UNCHANGED <<owners, jar, tab, excused>>
    BY DEF ServeWrite, Waiting
<1>2. PICK q : q = call[c] /\ IsRequest(q) /\ Sound(q) /\ OfThisPage(q)
    BY <1>1, OnItsWay
<1>3. Grown /\ alive \subseteq Sessions /\ strayed = {} /\ Sessions' = Sessions
    BY <1>1, Unchanging DEF IInv, ServerOK, ActsAsShown, Sessions
<1>4. CASE Refusal(c) # "none"
  <2>1. Answer(c, Refusal(c), Nobody) /\ UNCHANGED <<alive, strayed>>
      BY <1>4 DEF ServeWrite
  <2>2. PICK reply : reply = Refusal(c)
      OBVIOUS
  <2>3. q.kind \in PageKinds \cup {"me"} => reply # "ok"
      BY <1>1, <1>2, <2>2 DEF Refusal, PageKinds
  <2> QED BY <1>1, <1>2, <1>3, <2>1, <2>2, <2>3, AnswerKeepsIInv
<1>5. CASE Refusal(c) = "none"
  <2>1. q.cookie \in alive /\ q.csrf = q.cookie
      BY <1>2, <1>5 DEF Refusal
  <2>2. q.cookie \in Sessions /\ owners[q.cookie] = q.user /\ q.cookie # Nobody
      BY <1>2, <1>3, <2>1, NullIsNoSession DEF Sound
  <2>3. strayed' = {} /\ alive' \subseteq Sessions
      BY <1>2, <1>3, <1>5, <2>2 DEF ServeWrite, OwnerOf
  <2>4. PICK reply : Answer(c, reply, q.cookie)
      BY <1>2, <1>5 DEF ServeWrite
  <2> QED BY <1>1, <1>2, <1>3, <2>2, <2>3, <2>4, AnswerKeepsIInv
<1> QED BY <1>4, <1>5

LEMMA ServeReadKeepsIInv ==
    ASSUME IInv, NEW c \in Calls, ServeRead(c)
    PROVE  IInv'
<1>1. /\ call[c].kind \in {"me", "list", "open"}
      /\ UNCHANGED <<owners, alive, strayed, jar, tab, excused>>
    BY DEF ServeRead, Waiting, server_
<1>2. PICK q : q = call[c] /\ IsRequest(q) /\ Sound(q) /\ OfThisPage(q)
    BY <1>1, OnItsWay
<1>3. Grown /\ alive \subseteq Sessions /\ strayed = {} /\ Sessions' = Sessions
    BY <1>1, Unchanging DEF IInv, ServerOK, ActsAsShown, Sessions
<1>4. CASE Answer(c, "401", Nobody) \/ Answer(c, "404", Nobody)
    BY <1>1, <1>2, <1>3, <1>4, AnswerKeepsIInv
<1>5. CASE q.cookie \in alive /\ Answer(c, "ok", q.cookie)
  <2>1. q.cookie \in Sessions /\ q.cookie # Nobody
      BY <1>3, <1>5, NullIsNoSession
  <2> QED BY <1>1, <1>2, <1>3, <1>5, <2>1, AnswerKeepsIInv
<1> QED BY <1>2, <1>4, <1>5 DEF ServeRead

LEMMA ServeLoginKeepsIInv ==
    ASSUME IInv, NEW c \in Calls, ServeLogin(c)
    PROVE  IInv'
<1>1. /\ call[c].kind = "login" /\ UNCHANGED <<strayed, jar, tab, excused>>
      /\ owners' = Append(owners, call[c].of) /\ alive' = alive \cup {Len(owners')}
    BY DEF ServeLogin, Waiting
<1>2. PICK q : q = call[c] /\ IsRequest(q) /\ Sound(q) /\ OfThisPage(q)
    BY <1>1, OnItsWay
<1>3. q.of \in Accounts
    BY <1>1, <1>2 DEF Sound
<1>4. Grown /\ Len(owners') \in Sessions' /\ owners'[Len(owners')] = q.of
    BY <1>1, <1>2, <1>3, Opened
<1>5. alive' \subseteq Sessions' /\ strayed' = {}
    BY <1>1, <1>4 DEF IInv, ServerOK, ActsAsShown, Grown, Sessions
<1>6. PICK reply : Answer(c, reply, Len(owners'))
    BY DEF ServeLogin
<1>7. PICK session : session = Len(owners')
    OBVIOUS
<1> QED BY <1>1, <1>2, <1>4, <1>5, <1>6, <1>7, AnswerKeepsIInv DEF PageKinds

LEMMA FailureKeepsIInv ==
    ASSUME IInv, NEW c \in Calls, RequestFails(c)
    PROVE  IInv'
<1>1. /\ call[c].kind \notin {"none", "spent"} /\ Answer(c, "failed", Nobody)
      /\ UNCHANGED <<owners, alive, strayed, jar, tab, excused>>
    BY DEF RequestFails, server_
<1>2. PICK q : q = call[c] /\ IsRequest(q) /\ Sound(q) /\ OfThisPage(q)
    BY <1>1, OnItsWay
<1>3. Grown /\ alive \subseteq Sessions /\ strayed = {} /\ Sessions' = Sessions
    BY <1>1, Unchanging DEF IInv, ServerOK, ActsAsShown, Sessions
<1> QED BY <1>1, <1>2, <1>3, AnswerKeepsIInv

LEMMA ExpiryKeepsIInv ==
    ASSUME IInv, Expire
    PROVE  IInv'
<1>1. /\ UNCHANGED <<owners, strayed, jar, tab, call, excused>> /\ alive' \subseteq alive
    BY DEF Expire
<1>2. Grown /\ alive \subseteq Sessions /\ strayed = {} /\ Sessions' = Sessions
    BY <1>1, Unchanging DEF IInv, ServerOK, ActsAsShown, Sessions
<1>3. call' = [c \in Calls |-> call'[c]] /\ \A c \in Calls : call'[c] = call[c]
    BY <1>1 DEF IInv
<1> QED BY <1>1, <1>2, <1>3, UnchangedTab, StepKeeps


\* What another tab does is excused, and replaces the cookies only.
LEMMA OtherTabKeepsIInv ==
    ASSUME IInv, OtherTab
    PROVE  IInv'
<1>1. excused' = TRUE /\ UNCHANGED <<strayed, tab, call>>
    BY DEF OtherTab
<1>2. Grown /\ alive' \subseteq Sessions' /\ jar' \in Sessions' \cup {Nobody}
  <2>1. CASE \E u \in Accounts : owners' = Append(owners, u)
                /\ alive' = alive \cup {Len(owners')} /\ jar' = Len(owners')
    <3>1. Grown /\ Len(owners') \in Sessions'
        BY <2>1, Opened
    <3> QED BY <2>1, <3>1 DEF Grown, Sessions, IInv, ServerOK
  <2>2. CASE alive' = alive \ {jar} /\ jar' = Nobody /\ UNCHANGED owners
      BY <2>2, Unchanging DEF IInv, ServerOK, Sessions
  <2> QED BY <2>1, <2>2 DEF OtherTab
<1>3. SameTab
    BY <1>1, UnchangedTab
<1>4. call' = [c \in Calls |-> call'[c]] /\ \A c \in Calls : call'[c] = call[c]
    BY <1>1 DEF IInv
<1>5. ASSUME NEW c \in Calls
      PROVE  CallOK(call[c])'
  <2> PICK q : q = call[c]
      OBVIOUS
  <2>1. CallOK(q)'
      BY <1>1, <1>2, CallStays DEF IInv
  <2> QED BY <1>4, <2>1, SameCall
<1>6. TabOK'
    BY <1>2, <1>3 DEF IInv, TabOK, SameTab, Grown, Sessions
<1>7. ServerOK' /\ ActsAsShown'
    BY <1>1, <1>2 DEF IInv, ServerOK, ActsAsShown, Grown
<1> QED BY <1>4, <1>5, <1>6, <1>7 DEF IInv

-----------------------------------------------------------------------------
(* Replies                                                                   *)

\* No reply is used by a page that is left.
LEMMA LeavingKeepsCalls ==
    ASSUME IInv, Grown, NEW c \in Calls, NEW u, u = Left[c]
    PROVE  CallOK(u)'
<1> PICK q : q = call[c]
    OBVIOUS
<1>1. CASE q.kind \in {"none", "spent"}
  <2>1. u = q /\ (q = NoCall \/ q = Spent)
      BY <1>1 DEF Left, IInv, CallOK, IsRequest, Kinds
  <2> QED BY <2>1 DEF CallOK, NoCall, Spent
<1>2. CASE q.kind \notin {"none", "spent"}
  <2>1. IsRequest(q) /\ Sound(q)
      BY <1>2, OnItsWay
  <2>2. CASE u = Spent
      BY <2>2 DEF CallOK, Spent, NoCall
  <2>3. CASE q.kind = "login" /\ u = q
      BY <2>1, <2>3, CallLeft DEF PageKinds
  <2>4. CASE u = [q EXCEPT !.mounted = FALSE]
    <3>1. /\ u.kind = q.kind /\ u.cookie = q.cookie /\ u.csrf = q.csrf /\ u.user = q.user /\ u.of = q.of
          /\ u.signal = q.signal /\ u.mounted = FALSE /\ u.reply = q.reply /\ u.session = q.session
          /\ IsRequest(u)
        BY <2>1, <2>4 DEF IsRequest
    <3>2. Sound(u)
        BY <2>1, <3>1 DEF Sound
    <3> QED BY <3>1, <3>2, CallLeft
  <2> QED BY <1>2, <2>2, <2>3, <2>4 DEF Left
<1> QED BY <1>1, <1>2

LEMMA NavigationKeepsIInv ==
    ASSUME IInv, Navigate
    PROVE  IInv'
<1>1. /\ UNCHANGED <<owners, alive, strayed, jar, excused>> /\ IsTab(tab) /\ call' = Left
      /\ alive \subseteq Sessions /\ strayed = {} /\ Sessions' = Sessions
    BY DEF Navigate, server_, IInv, TabOK, ServerOK, ActsAsShown, Sessions
<1>2. Grown
    BY <1>1, Unchanging
<1>3. SameTab
  <2>1. PICK route : tab' = [tab EXCEPT !.route = route, !.page = EmptyPage]
      BY DEF Navigate
  <2>2. tab' = [user |-> tab.user, csrf |-> tab.csrf, route |-> route, page |-> EmptyPage,
                dialog |-> tab.dialog]
      BY <1>1, <2>1 DEF IsTab
  <2> QED BY <2>2 DEF SameTab, IsTab, EmptyPage
<1>4. call' = [c \in Calls |-> call'[c]]
    BY <1>1 DEF Left
<1>5. ASSUME NEW c \in Calls
      PROVE  CallOK(call[c])'
  <2> PICK u : u = Left[c]
      OBVIOUS
  <2> QED BY <1>1, <1>2, LeavingKeepsCalls, SameCall
<1> QED BY <1>1, <1>2, <1>3, <1>4, <1>5, StepKeeps

LEMMA BecomeUserKeepsIInv ==
    ASSUME IInv, NEW c \in Calls, NEW user, NEW csrf, NEW route, BecomeUser(c, user, csrf, route),
           UNCHANGED <<owners, alive, strayed>>, jar' \in Sessions \cup {Nobody}, excused => excused',
           user # Nobody => csrf \in Sessions /\ owners[csrf] = user,
           ~excused' /\ user # Nobody /\ jar' # Nobody => owners[jar'] = user
    PROVE  IInv'
<1> PICK same \in BOOLEAN : same <=> (user = tab.user /\ route = tab.route)
    OBVIOUS
<1>1. Grown /\ Sessions' = Sessions /\ IsTab(tab)
    BY Unchanging DEF Sessions, IInv, TabOK
<1>2. PICK page : page = IF same THEN tab.page ELSE EmptyPage
    OBVIOUS
<1>3. PICK dialog : tab' = [user |-> user, csrf |-> csrf, route |-> route, page |-> page, dialog |-> dialog]
    BY <1>2 DEF BecomeUser
<1>4. /\ page = [review |-> page.review, list |-> page.list, submitting |-> page.submitting]
      /\ ~same => page.review = Nobody /\ page.list = Nobody
      /\ same => page.review = tab.page.review /\ page.list = tab.page.list
    BY <1>1, <1>2 DEF IsTab, EmptyPage
<1>5. /\ IsTab(tab)' /\ tab'.user = user /\ tab'.csrf = csrf
      /\ tab'.page.review = page.review /\ tab'.page.list = page.list
    BY <1>3, <1>4 DEF IsTab
<1>6. PICK calls : calls = IF same THEN call ELSE Left
    OBVIOUS
<1>7. call' = [calls EXCEPT ![c] = Spent] /\ calls = [d \in Calls |-> calls[d]]
    BY <1>6 DEF BecomeUser, IInv, Left
<1>8. ASSUME NEW d \in Calls
      PROVE  CallOK(call[d])'
  <2>1. PICK u : u = IF d = c THEN Spent ELSE calls[d]
      OBVIOUS
  <2>2. u = call'[d]
      BY <1>7, <2>1
  <2>3. CASE d = c
      BY <2>1, <2>2, <2>3, SameCall DEF CallOK, Spent, NoCall
  <2>4. CASE d # c /\ same
    <3>1. u = call[d] /\ tab'.user = tab.user
        BY <1>5, <1>6, <2>1, <2>4
    <3>2. CallOK(u)
        BY <3>1 DEF IInv
    <3> QED BY <1>1, <2>2, <3>1, <3>2, CallStays, SameCall
  <2>5. CASE d # c /\ ~same
    <3>1. u = Left[d]
        BY <1>6, <2>1, <2>5
    <3> QED BY <1>1, <2>2, <3>1, LeavingKeepsCalls, SameCall
  <2> QED BY <2>3, <2>4, <2>5
<1>9. ServerOK'
    BY <1>1 DEF IInv, ServerOK
<1>10. TabOK'
    BY <1>1, <1>5 DEF TabOK
<1>11. ASSUME ~excused'
       PROVE  {page.review, page.list} \subseteq {Nobody, user}
    BY <1>4, <1>11 DEF IInv, ActsAsShown
<1>12. ActsAsShown'
    BY <1>1, <1>5, <1>11 DEF ActsAsShown, SignedIn, OwnerOf, IInv
<1> QED BY <1>7, <1>8, <1>9, <1>10, <1>12 DEF IInv


\* A request is done, or followed by another one of the shown page.
LEMMA SettlingKeepsIInv ==
    ASSUME IInv, NEW c \in Calls, NEW u, CallOK(u), call' = [call EXCEPT ![c] = u], SameTab,
           UNCHANGED <<owners, alive, strayed, jar, excused>>
    PROVE  IInv'
<1>1. Grown /\ alive' \subseteq Sessions' /\ strayed' = {}
    BY Unchanging DEF IInv, ServerOK, ActsAsShown, Sessions
<1>2. CallOK(u)'
    BY <1>1, CallStays DEF SameTab
<1>3. /\ call' = [d \in Calls |-> call'[d]]
      /\ \A d \in Calls : call'[d] = call[d] \/ call'[d] = u
    BY DEF IInv
<1>4. \A d \in Calls : call'[d] = call[d] \/ CallOK(call[d])'
    BY <1>2, <1>3, SameCall
<1> QED BY <1>1, <1>3, <1>4, StepKeeps

LEMMA SpentOK == CallOK(Spent)
BY DEF CallOK

LEMMA RestoredKeepsIInv ==
    ASSUME IInv, NEW c \in Calls, Restored(c)
    PROVE  IInv'
<1>1. call[c].kind = "me" /\ UNCHANGED <<owners, alive, strayed, jar>> /\ jar \in Sessions \cup {Nobody}
    BY DEF Restored, Replied, server_, IInv, ServerOK
<1>2. PICK q : q = call[c] /\ IsRequest(q) /\ Sound(q) /\ OfThisPage(q)
    BY <1>1, OnItsWay
<1>3. CASE q.reply = "ok"
  <2>1. q.session \in Sessions
      BY <1>1, <1>2, <1>3 DEF Sound
  <2>2. PICK user : user = owners[q.session]
      OBVIOUS
  <2>3. /\ BecomeUser(c, user, q.session, tab.route)
        /\ excused' = (excused \/ q.session # jar)
      BY <1>2, <1>3, <2>2 DEF Restored, OwnerOf
  <2>4. ~excused' => q.session = jar
      BY <2>3
  <2>5. excused => excused'
      BY <2>3
  <2> QED BY <1>1, <2>1, <2>2, <2>3, <2>4, <2>5, BecomeUserKeepsIInv
<1>4. CASE q.reply = "401"
  <2>1. BecomeUser(c, Nobody, Nobody, tab.route) /\ excused' = excused
      BY <1>2, <1>4 DEF Restored
  <2>2. PICK route : route = tab.route
      OBVIOUS
  <2> QED BY <1>1, <2>1, <2>2, BecomeUserKeepsIInv
<1>5. CASE q.reply \notin {"ok", "401"}
  <2>1. call' = [call EXCEPT ![c] = Spent] /\ UNCHANGED <<tab, excused>>
      BY <1>2, <1>5 DEF Restored
  <2> QED BY <1>1, <2>1, SpentOK, UnchangedTab, SettlingKeepsIInv
<1> QED BY <1>3, <1>4, <1>5

LEMMA AuthenticatedKeepsIInv ==
    ASSUME IInv, NEW c \in Calls, Authenticated(c)
    PROVE  IInv'
<1>1. call[c].kind = "login" /\ UNCHANGED <<owners, alive, strayed, excused>>
    BY DEF Authenticated, Replied, server_
<1>2. PICK q : q = call[c] /\ IsRequest(q) /\ Sound(q) /\ OfThisPage(q)
    BY <1>1, OnItsWay
<1>3. CASE q.reply = "ok"
  <2>1. q.session \in Sessions /\ owners[q.session] = q.of
      BY <1>1, <1>2, <1>3 DEF Sound
  <2>2. PICK route : route = tab.route
      OBVIOUS
  <2>3. jar' = q.session /\ BecomeUser(c, q.of, q.session, route)
      BY <1>2, <1>3, <2>2 DEF Authenticated
  <2> QED BY <1>1, <2>1, <2>3, BecomeUserKeepsIInv
<1>4. CASE q.reply # "ok"
  <2>1. PICK dialog : tab' = [tab EXCEPT !.dialog = dialog]
      BY <1>2, <1>4 DEF Authenticated
  <2>2. call' = [call EXCEPT ![c] = Spent] /\ UNCHANGED jar
      BY <1>2, <1>4 DEF Authenticated
  <2>3. SameTab
      BY <2>1, SamePage DEF IsTab, IInv, TabOK
  <2> QED BY <1>1, <2>2, <2>3, SpentOK, SettlingKeepsIInv
<1> QED BY <1>3, <1>4

LEMMA SignedOutKeepsIInv ==
    ASSUME IInv, NEW c \in Calls, SignedOut(c)
    PROVE  IInv'
<1>1. /\ UNCHANGED <<owners, alive, strayed, excused>> /\ BecomeUser(c, Nobody, Nobody, "qa")
      /\ jar' \in {Nobody, jar}
    BY DEF SignedOut, server_
<1>2. jar' \in Sessions \cup {Nobody}
    BY <1>1 DEF IInv, ServerOK
<1> QED BY <1>1, <1>2, BecomeUserKeepsIInv

\* A page that is still mounted is one of the account shown now.
LEMMA SetPageKeepsTab ==
    ASSUME IInv, NEW c \in Calls, NEW page, SetPage(c, page),
           page = [review |-> page.review, list |-> page.list, submitting |-> page.submitting],
           ~excused /\ call[c].mounted => {page.review, page.list} \subseteq {Nobody, tab.user}
    PROVE  SameTab
<1>1. IsTab(tab)
    BY DEF IInv, TabOK
<1>2. PICK new : new = IF call[c].mounted THEN page ELSE tab.page
    OBVIOUS
<1>3. tab' = [tab EXCEPT !.page = new]
    BY <1>2 DEF SetPage
<1>4. /\ new = [review |-> new.review, list |-> new.list, submitting |-> new.submitting]
      /\ ~excused => {new.review, new.list} \subseteq {Nobody, tab.user}
    BY <1>1, <1>2 DEF IsTab, IInv, ActsAsShown
<1>5. tab' = [user |-> tab.user, csrf |-> tab.csrf, route |-> tab.route, page |-> new,
              dialog |-> tab.dialog]
    BY <1>1, <1>3 DEF IsTab
<1> QED BY <1>4, <1>5 DEF SameTab, IsTab

\* The list after an upload or a removal is asked for by the same page.
LEMMA ReloadOK ==
    ASSUME IInv, NEW c \in Calls, NEW q, q = call[c], OfThisPage(q), q.kind \in PageKinds
    PROVE  CallOK([Request("list", Nobody, q.kind, FALSE) EXCEPT !.mounted = q.mounted])
<1> PICK kind : kind = q.kind
    OBVIOUS
<1> PICK mounted : mounted = (tab.route = "contracts")
    OBVIOUS
<1> PICK t : t = [kind |-> "list", cookie |-> jar, csrf |-> Nobody, user |-> tab.user, of |-> kind,
                  signal |-> FALSE, mounted |-> mounted, reply |-> "none", session |-> Nobody]
    OBVIOUS
<1>1. t = Request("list", Nobody, kind, FALSE)
    BY DEF Request
<1> PICK m : m = q.mounted
    OBVIOUS
<1> PICK u : u = [t EXCEPT !.mounted = m]
    OBVIOUS
<1>2. /\ u.kind = "list" /\ u.cookie = jar /\ u.csrf = Nobody /\ u.user = tab.user /\ u.of = kind
      /\ u.signal = FALSE /\ u.mounted = m /\ u.reply = "none" /\ u.session = Nobody
      /\ IsRequest(u)
    BY DEF IsRequest, Kinds
<1>3. Sound(u)
    BY <1>2 DEF Sound, IInv, ServerOK
<1>4. OfThisPage(u)
    BY <1>2 DEF OfThisPage, IInv, ActsAsShown, SignedIn, OwnerOf
<1> QED BY <1>1, <1>2, <1>3, <1>4 DEF CallOK

\* What a mounted page is shown was answered to the cookie of its account.
LEMMA ReplyIsOfTheAccount ==
    ASSUME IInv, NEW q, Sound(q), OfThisPage(q), q.kind \in PageKinds, q.reply = "ok",
           ~excused, q.mounted
    PROVE  owners[q.session] = tab.user
BY DEF Sound, OfThisPage


LEMMA ShownKeepsIInv ==
    ASSUME IInv, NEW c \in Calls, Shown(c)
    PROVE  IInv'
<1>1. call[c].kind \notin {"none", "spent"} /\ UNCHANGED <<owners, alive, strayed, jar, excused>>
    BY DEF Shown, Replied, server_
<1>2. PICK q : q = call[c] /\ IsRequest(q) /\ Sound(q) /\ OfThisPage(q)
    BY <1>1, OnItsWay
<1> PICK ok \in BOOLEAN : ok = (q.reply = "ok")
    OBVIOUS
<1>3. PICK of : of = IF ok THEN owners[q.session] ELSE Nobody
    OBVIOUS
<1>4. /\ tab.page = [review |-> tab.page.review, list |-> tab.page.list, submitting |-> tab.page.submitting]
      /\ ~excused => {tab.page.review, tab.page.list} \subseteq {Nobody, tab.user}
    BY DEF IInv, TabOK, IsTab, ActsAsShown
<1>5. q.kind \in PageKinds /\ ~excused /\ q.mounted => of \in {Nobody, tab.user}
    BY <1>2, <1>3, ReplyIsOfTheAccount
<1>6. CASE q.kind = "list"
  <2>1. PICK list, submitting : /\ list = IF ok THEN of ELSE tab.page.list
                                /\ submitting = (tab.page.submitting /\ q.of # "upload")
      OBVIOUS
  <2>2. PICK page : page = [review |-> tab.page.review, list |-> list, submitting |-> submitting]
      OBVIOUS
  <2>3. page = [tab.page EXCEPT !.list = list, !.submitting = submitting]
    <3>1. PICK t : t = [tab.page EXCEPT !.list = list]
        OBVIOUS
    <3>2. t = [review |-> tab.page.review, list |-> list, submitting |-> tab.page.submitting]
        BY <1>4, <3>1
    <3>3. page = [t EXCEPT !.submitting = submitting]
        BY <2>2, <3>2
    <3> QED BY <3>1, <3>3
  <2>4. SetPage(c, page) /\ call' = [call EXCEPT ![c] = Spent]
    <3>1. SetPage(c, [tab.page EXCEPT !.list = IF ok THEN of ELSE @, !.submitting = @ /\ q.of # "upload"])
          /\ call' = [call EXCEPT ![c] = Spent]
        BY <1>2, <1>3, <1>6 DEF Shown, OwnerOf
    <3> QED BY <2>1, <2>3, <3>1
  <2>5. SameTab
      BY <1>2, <1>4, <1>5, <1>6, <2>1, <2>2, <2>4, SetPageKeepsTab DEF PageKinds
  <2> QED BY <1>1, <2>4, <2>5, SpentOK, SettlingKeepsIInv
<1>7. CASE q.kind = "open"
  <2>1. PICK page : page = IF ok THEN [tab.page EXCEPT !.review = of] ELSE tab.page
      OBVIOUS
  <2>2. /\ page = [review |-> page.review, list |-> page.list, submitting |-> page.submitting]
        /\ page.list = tab.page.list /\ page.review \in {of, tab.page.review}
      BY <1>4, <2>1
  <2>3. SetPage(c, page) /\ call' = [call EXCEPT ![c] = Spent]
      BY <1>2, <1>3, <1>7, <2>1 DEF Shown, OwnerOf
  <2>4. SameTab
      BY <1>2, <1>4, <1>5, <1>7, <2>2, <2>3, SetPageKeepsTab DEF PageKinds
  <2> QED BY <1>1, <2>3, <2>4, SpentOK, SettlingKeepsIInv
<1>8. CASE q.kind = "upload"
  <2>1. PICK review : review = IF ok THEN of ELSE tab.page.review
      OBVIOUS
  <2>2. PICK page : page = [review |-> review, list |-> tab.page.list, submitting |-> ok]
      OBVIOUS
  <2>3. page = [tab.page EXCEPT !.submitting = ok, !.review = review]
    <3>1. PICK t : t = [tab.page EXCEPT !.submitting = ok]
        OBVIOUS
    <3>2. t = [review |-> tab.page.review, list |-> tab.page.list, submitting |-> ok]
        BY <1>4, <3>1
    <3>3. page = [t EXCEPT !.review = review]
        BY <2>2, <3>2
    <3> QED BY <3>1, <3>3
  <2>4. SetPage(c, page)
    <3>1. SetPage(c, [tab.page EXCEPT !.submitting = ok, !.review = IF ok THEN of ELSE @])
        BY <1>2, <1>3, <1>8 DEF Shown, OwnerOf
    <3> QED BY <2>1, <2>3, <3>1
  <2>5. SameTab
      BY <1>2, <1>4, <1>5, <1>8, <2>1, <2>2, <2>4, SetPageKeepsTab DEF PageKinds
  <2>6. IF ok THEN ReloadList(c) ELSE call' = [call EXCEPT ![c] = Spent]
      BY <1>2, <1>8 DEF Shown
  <2> QED BY <1>1, <1>2, <1>8, <2>5, <2>6, ReloadOK, SpentOK, SettlingKeepsIInv DEF ReloadList, PageKinds
<1>9. CASE q.kind = "remove"
  <2>1. PICK open \in BOOLEAN :
            SetPage(c, IF ok /\ open THEN [tab.page EXCEPT !.review = Nobody] ELSE tab.page)
      BY <1>2, <1>9 DEF Shown
  <2>2. PICK page : page = IF ok /\ open THEN [tab.page EXCEPT !.review = Nobody] ELSE tab.page
      OBVIOUS
  <2>3. /\ page = [review |-> page.review, list |-> page.list, submitting |-> page.submitting]
        /\ page.list = tab.page.list /\ page.review \in {Nobody, tab.page.review}
      BY <1>4, <2>2
  <2>4. SameTab
      BY <1>2, <1>4, <2>1, <2>2, <2>3, SetPageKeepsTab
  <2>5. IF ok THEN ReloadList(c) ELSE call' = [call EXCEPT ![c] = Spent]
      BY <1>2, <1>9 DEF Shown
  <2> QED BY <1>1, <1>2, <1>9, <2>4, <2>5, ReloadOK, SpentOK, SettlingKeepsIInv DEF ReloadList, PageKinds
<1>10. CASE q.kind \in {"ask", "logout"}
  <2>1. call' = [call EXCEPT ![c] = Spent] /\ UNCHANGED tab
      BY <1>2, <1>10 DEF Shown
  <2> QED BY <1>1, <2>1, SpentOK, UnchangedTab, SettlingKeepsIInv
<1> QED BY <1>2, <1>6, <1>7, <1>8, <1>9, <1>10 DEF Shown

-----------------------------------------------------------------------------
(* Theorems                                                                  *)

LEMMA InitIInv ==
    ASSUME BrowserInit
    PROVE  IInv
<1>1. /\ owners \in Seq(Accounts) /\ alive \subseteq Sessions /\ jar \in Sessions \cup {Nobody}
  <2>1. CASE owners = <<>> /\ alive = {} /\ jar = Nobody
      BY <2>1, EmptySeq
  <2>2. CASE \E u \in Accounts : owners = <<u>> /\ alive \in {{}, {1}} /\ jar = 1
    <3>1. owners \in Seq(Accounts) /\ Len(owners) = 1
        BY <2>2
    <3> QED BY <2>2, <3>1 DEF Sessions
  <2> QED BY <2>1, <2>2 DEF BrowserInit
<1>2. /\ tab = [user |-> Nobody, csrf |-> Nobody, route |-> "contracts", page |-> EmptyPage,
                dialog |-> "closed"]
      /\ strayed = {}
    BY DEF BrowserInit
<1>3. TabOK /\ ActsAsShown
    BY <1>2 DEF TabOK, IsTab, EmptyPage, ActsAsShown, SignedIn
<1>4. PICK q : q = Request("me", Nobody, Nobody, FALSE)
    OBVIOUS
<1>5. call = [c \in Calls |-> IF c = Restoring THEN q ELSE NoCall]
    BY <1>4 DEF BrowserInit
<1>6. CallOK(q)
  <2> PICK mounted : mounted = ("me" = "login" \/ tab.route = "contracts")
      OBVIOUS
  <2>1. q = [kind |-> "me", cookie |-> jar, csrf |-> Nobody, user |-> tab.user, of |-> Nobody,
             signal |-> FALSE, mounted |-> mounted, reply |-> "none", session |-> Nobody]
      BY <1>4 DEF Request
  <2> QED BY <1>1, <2>1 DEF CallOK, IsRequest, Sound, OfThisPage, Kinds, PageKinds
<1>7. call = [c \in Calls |-> call[c]] /\ \A c \in Calls : CallOK(call[c])
  <2>1. \A c \in Calls : call[c] = q \/ call[c] = NoCall
      BY <1>5
  <2>2. CallOK(NoCall)
      BY DEF CallOK
  <2>3. \A c \in Calls : CallOK(call[c])
      BY <1>6, <2>1, <2>2
  <2> QED BY <1>5, <2>3
<1> QED BY <1>1, <1>3, <1>7 DEF IInv, ServerOK

LEMMA StutteringKeepsIInv ==
    ASSUME IInv, UNCHANGED browserVars
    PROVE  IInv'
BY DEF IInv, browserVars, ServerOK, TabOK, IsTab, CallOK, IsRequest, Sound, OfThisPage, ActsAsShown,
       SignedIn, OwnerOf, Sessions

\* The inductive invariant: what every request on its way carries.
THEOREM BrowserInvariance == BrowserSpec => []IInv
<1>1. BrowserInit => IInv
    BY InitIInv
<1>2. IInv /\ [BrowserNext]_browserVars => IInv'
  <2> SUFFICES ASSUME IInv, [BrowserNext]_browserVars PROVE IInv'
      OBVIOUS
  <2>1. ASSUME NEW c \in Calls,
               Submit(c) \/ Logout(c) \/ LoadReviews(c) \/ OpenReview(c) \/ Upload(c)
                  \/ RemoveReview(c) \/ AskQuestion(c)
        PROVE  IInv'
      BY <2>1, ClicksKeepIInv
  <2>2. ASSUME NEW c \in Calls, ServeWrite(c) \/ ServeRead(c) \/ ServeLogin(c) \/ RequestFails(c)
        PROVE  IInv'
      BY <2>2, ServeWriteKeepsIInv, ServeReadKeepsIInv, ServeLoginKeepsIInv, FailureKeepsIInv
  <2>3. ASSUME NEW c \in Calls, Restored(c) \/ Authenticated(c) \/ SignedOut(c) \/ Shown(c)
        PROVE  IInv'
      BY <2>3, RestoredKeepsIInv, AuthenticatedKeepsIInv, SignedOutKeepsIInv, ShownKeepsIInv
  <2>4. CASE ToggleDialog \/ Navigate \/ Expire \/ OtherTab
      BY <2>4, DialogKeepsIInv, NavigationKeepsIInv, ExpiryKeepsIInv, OtherTabKeepsIInv
  <2>5. CASE UNCHANGED browserVars
      BY <2>5, StutteringKeepsIInv
  <2> QED BY <2>1, <2>2, <2>3, <2>4, <2>5 DEF BrowserNext
<1> QED BY <1>1, <1>2, PTL DEF BrowserSpec

\* ActsAsShown: whatever order replies come in, and whatever other tabs do to
\* the cookies, a click acts on the account it was made for, and a page shows
\* the reviews of its own account.
THEOREM ActionsFollowTheTab == BrowserSpec => []ActsAsShown
<1>1. IInv => ActsAsShown
    BY DEF IInv
<1> QED BY <1>1, BrowserInvariance, PTL

-----------------------------------------------------------------------------
(* ConversationPage: what its handlers and the server know *)

ViewFields == {"listed", "active", "shown", "result", "question", "loading",
               "historyLoading", "convLoading", "bookmarking", "editing"}
FlowFields == {"kind", "pc", "mounted", "conv", "closure", "x", "reply", "detail", "list"}

\* An ask whose conversation does not exist yet
PendingAsk(h) == h.kind = "ask" /\ h.pc = "call" /\ h.reply = "none" /\ h.conv = None
Pending(u) == \E f \in Slots : PendingAsk(flow[f]) /\ flow[f].x = u

\* The conversations there are or have been
Known == OldConvs \cup {u \in asked : ~Pending(u)}
KnownOrNone == Known \cup {None}

PageShape ==
    /\ ViewFields \subseteq DOMAIN view
    /\ DOMAIN flow = Slots /\ DOMAIN placed = Exchanges
    /\ \A f \in Slots : FlowFields \subseteq DOMAIN flow[f]
    /\ flow[Loader].kind \in {"load", "done"}

\* Nobody knows the id of a conversation before it exists.
HandlerKnows(h) ==
    /\ h.conv \in KnownOrNone /\ h.closure \in KnownOrNone
    /\ Arrived(h.list) => h.list \subseteq Known
OnlyKnown ==
    /\ live \subseteq Known /\ localId \in KnownOrNone
    /\ view.listed \subseteq Known /\ view.active \in KnownOrNone
    /\ \A f \in Slots : HandlerKnows(flow[f])

\* While the conversation of a saved answer exists, it holds the answer.
Placed(h) == h.conv \in live => placed[h.x] = h.conv
AskSound(h) ==
    /\ h.x \in asked
    /\ h.pc \in {"call", "reload"}
    /\ h.pc = "call" => h.detail = None
    /\ Arrived(h.detail) => h.x \in h.detail
    /\ h.pc = "reload" \/ h.reply = "saved" => Placed(h)

\* The page keeps the transient answer for the ask that will replace it.
AskShown(h) ==
    /\ view.loading
    /\ view.result \in {None} \cup (IF h.pc = "call" THEN {} ELSE {h.x})

AsksSound == \A f \in Slots : flow[f].kind = "ask" => AskSound(flow[f])
AsksShown == \A f \in Slots : flow[f].kind = "ask" /\ flow[f].mounted => AskShown(flow[f])
AsksDiffer ==
    \A f, g \in Slots : f # g /\ flow[f].kind = "ask" /\ flow[g].kind = "ask" =>
        flow[f].x # flow[g].x /\ ~(flow[f].mounted /\ flow[g].mounted)

PageInv ==
    /\ PageShape /\ asked \subseteq Questions
    /\ OnlyKnown /\ AsksSound /\ AsksShown /\ AsksDiffer

-----------------------------------------------------------------------------
(* Steps of one handler *)

\* Handler f goes on, and no other does.
FlowStep(f) ==
    /\ DOMAIN flow' = Slots
    /\ FlowFields \subseteq DOMAIN flow'[f]
    /\ f = Loader => flow'[f].kind \in {"load", "done"}
    /\ \A g \in Slots \ {f} : flow'[g] = flow[g]

\* The page changes nothing an ask other than f's relies on, and learns no new id.
GentleFor(f) ==
    \A g \in Slots \ {f} : flow[g].kind = "ask" /\ flow[g].mounted =>
        view'.loading = view.loading /\ view'.result \in {None, view.result}
QuietView(f) ==
    /\ ViewFields \subseteq DOMAIN view'
    /\ view'.listed \subseteq Known /\ view'.active \in KnownOrNone
    /\ GentleFor(f)

\* What handler f waits for is the answer it waited for, or to a question nobody asked.
SameOrNewAsk(f) ==
    \/ flow[f].kind = "ask" /\ flow'[f].x = flow[f].x /\ flow'[f].mounted = flow[f].mounted
    \/ /\ flow'[f].x \notin asked
       /\ \A g \in Slots \ {f} : flow[g].kind = "ask" => ~flow[g].mounted

OthersStayPlaced(f) ==
    \A g \in Slots \ {f} : flow[g].kind = "ask" /\ AskSound(flow[g]) /\ Placed(flow[g]) =>
        (flow[g].conv \in live' => placed'[flow[g].x] = flow[g].conv)

\* No id is forgotten.
LEMMA KnownGrows ==
    ASSUME PageInv, NEW f \in Slots, FlowStep(f), asked \subseteq asked',
           PendingAsk(flow'[f]) => \/ PendingAsk(flow[f]) /\ flow'[f].x = flow[f].x
                                   \/ flow'[f].x \notin asked
    PROVE  Known \subseteq Known'
<1> SUFFICES ASSUME NEW u \in asked, ~Pending(u), Pending(u)'
             PROVE  FALSE
    BY DEF Known
<1>1. PICK g \in Slots : PendingAsk(flow'[g]) /\ flow'[g].x = u
    BY DEF Pending, PendingAsk
<1>2. CASE g = f
    BY <1>1, <1>2 DEF Pending
<1>3. CASE g # f
    BY <1>1, <1>3 DEF Pending, FlowStep
<1> QED BY <1>2, <1>3

LEMMA StepKeepsInv ==
    ASSUME PageInv, NEW f \in Slots, FlowStep(f),
           ViewFields \subseteq DOMAIN view', DOMAIN placed' = Exchanges,
           asked \subseteq asked', asked' \subseteq Questions, Known \subseteq Known',
           live' \subseteq Known', localId' \in KnownOrNone',
           view'.listed \subseteq Known', view'.active \in KnownOrNone',
           HandlerKnows(flow[f])',
           GentleFor(f), OthersStayPlaced(f),
           flow'[f].kind = "ask" =>
              /\ AskSound(flow[f])' /\ SameOrNewAsk(f)
              /\ flow'[f].mounted => AskShown(flow[f])'
    PROVE  PageInv'
<1> USE DEF PageInv
<1>1. PageShape'
  <2>1. \A g \in Slots : g # f => flow'[g] = flow[g]
      BY DEF FlowStep
  <2>2. Loader \in Slots
      BY DEF Slots
  <2> QED BY <2>1, <2>2 DEF PageShape, FlowStep
<1>2. OnlyKnown'
  <2>1. ASSUME NEW g \in Slots, g # f
        PROVE  HandlerKnows(flow[g])'
    <3>1. flow'[g] = flow[g] /\ HandlerKnows(flow[g])
        BY <2>1 DEF FlowStep, OnlyKnown
    <3> QED BY <3>1 DEF HandlerKnows, KnownOrNone
  <2> QED BY <2>1 DEF OnlyKnown
<1>3. AsksSound'
  <2>1. ASSUME NEW g \in Slots, g # f, flow[g].kind = "ask"
        PROVE  AskSound(flow[g])'
    <3>1. flow'[g] = flow[g] /\ AskSound(flow[g])
        BY <2>1 DEF FlowStep, AsksSound
    <3>2. Placed(flow[g]) => Placed(flow[g])'
        BY <2>1, <3>1 DEF OthersStayPlaced, Placed
    <3> QED BY <3>1, <3>2 DEF AskSound
  <2>2. \A g \in Slots : g # f => flow'[g] = flow[g]
      BY DEF FlowStep
  <2> QED BY <2>1, <2>2 DEF AsksSound
<1>4. AsksShown'
  <2>1. ASSUME NEW g \in Slots, g # f, flow[g].kind = "ask", flow[g].mounted
        PROVE  AskShown(flow[g])'
      BY <2>1 DEF FlowStep, AsksShown, AskShown, GentleFor
  <2>2. \A g \in Slots : g # f => flow'[g] = flow[g]
      BY DEF FlowStep
  <2> QED BY <2>1, <2>2 DEF AsksShown
<1>5. AsksDiffer'
  <2>1. \A g \in Slots \ {f} : flow'[g] = flow[g]
      BY DEF FlowStep
  <2>2. \A g \in Slots : flow[g].kind = "ask" => flow[g].x \in asked
      BY DEF AsksSound, AskSound
  <2>3. ASSUME NEW g \in Slots, g # f, flow'[f].kind = "ask", flow[g].kind = "ask"
        PROVE  flow'[f].x # flow[g].x /\ ~(flow'[f].mounted /\ flow[g].mounted)
      BY <2>2, <2>3 DEF SameOrNewAsk, AsksDiffer
  <2> QED BY <2>1, <2>3 DEF AsksDiffer
<1> QED BY <1>1, <1>2, <1>3, <1>4, <1>5

\* A handler that is, or ends up, no ask disturbs nothing.
LEMMA QuietStepKeepsInv ==
    ASSUME PageInv, NEW f \in Slots, FlowStep(f), flow'[f].kind # "ask", QuietView(f),
           UNCHANGED server, localId' \in KnownOrNone,
           flow'[f].conv \in KnownOrNone, flow'[f].closure \in KnownOrNone,
           Arrived(flow'[f].list) => flow'[f].list \subseteq Known
    PROVE  PageInv'
<1>1. Known \subseteq Known'
    BY KnownGrows DEF PendingAsk, server
<1>2. KnownOrNone \subseteq KnownOrNone'
    BY <1>1 DEF KnownOrNone
<1>3. HandlerKnows(flow[f])'
    BY <1>1, <1>2 DEF HandlerKnows, Arrived
<1>4. OthersStayPlaced(f)
    BY DEF OthersStayPlaced, Placed, server
<1>5. live' \subseteq Known' /\ localId' \in KnownOrNone' /\ view'.listed \subseteq Known'
      /\ view'.active \in KnownOrNone' /\ GentleFor(f) /\ ViewFields \subseteq DOMAIN view'
      /\ DOMAIN placed' = Exchanges
    BY <1>1, <1>2 DEF QuietView, server, PageInv, PageShape, OnlyKnown
<1>6. asked \subseteq asked' /\ asked' \subseteq Questions
    BY DEF server, PageInv
<1> QED BY <1>1, <1>3, <1>4, <1>5, <1>6, StepKeepsInv

-----------------------------------------------------------------------------
(* What the user does *)

LEMMA Launched ==
    ASSUME PageInv, NEW f \in Flows, NEW kind \in {"open", "rename", "delete", "mark", "ask"},
           NEW pc, NEW conv, NEW x, Launch(f, Handler(kind, pc, conv, x))
    PROVE  /\ FlowStep(f)
           /\ flow'[f].kind = kind /\ flow'[f].pc = pc /\ flow'[f].mounted
           /\ flow'[f].conv = conv /\ flow'[f].closure = view.active /\ flow'[f].x = x
           /\ flow'[f].reply = "none" /\ flow'[f].detail = None /\ flow'[f].list = None
<1>1. f \in Slots /\ f # Loader
    BY SlotsAssumption DEF Slots
<1>2. flow' = [flow EXCEPT ![f] = Handler(kind, pc, conv, x)]
    BY DEF Launch
<1> QED BY <1>1, <1>2 DEF Handler, FlowStep, FlowFields, PageInv, PageShape

\* Without a step of a handler, the Loader's slot stands for them all.
LEMMA NoHandlerStep ==
    ASSUME PageInv, UNCHANGED flow
    PROVE  /\ Loader \in Slots /\ FlowStep(Loader) /\ flow'[Loader].kind # "ask"
           /\ flow'[Loader].conv \in KnownOrNone /\ flow'[Loader].closure \in KnownOrNone
           /\ Arrived(flow'[Loader].list) => flow'[Loader].list \subseteq Known
<1>1. Loader \in Slots
    BY DEF Slots
<1> QED BY <1>1 DEF PageInv, PageShape, FlowStep, OnlyKnown, HandlerKnows

\* No ask is waiting on a page that is not loading.
LEMMA NotLoading ==
    ASSUME PageInv, ~view.loading
    PROVE  \A g \in Slots : flow[g].kind = "ask" => ~flow[g].mounted
BY DEF PageInv, AsksShown, AskShown

LEMMA SameView ==
    ASSUME PageInv, NEW f \in Slots, UNCHANGED view
    PROVE  QuietView(f)
<1>1. view.result \in {None, view.result}
    OBVIOUS
<1> QED BY <1>1 DEF PageInv, PageShape, OnlyKnown, QuietView, GentleFor

LEMMA FreeClicksKeepInv ==
    ASSUME PageInv,
           NewConversation \/ CancelRename \/ \E c \in view.listed : StartRename(c)
    PROVE  PageInv'
<1>1. UNCHANGED flow /\ UNCHANGED server
    BY DEF NewConversation, CancelRename, StartRename
<1>2. localId' \in KnownOrNone
    BY DEF NewConversation, CancelRename, StartRename, PageInv, OnlyKnown, KnownOrNone
<1>3. QuietView(Loader)
  <2>1. CASE NewConversation
    <3>1. ~view.loading
        BY <2>1 DEF NewConversation, Busy
    <3>2. GentleFor(Loader)
        BY <3>1, NotLoading DEF GentleFor
    <3>3. view' = Cleared(view)
        BY <2>1 DEF NewConversation
    <3>4. view'.listed = view.listed /\ view'.active = None /\ ViewFields \subseteq DOMAIN view'
        BY <3>3 DEF Cleared, PageInv, PageShape, ViewFields
    <3> QED BY <3>2, <3>4 DEF QuietView, PageInv, OnlyKnown, KnownOrNone
  <2>2. CASE CancelRename \/ \E c \in view.listed : StartRename(c)
    <3>1. PICK e : view' = [view EXCEPT !.editing = e]
        BY <2>2 DEF CancelRename, StartRename
    <3>2. /\ view'.listed = view.listed /\ view'.active = view.active
          /\ view'.loading = view.loading /\ view'.result = view.result
          /\ ViewFields \subseteq DOMAIN view'
        BY <3>1 DEF PageInv, PageShape, ViewFields
    <3> QED BY <3>2 DEF QuietView, GentleFor, PageInv, OnlyKnown
  <2> QED BY <2>1, <2>2
<1> QED BY <1>1, <1>2, <1>3, NoHandlerStep, QuietStepKeepsInv

\* A click that sends something else than a question
LEMMA ClicksKeepInv ==
    ASSUME PageInv, NEW f \in Flows,
           \/ \E c \in view.listed : Open(f, c) \/ Delete(f, c)
           \/ \E x \in Exchanges : ToggleBookmark(f, x)
           \/ ConfirmRename(f)
    PROVE  PageInv'
<1>1. f \in Slots /\ UNCHANGED server
    BY DEF Slots, Open, Delete, ToggleBookmark, ConfirmRename
<1>2. localId' \in KnownOrNone
    BY DEF Open, Delete, ToggleBookmark, ConfirmRename, PageInv, OnlyKnown
<1>3. PICK kind, pc, conv, x :
        /\ kind \in {"open", "rename", "delete", "mark"} /\ conv \in KnownOrNone
        /\ Launch(f, Handler(kind, pc, conv, x))
  <2>1. view.listed \subseteq KnownOrNone /\ None \in KnownOrNone
      BY DEF PageInv, OnlyKnown, KnownOrNone
  <2>2. ASSUME NEW c \in view.listed, Open(f, c)
        PROVE  Launch(f, Handler("open", "reload", c, None)) /\ c \in KnownOrNone
      BY <2>1, <2>2 DEF Open
  <2>3. ASSUME NEW c \in view.listed, Delete(f, c)
        PROVE  Launch(f, Handler("delete", "call", c, None)) /\ c \in KnownOrNone
      BY <2>1, <2>3 DEF Delete
  <2>4. ASSUME NEW e \in Exchanges, ToggleBookmark(f, e)
        PROVE  Launch(f, Handler("mark", "call", None, e))
      BY <2>4 DEF ToggleBookmark
  <2>5. ASSUME ConfirmRename(f)
        PROVE  Launch(f, Handler("rename", "call", view.editing, None)) /\ view.editing \in KnownOrNone
      BY <2>1, <2>5 DEF ConfirmRename
  <2>6. "open" \in {"open", "rename", "delete", "mark"} /\ "delete" \in {"open", "rename", "delete", "mark"}
        /\ "mark" \in {"open", "rename", "delete", "mark"} /\ "rename" \in {"open", "rename", "delete", "mark"}
      OBVIOUS
  <2> QED BY <2>1, <2>2, <2>3, <2>4, <2>5, <2>6, Zenon
<1>4. QuietView(f)
  <2>1. ASSUME NEW c \in view.listed, Open(f, c)
        PROVE  QuietView(f)
    <3>1. PICK v : v = [view EXCEPT !.result = None]
        OBVIOUS
    <3>2. PICK w : w = [v EXCEPT !.question = None]
        OBVIOUS
    <3>3. view' = [w EXCEPT !.convLoading = TRUE] /\ ~view.loading
        BY <2>1, <3>1, <3>2 DEF Open, Busy
    <3>4. ViewFields \subseteq DOMAIN v /\ v.listed = view.listed /\ v.active = view.active
        BY <3>1 DEF PageInv, PageShape, ViewFields
    <3>5. ViewFields \subseteq DOMAIN w /\ w.listed = view.listed /\ w.active = view.active
        BY <3>2, <3>4 DEF ViewFields
    <3>6. /\ ViewFields \subseteq DOMAIN view'
          /\ view'.listed = view.listed /\ view'.active = view.active
        BY <3>3, <3>5 DEF ViewFields
    <3>7. GentleFor(f)
        BY <3>3, NotLoading DEF GentleFor
    <3> QED BY <3>6, <3>7 DEF QuietView, PageInv, OnlyKnown
  <2>2. ASSUME NEW e, ToggleBookmark(f, e)
        PROVE  QuietView(f)
    <3>1. view' = [view EXCEPT !.bookmarking = e]
        BY <2>2 DEF ToggleBookmark
    <3>2. /\ view'.listed = view.listed /\ view'.active = view.active
          /\ view'.loading = view.loading /\ view'.result = view.result
          /\ ViewFields \subseteq DOMAIN view'
        BY <3>1 DEF PageInv, PageShape, ViewFields
    <3> QED BY <3>2 DEF QuietView, GentleFor, PageInv, OnlyKnown
  <2>3. CASE ConfirmRename(f) \/ \E c \in view.listed : Delete(f, c)
      BY <1>1, <2>3, SameView DEF ConfirmRename, Delete
  <2> QED BY <2>1, <2>2, <2>3
<1>5. /\ FlowStep(f) /\ flow'[f].kind # "ask" /\ flow'[f].list = None
      /\ flow'[f].conv \in KnownOrNone /\ flow'[f].closure \in KnownOrNone
  <2>1. FlowStep(f) /\ flow'[f].kind = kind /\ flow'[f].list = None
        /\ flow'[f].conv = conv /\ flow'[f].closure = view.active
    <3>1. kind \in {"open", "rename", "delete", "mark", "ask"}
        BY <1>3
    <3>2. Launch(f, Handler(kind, pc, conv, x))
        BY <1>3
    <3> QED BY <3>1, <3>2, Launched
  <2> QED BY <1>3, <2>1 DEF PageInv, OnlyKnown
<1> QED BY <1>1, <1>2, <1>4, <1>5, QuietStepKeepsInv DEF Arrived

LEMMA QuestionKeepsInv ==
    ASSUME PageInv, NEW f \in Flows, NEW x, SubmitQuestion(f, x)
    PROVE  PageInv'
<1>1. f \in Slots /\ x \in Questions /\ x \notin asked /\ asked' = asked \cup {x}
      /\ ~view.loading /\ live' = live /\ placed' = placed /\ localId' = localId
    BY DEF SubmitQuestion, Slots
<1>2. /\ FlowStep(f) /\ flow'[f].conv = view.active /\ flow'[f].closure = view.active
      /\ flow'[f].x = x /\ flow'[f].pc = "call" /\ flow'[f].reply = "none"
      /\ flow'[f].detail = None /\ flow'[f].list = None
    BY Launched DEF SubmitQuestion
<1>3. Known \subseteq Known'
    BY <1>1, <1>2, KnownGrows
<1>4. KnownOrNone \subseteq KnownOrNone'
    BY <1>3 DEF KnownOrNone
<1>5. /\ ViewFields \subseteq DOMAIN view'
      /\ view'.listed = view.listed /\ view'.active = view.active
      /\ view'.loading /\ view'.result = None
  <2>1. PICK v : v = [view EXCEPT !.result = None]
      OBVIOUS
  <2>2. PICK w : w = [v EXCEPT !.question = x]
      OBVIOUS
  <2>3. view' = [w EXCEPT !.loading = TRUE]
      BY <2>1, <2>2 DEF SubmitQuestion
  <2>4. ViewFields \subseteq DOMAIN v /\ v.listed = view.listed /\ v.active = view.active
        /\ v.result = None
      BY <2>1 DEF PageInv, PageShape, ViewFields
  <2>5. ViewFields \subseteq DOMAIN w /\ w.listed = view.listed /\ w.active = view.active
        /\ w.result = None
      BY <2>2, <2>4 DEF ViewFields
  <2> QED BY <2>3, <2>5 DEF ViewFields
<1>6. \A g \in Slots : flow[g].kind = "ask" => ~flow[g].mounted
    BY <1>1, NotLoading
<1>7. GentleFor(f) /\ OthersStayPlaced(f) /\ SameOrNewAsk(f)
    BY <1>1, <1>2, <1>6 DEF GentleFor, OthersStayPlaced, Placed, SameOrNewAsk
<1>8. AskSound(flow[f])' /\ AskShown(flow[f])'
    BY <1>1, <1>2, <1>5 DEF AskSound, AskShown, Arrived
<1>9. HandlerKnows(flow[f])'
    BY <1>2, <1>4 DEF HandlerKnows, Arrived, PageInv, OnlyKnown
<1>10. live' \subseteq Known' /\ localId' \in KnownOrNone' /\ view'.listed \subseteq Known'
       /\ view'.active \in KnownOrNone' /\ asked \subseteq asked' /\ asked' \subseteq Questions
       /\ DOMAIN placed' = Exchanges
    BY <1>1, <1>3, <1>4, <1>5 DEF PageInv, PageShape, OnlyKnown
<1> QED BY <1>1, <1>2, <1>3, <1>5, <1>7, <1>8, <1>9, <1>10, StepKeepsInv

\* A handler of a page that is left
LeftBehind(g) ==
    \/ flow'[g] = Done
    \/ flow'[g] = [flow[g] EXCEPT !.mounted = FALSE]
    \/ ~InFlight(g) /\ flow'[g] = flow[g]

\* The page is left: nothing of it is mounted any more.
LEMMA LeavingKeepsInv ==
    ASSUME PageInv, UNCHANGED server, localId' \in KnownOrNone, view' = NewPage(localId'),
           DOMAIN flow' = Slots, flow'[Loader] = LoadHistory,
           \A g \in Flows : LeftBehind(g)
    PROVE  PageInv'
<1>1. /\ FlowFields \subseteq DOMAIN LoadHistory /\ LoadHistory.kind = "load"
      /\ LoadHistory.conv = None /\ LoadHistory.closure = None /\ LoadHistory.list = None
    BY DEF LoadHistory, NoFlow, FlowFields
<1>2. /\ FlowFields \subseteq DOMAIN Done /\ Done.kind = "done"
      /\ Done.conv = None /\ Done.closure = None /\ Done.list = None
    BY DEF Done, NoFlow, FlowFields
<1>3. ASSUME NEW g \in Slots, g # Loader
      PROVE  \/ flow'[g] = Done
             \/ /\ flow'[g].kind = flow[g].kind /\ flow'[g].pc = flow[g].pc
                /\ flow'[g].conv = flow[g].conv /\ flow'[g].closure = flow[g].closure
                /\ flow'[g].x = flow[g].x /\ flow'[g].reply = flow[g].reply
                /\ flow'[g].detail = flow[g].detail /\ flow'[g].list = flow[g].list
                /\ FlowFields \subseteq DOMAIN flow'[g]
                /\ (flow'[g].kind = "ask" => ~flow'[g].mounted)
  <2>1. g \in Flows /\ FlowFields \subseteq DOMAIN flow[g]
      BY <1>3 DEF Slots, PageInv, PageShape
  <2>2. CASE flow'[g] = [flow[g] EXCEPT !.mounted = FALSE]
      BY <2>1, <2>2 DEF FlowFields
  <2>3. CASE ~InFlight(g) /\ flow'[g] = flow[g]
      BY <2>1, <2>3 DEF InFlight
  <2> QED BY <2>1, <2>2, <2>3 DEF LeftBehind
<1>4. Known \subseteq Known'
  <2>1. \A u : Pending(u)' => Pending(u)
      BY <1>1, <1>2, <1>3 DEF Pending, PendingAsk
  <2> QED BY <2>1 DEF Known, server
<1>5. KnownOrNone \subseteq KnownOrNone'
    BY <1>4 DEF KnownOrNone
<1>6. /\ ViewFields \subseteq DOMAIN view' /\ view'.listed = {} /\ view'.active = localId'
    BY DEF NewPage, ViewFields
<1>7. PageShape'
    BY <1>1, <1>2, <1>3, <1>6 DEF PageShape, PageInv, server
<1>8. OnlyKnown'
  <2>1. ASSUME NEW g \in Slots
        PROVE  HandlerKnows(flow[g])'
    <3>1. HandlerKnows(flow[g])
        BY DEF PageInv, OnlyKnown
    <3>2. None \in KnownOrNone'
        BY DEF KnownOrNone
    <3> QED BY <1>1, <1>2, <1>3, <1>4, <1>5, <3>1, <3>2 DEF HandlerKnows, Arrived
  <2> QED BY <1>4, <1>5, <1>6, <2>1 DEF OnlyKnown, PageInv, server
<1>9. \A g \in Slots : flow'[g].kind = "ask" =>
          /\ flow[g].kind = "ask" /\ ~flow'[g].mounted /\ flow'[g].x = flow[g].x
          /\ flow'[g].pc = flow[g].pc /\ flow'[g].conv = flow[g].conv
          /\ flow'[g].reply = flow[g].reply /\ flow'[g].detail = flow[g].detail
    BY <1>1, <1>2, <1>3
<1>10. AsksSound'
    BY <1>9 DEF PageInv, AsksSound, AskSound, Placed, server
<1>11. AsksShown' /\ AsksDiffer'
    BY <1>9 DEF PageInv, AsksShown, AsksDiffer
<1>12. asked' \subseteq Questions
    BY DEF PageInv, server
<1> QED BY <1>7, <1>8, <1>10, <1>11, <1>12 DEF PageInv

LEMMA NavigationKeepsInv ==
    ASSUME PageInv, NEW f \in Flows, ComeBack(f) \/ ReloadDocument(f) \/ SignInAgain(f)
    PROVE  PageInv'
<1>1. Loader \in Slots /\ Loader \notin Flows /\ Flows \subseteq Slots
    BY SlotsAssumption DEF Slots
<1>2. CASE ComeBack(f) \/ SignInAgain(f)
  <2>1. PICK id \in live \cup {localId, None} :
          /\ localId' = id
          /\ view' = NewPage(id)
          /\ flow' = [g \in Slots |->
                        IF g = Loader THEN LoadHistory
                        ELSE IF g = f THEN Done
                        ELSE IF InFlight(g) THEN [flow[g] EXCEPT !.mounted = FALSE]
                        ELSE flow[g]]
      BY <1>2 DEF ComeBack, SignInAgain, Remount
  <2>2. UNCHANGED server /\ localId' \in KnownOrNone
      BY <1>2, <2>1 DEF ComeBack, SignInAgain, Remount, PageInv, OnlyKnown, KnownOrNone
  <2>3. DOMAIN flow' = Slots /\ flow'[Loader] = LoadHistory
      BY <1>1, <2>1
  <2>4. ASSUME NEW g \in Flows
        PROVE  LeftBehind(g)
    <3>1. g \in Slots /\ g # Loader
        BY <1>1
    <3>2. flow'[g] = IF g = f THEN Done
                     ELSE IF InFlight(g) THEN [flow[g] EXCEPT !.mounted = FALSE] ELSE flow[g]
        BY <2>1, <3>1
    <3> QED BY <3>2, Zenon DEF LeftBehind
  <2> QED BY <2>1, <2>2, <2>3, <2>4, LeavingKeepsInv
<1>3. CASE ReloadDocument(f)
  <2>1. flow' = [g \in Slots |->
                   IF g = Loader THEN LoadHistory
                   ELSE IF g = f \/ InFlight(g) THEN Done ELSE flow[g]]
      BY <1>3 DEF ReloadDocument
  <2>2. UNCHANGED server /\ localId' \in KnownOrNone /\ view' = NewPage(localId')
      BY <1>3 DEF ReloadDocument, PageInv, OnlyKnown
  <2>3. DOMAIN flow' = Slots /\ flow'[Loader] = LoadHistory
      BY <1>1, <2>1
  <2>4. ASSUME NEW g \in Flows
        PROVE  LeftBehind(g)
    <3>1. g \in Slots /\ g # Loader
        BY <1>1
    <3>2. flow'[g] = IF g = f \/ InFlight(g) THEN Done ELSE flow[g]
        BY <2>1, <3>1
    <3> QED BY <3>2, Zenon DEF LeftBehind
  <2> QED BY <2>2, <2>3, <2>4, LeavingKeepsInv
<1> QED BY <1>2, <1>3

-----------------------------------------------------------------------------
(* What the server answers *)

\* Everything but what a request brings
SameRequest(f) ==
    /\ flow'[f].kind = flow[f].kind /\ flow'[f].pc = flow[f].pc
    /\ flow'[f].mounted = flow[f].mounted /\ flow'[f].closure = flow[f].closure
    /\ flow'[f].x = flow[f].x

LEMMA ReplyComes ==
    ASSUME PageInv, NEW f \in Slots, NEW r, Reply(f, r)
    PROVE  /\ FlowStep(f) /\ SameRequest(f) /\ flow'[f].conv = flow[f].conv
           /\ flow'[f].reply = r /\ flow'[f].detail = flow[f].detail /\ flow'[f].list = flow[f].list
BY DEF Reply, FlowStep, SameRequest, PageInv, PageShape, FlowFields

LEMMA DetailComes ==
    ASSUME PageInv, NEW f \in Slots, NEW d, flow' = [flow EXCEPT ![f].detail = d]
    PROVE  /\ FlowStep(f) /\ SameRequest(f) /\ flow'[f].conv = flow[f].conv
           /\ flow'[f].reply = flow[f].reply /\ flow'[f].detail = d /\ flow'[f].list = flow[f].list
BY DEF FlowStep, SameRequest, PageInv, PageShape, FlowFields

LEMMA ListComes ==
    ASSUME PageInv, NEW f \in Slots, NEW l, flow' = [flow EXCEPT ![f].list = l]
    PROVE  /\ FlowStep(f) /\ SameRequest(f) /\ flow'[f].conv = flow[f].conv
           /\ flow'[f].reply = flow[f].reply /\ flow'[f].detail = flow[f].detail /\ flow'[f].list = l
BY DEF FlowStep, SameRequest, PageInv, PageShape, FlowFields

LEMMA ReplyWith ==
    ASSUME PageInv, NEW f \in Slots, NEW r, NEW d,
           flow' = [flow EXCEPT ![f].reply = r, ![f].detail = d]
    PROVE  /\ FlowStep(f) /\ SameRequest(f) /\ flow'[f].conv = flow[f].conv
           /\ flow'[f].reply = r /\ flow'[f].detail = d /\ flow'[f].list = flow[f].list
<1>1. PICK h : h = [flow[f] EXCEPT !.reply = r]
    OBVIOUS
<1>2. PICK k : k = [h EXCEPT !.detail = d]
    OBVIOUS
<1>3. flow' = [flow EXCEPT ![f] = k]
    BY <1>1, <1>2
<1>4. FlowFields \subseteq DOMAIN flow[f] /\ DOMAIN flow = Slots
    BY DEF PageInv, PageShape
<1>5. /\ FlowFields \subseteq DOMAIN h /\ h.kind = flow[f].kind /\ h.pc = flow[f].pc
      /\ h.mounted = flow[f].mounted /\ h.closure = flow[f].closure /\ h.x = flow[f].x
      /\ h.conv = flow[f].conv /\ h.reply = r /\ h.list = flow[f].list
    BY <1>1, <1>4 DEF FlowFields
<1>6. /\ FlowFields \subseteq DOMAIN k /\ k.kind = h.kind /\ k.pc = h.pc
      /\ k.mounted = h.mounted /\ k.closure = h.closure /\ k.x = h.x
      /\ k.conv = h.conv /\ k.reply = h.reply /\ k.list = h.list /\ k.detail = d
    BY <1>2, <1>5 DEF FlowFields
<1> QED BY <1>3, <1>4, <1>5, <1>6 DEF FlowStep, SameRequest, PageInv, PageShape

ReplyAbout(f, r, c) == flow' = [flow EXCEPT ![f].reply = r, ![f].conv = c]

LEMMA ReplyIsAbout ==
    ASSUME PageInv, NEW f \in Slots, NEW r, NEW c, ReplyAbout(f, r, c)
    PROVE  /\ FlowStep(f) /\ SameRequest(f) /\ flow'[f].conv = c
           /\ flow'[f].reply = r /\ flow'[f].detail = flow[f].detail /\ flow'[f].list = flow[f].list
<1>1. PICK h : h = [flow[f] EXCEPT !.reply = r]
    OBVIOUS
<1>2. PICK k : k = [h EXCEPT !.conv = c]
    OBVIOUS
<1>3. flow' = [flow EXCEPT ![f] = k]
    BY <1>1, <1>2 DEF ReplyAbout
<1>4. FlowFields \subseteq DOMAIN flow[f] /\ DOMAIN flow = Slots
    BY DEF PageInv, PageShape
<1>5. /\ FlowFields \subseteq DOMAIN h /\ h.kind = flow[f].kind /\ h.pc = flow[f].pc
      /\ h.mounted = flow[f].mounted /\ h.closure = flow[f].closure /\ h.x = flow[f].x
      /\ h.detail = flow[f].detail /\ h.reply = r /\ h.list = flow[f].list
    BY <1>1, <1>4 DEF FlowFields
<1>6. /\ FlowFields \subseteq DOMAIN k /\ k.kind = h.kind /\ k.pc = h.pc
      /\ k.mounted = h.mounted /\ k.closure = h.closure /\ k.x = h.x
      /\ k.detail = h.detail /\ k.reply = h.reply /\ k.list = h.list /\ k.conv = c
    BY <1>2, <1>5 DEF FlowFields
<1> QED BY <1>3, <1>4, <1>5, <1>6 DEF FlowStep, SameRequest, PageInv, PageShape

\* An answer that changes nothing on the server, and tells the truth
LEMMA AnswerKeepsInv ==
    ASSUME PageInv, NEW f \in Slots, FlowStep(f), SameRequest(f), flow'[f].conv = flow[f].conv,
           UNCHANGED <<server, localId, view>>,
           flow'[f].reply # flow[f].reply => flow'[f].reply \notin {"none", "saved"},
           Arrived(flow'[f].list) => flow'[f].list \subseteq Known,
           flow[f].kind = "ask" =>
              /\ flow[f].pc = "call" => flow'[f].detail = flow[f].detail
              /\ Arrived(flow'[f].detail) => flow[f].x \in flow'[f].detail
    PROVE  PageInv'
<1>1. Known \subseteq Known'
    BY KnownGrows DEF PendingAsk, SameRequest, server
<1>2. KnownOrNone \subseteq KnownOrNone'
    BY <1>1 DEF KnownOrNone
<1>3. HandlerKnows(flow[f])'
    BY <1>1, <1>2 DEF HandlerKnows, Arrived, SameRequest, PageInv, OnlyKnown
<1>4. GentleFor(f) /\ OthersStayPlaced(f)
  <2>1. view.result \in {None, view.result}
      OBVIOUS
  <2> QED BY <2>1 DEF GentleFor, OthersStayPlaced, Placed, server
<1>5. live' \subseteq Known' /\ localId' \in KnownOrNone' /\ view'.listed \subseteq Known'
      /\ view'.active \in KnownOrNone' /\ ViewFields \subseteq DOMAIN view'
      /\ asked \subseteq asked' /\ asked' \subseteq Questions /\ DOMAIN placed' = Exchanges
    BY <1>1, <1>2 DEF server, PageInv, PageShape, OnlyKnown
<1>6. ASSUME flow'[f].kind = "ask"
      PROVE  /\ AskSound(flow[f])' /\ SameOrNewAsk(f)
             /\ flow'[f].mounted => AskShown(flow[f])'
  <2>1. flow[f].kind = "ask" /\ AskSound(flow[f]) /\ (flow[f].mounted => AskShown(flow[f]))
      BY <1>6 DEF SameRequest, PageInv, AsksSound, AsksShown
  <2>2. AskSound(flow[f])'
      BY <2>1 DEF AskSound, Placed, SameRequest, server
  <2>3. flow'[f].mounted => AskShown(flow[f])'
      BY <2>1 DEF AskShown, SameRequest
  <2> QED BY <2>1, <2>2, <2>3 DEF SameOrNewAsk, SameRequest
<1> QED BY <1>1, <1>3, <1>4, <1>5, <1>6, StepKeepsInv

LEMMA ServeSimplyKeepsInv ==
    ASSUME PageInv, NEW f \in Slots,
           ServeFailure(f) \/ ServeRename(f) \/ ServeMark(f) \/ ServeAskUnsaved(f)
           \/ ServeDetail(f) \/ ServeList(f)
    PROVE  PageInv'
<1>1. UNCHANGED <<server, localId, view>>
    BY DEF ServeFailure, ServeRename, ServeMark, ServeAskUnsaved, ServeDetail, ServeList
<1>2. Arrived(flow[f].list) => flow[f].list \subseteq Known
    BY DEF PageInv, OnlyKnown, HandlerKnows
<1>3. flow[f].kind = "ask" => AskSound(flow[f])
    BY DEF PageInv, AsksSound
<1>4. CASE ServeFailure(f) \/ ServeMark(f) \/ ServeAskUnsaved(f)
  <2>1. PICK r : r \notin {"none", "saved"} /\ Reply(f, r)
      BY <1>4 DEF ServeFailure, ServeMark, ServeAskUnsaved
  <2>2. /\ FlowStep(f) /\ SameRequest(f) /\ flow'[f].conv = flow[f].conv
        /\ flow'[f].reply = r /\ flow'[f].detail = flow[f].detail /\ flow'[f].list = flow[f].list
      BY <2>1, ReplyComes
  <2> QED BY <1>1, <1>2, <1>3, <2>1, <2>2, AnswerKeepsInv DEF AskSound, Arrived
<1>5. CASE ServeRename(f)
  <2>1. flow[f].kind = "rename"
        /\ flow' = [flow EXCEPT ![f].reply = "ok", ![f].detail = Messages(flow[f].conv)]
      BY <1>5 DEF ServeRename, Called
  <2>2. /\ FlowStep(f) /\ SameRequest(f) /\ flow'[f].conv = flow[f].conv
        /\ flow'[f].reply = "ok" /\ flow'[f].list = flow[f].list
      BY <2>1, ReplyWith
  <2> QED BY <1>1, <1>2, <2>1, <2>2, AnswerKeepsInv
<1>6. CASE ServeDetail(f)
  <2>1. PICK answer \in {Failed} \cup {Messages(c) : c \in live \cap {flow[f].conv}} :
          flow' = [flow EXCEPT ![f].detail = answer]
      BY <1>6 DEF ServeDetail
  <2>2. /\ FlowStep(f) /\ SameRequest(f) /\ flow'[f].conv = flow[f].conv
        /\ flow'[f].reply = flow[f].reply /\ flow'[f].detail = answer /\ flow'[f].list = flow[f].list
      BY <2>1, DetailComes
  <2>3. flow[f].pc # "call"
      BY <1>6 DEF ServeDetail
  <2>4. ASSUME flow[f].kind = "ask", Arrived(answer)
        PROVE  flow[f].x \in answer
    <3>1. AskSound(flow[f]) /\ flow[f].pc = "reload"
        BY <1>3, <2>3, <2>4 DEF AskSound
    <3>2. flow[f].conv \in live /\ answer = Messages(flow[f].conv)
        BY <2>1, <2>4 DEF Arrived
    <3>3. placed[flow[f].x] = flow[f].conv
        BY <3>1, <3>2 DEF AskSound, Placed
    <3>4. flow[f].x \in Exchanges
        BY <3>1 DEF AskSound, PageInv, Exchanges
    <3> QED BY <3>2, <3>3, <3>4 DEF Messages
  <2> QED BY <1>1, <1>2, <2>2, <2>3, <2>4, AnswerKeepsInv
<1>7. CASE ServeList(f)
  <2>1. PICK answer \in {Failed, live} : flow' = [flow EXCEPT ![f].list = answer]
      BY <1>7 DEF ServeList
  <2>2. /\ FlowStep(f) /\ SameRequest(f) /\ flow'[f].conv = flow[f].conv
        /\ flow'[f].reply = flow[f].reply /\ flow'[f].detail = flow[f].detail
        /\ flow'[f].list = answer
      BY <2>1, ListComes
  <2>3. Arrived(answer) => answer \subseteq Known
      BY <2>1 DEF Arrived, PageInv, OnlyKnown
  <2> QED BY <1>1, <1>3, <2>2, <2>3, AnswerKeepsInv DEF AskSound, Arrived
<1> QED BY <1>4, <1>5, <1>6, <1>7

\* A deletion takes the exchanges of its conversation with it.
LEMMA ServeDeleteKeepsInv ==
    ASSUME PageInv, NEW f \in Slots, ServeDelete(f)
    PROVE  PageInv'
<1>1. PICK r \in {"ok", "failed"} : Reply(f, r)
    BY DEF ServeDelete
<1>2. /\ FlowStep(f) /\ SameRequest(f) /\ flow'[f].conv = flow[f].conv
      /\ flow'[f].list = flow[f].list
    BY <1>1, ReplyComes
<1>3. /\ flow'[f].kind = "delete" /\ live' = live \ {flow[f].conv} /\ asked' = asked
      /\ placed' = [x \in Exchanges |->
                      IF placed[x] = flow[f].conv THEN None ELSE placed[x]]
      /\ localId' = localId /\ view' = view
    BY <1>2 DEF ServeDelete, Called, SameRequest
<1>4. Known \subseteq Known'
    BY <1>2, <1>3, KnownGrows DEF PendingAsk
<1>5. KnownOrNone \subseteq KnownOrNone'
    BY <1>4 DEF KnownOrNone
<1>6. HandlerKnows(flow[f])'
    BY <1>2, <1>4, <1>5 DEF HandlerKnows, Arrived, SameRequest, PageInv, OnlyKnown
<1>7. GentleFor(f)
    BY <1>3, SameView DEF QuietView
<1>8. OthersStayPlaced(f)
  <2>1. SUFFICES ASSUME NEW g \in Slots, AskSound(flow[g]), Placed(flow[g]), flow[g].conv \in live'
                 PROVE  placed'[flow[g].x] = flow[g].conv
      BY DEF OthersStayPlaced
  <2>2. flow[g].x \in Exchanges
      BY <2>1 DEF AskSound, PageInv, Exchanges
  <2> QED BY <1>3, <2>1, <2>2 DEF Placed
<1>9. live' \subseteq Known' /\ localId' \in KnownOrNone' /\ view'.listed \subseteq Known'
      /\ view'.active \in KnownOrNone' /\ ViewFields \subseteq DOMAIN view'
      /\ asked \subseteq asked' /\ asked' \subseteq Questions /\ DOMAIN placed' = Exchanges
    BY <1>3, <1>4, <1>5 DEF PageInv, PageShape, OnlyKnown
<1> QED BY <1>2, <1>3, <1>4, <1>6, <1>7, <1>8, <1>9, StepKeepsInv

\* A conversation that a question opens is new to everybody.
LEMMA ServeAskSavedKeepsInv ==
    ASSUME PageInv, NEW f \in Slots, ServeAskSaved(f)
    PROVE  PageInv'
<1>0. PICK c : c = IF flow[f].conv = None THEN flow[f].x ELSE flow[f].conv
    OBVIOUS
<1>1. /\ flow[f].kind = "ask" /\ flow[f].pc = "call" /\ flow[f].reply = "none"
      /\ flow[f].conv = None \/ flow[f].conv \in live
      /\ live' = live \cup {c} /\ placed' = [placed EXCEPT ![flow[f].x] = c]
      /\ asked' = asked /\ localId' = localId /\ view' = view
    BY <1>0 DEF ServeAskSaved, Called
<1>2. PICK r \in {"saved", "unsaved", "failed"} : ReplyAbout(f, r, c)
    BY <1>0 DEF ServeAskSaved, ReplyAbout
<1>3. /\ FlowStep(f) /\ SameRequest(f) /\ flow'[f].conv = c /\ flow'[f].reply = r
      /\ flow'[f].detail = flow[f].detail /\ flow'[f].list = flow[f].list
    BY <1>2, ReplyIsAbout
<1>4. AskSound(flow[f]) /\ (flow[f].mounted => AskShown(flow[f])) /\ HandlerKnows(flow[f])
    BY <1>1 DEF PageInv, AsksSound, AsksShown, OnlyKnown
<1>5. flow[f].x \in asked /\ flow[f].x \in Exchanges /\ flow[f].x \in Convs
    BY <1>4 DEF AskSound, PageInv, Exchanges, Convs
<1>6. Known \subseteq Known'
  <2>1. ~PendingAsk(flow'[f])
      BY <1>2, <1>3 DEF PendingAsk
  <2> QED BY <1>1, <1>3, <2>1, KnownGrows
<1>7. KnownOrNone \subseteq KnownOrNone'
    BY <1>6 DEF KnownOrNone
<1>8. c \in Known'
  <2>1. CASE flow[f].conv = None
    <3>1. c = flow[f].x
        BY <1>0, <2>1
    <3>2. ASSUME NEW g \in Slots, PendingAsk(flow'[g])
          PROVE  flow'[g].x # flow[f].x
      <4>1. g # f
          BY <1>2, <1>3, <3>2 DEF PendingAsk
      <4> QED BY <1>1, <1>3, <3>2, <4>1 DEF PendingAsk, FlowStep, PageInv, AsksDiffer
    <3>3. ~Pending(c)'
        BY <3>1, <3>2 DEF Pending, PendingAsk
    <3> QED BY <1>1, <1>5, <3>1, <3>3 DEF Known
  <2>2. CASE flow[f].conv # None
      BY <1>0, <1>1, <1>6, <2>2 DEF PageInv, OnlyKnown
  <2> QED BY <2>1, <2>2
<1>9. HandlerKnows(flow[f])'
    BY <1>3, <1>4, <1>6, <1>7, <1>8 DEF HandlerKnows, Arrived, SameRequest, KnownOrNone
<1>10. GentleFor(f)
    BY <1>1, SameView DEF QuietView
<1>11. OthersStayPlaced(f)
  <2>1. SUFFICES ASSUME NEW g \in Slots, g # f, flow[g].kind = "ask", AskSound(flow[g]),
                        Placed(flow[g]), flow[g].conv \in live'
                 PROVE  placed'[flow[g].x] = flow[g].conv
      BY DEF OthersStayPlaced
  <2>2. flow[g].x # flow[f].x
      BY <1>1, <2>1 DEF PageInv, AsksDiffer
  <2>3. flow[g].conv \in live
    <3>1. CASE flow[f].conv = None
      <4>1. flow[f].x \notin Known
        <5>1. Pending(flow[f].x)
            BY <1>1, <3>1 DEF Pending, PendingAsk
        <5> QED BY <1>5, <5>1, IdsAssumption DEF Known, PageInv
      <4>2. flow[g].conv \in KnownOrNone
          BY DEF PageInv, OnlyKnown, HandlerKnows
      <4>3. flow[f].x # None
          BY <1>5, NoneAssumption
      <4> QED BY <1>0, <1>1, <2>1, <3>1, <4>1, <4>2, <4>3 DEF KnownOrNone
    <3>2. CASE flow[f].conv # None
        BY <1>0, <1>1, <2>1, <3>2
    <3> QED BY <3>1, <3>2
  <2> QED BY <1>1, <2>1, <2>2, <2>3 DEF Placed
<1>12. AskSound(flow[f])'
  <2>1. placed'[flow[f].x] = c
      BY <1>1, <1>5 DEF PageInv, PageShape
  <2> QED BY <1>1, <1>3, <1>4, <2>1 DEF AskSound, Placed, SameRequest
<1>13. (flow'[f].mounted => AskShown(flow[f])') /\ SameOrNewAsk(f)
    BY <1>1, <1>3, <1>4 DEF AskShown, SameRequest, SameOrNewAsk
<1>14. live' \subseteq Known' /\ localId' \in KnownOrNone' /\ view'.listed \subseteq Known'
      /\ view'.active \in KnownOrNone' /\ ViewFields \subseteq DOMAIN view'
      /\ asked \subseteq asked' /\ asked' \subseteq Questions /\ DOMAIN placed' = Exchanges
    BY <1>1, <1>6, <1>7, <1>8 DEF PageInv, PageShape, OnlyKnown
<1> QED BY <1>3, <1>6, <1>9, <1>10, <1>11, <1>12, <1>13, <1>14, StepKeepsInv

LEMMA ServeKeepsInv ==
    ASSUME PageInv, NEW f \in Slots, Serve(f)
    PROVE  PageInv'
BY ServeSimplyKeepsInv, ServeDeleteKeepsInv, ServeAskSavedKeepsInv DEF Serve

-----------------------------------------------------------------------------
(* Handlers go on *)

LEMMA NextRequested ==
    ASSUME PageInv, NEW f \in Slots, NEW pc, NEW c, NextRequest(f, pc, c)
    PROVE  /\ FlowStep(f) /\ flow'[f].kind = flow[f].kind /\ flow'[f].mounted = flow[f].mounted
           /\ flow'[f].closure = flow[f].closure /\ flow'[f].x = flow[f].x
           /\ flow'[f].reply = flow[f].reply /\ flow'[f].detail = flow[f].detail
           /\ flow'[f].pc = pc /\ flow'[f].conv = c /\ flow'[f].list = None
<1>1. PICK h : h = [flow[f] EXCEPT !.pc = pc]
    OBVIOUS
<1>2. PICK k : k = [h EXCEPT !.conv = c]
    OBVIOUS
<1>3. PICK m : m = [k EXCEPT !.list = None]
    OBVIOUS
<1>4. flow' = [flow EXCEPT ![f] = m]
    BY <1>1, <1>2, <1>3 DEF NextRequest
<1>5. FlowFields \subseteq DOMAIN flow[f] /\ DOMAIN flow = Slots
    BY DEF PageInv, PageShape
<1>6. /\ FlowFields \subseteq DOMAIN h /\ h.kind = flow[f].kind /\ h.mounted = flow[f].mounted
      /\ h.closure = flow[f].closure /\ h.x = flow[f].x /\ h.reply = flow[f].reply
      /\ h.detail = flow[f].detail /\ h.pc = pc
    BY <1>1, <1>5 DEF FlowFields
<1>7. /\ FlowFields \subseteq DOMAIN k /\ k.kind = h.kind /\ k.mounted = h.mounted
      /\ k.closure = h.closure /\ k.x = h.x /\ k.reply = h.reply
      /\ k.detail = h.detail /\ k.pc = h.pc /\ k.conv = c
    BY <1>2, <1>6 DEF FlowFields
<1>8. /\ FlowFields \subseteq DOMAIN m /\ m.kind = k.kind /\ m.mounted = k.mounted
      /\ m.closure = k.closure /\ m.x = k.x /\ m.reply = k.reply
      /\ m.detail = k.detail /\ m.pc = k.pc /\ m.conv = k.conv /\ m.list = None
    BY <1>3, <1>7 DEF FlowFields
<1> QED BY <1>4, <1>5, <1>6, <1>7, <1>8 DEF FlowStep, PageInv, PageShape

LEMMA EndKeepsInv ==
    ASSUME PageInv, NEW f \in Slots, End(f), QuietView(f),
           UNCHANGED server, localId' \in KnownOrNone
    PROVE  PageInv'
<1>1. /\ FlowFields \subseteq DOMAIN Done /\ Done.kind = "done"
      /\ Done.conv = None /\ Done.closure = None /\ Done.list = None
    BY DEF Done, NoFlow, FlowFields
<1>2. FlowStep(f) /\ flow'[f] = Done
    BY <1>1 DEF End, FlowStep, PageInv, PageShape
<1> QED BY <1>1, <1>2, QuietStepKeepsInv DEF Arrived, KnownOrNone

LEMMA RequestKeepsInv ==
    ASSUME PageInv, NEW f \in Slots, flow[f].kind # "ask", NEW pc, NEW c \in KnownOrNone,
           NextRequest(f, pc, c), QuietView(f), UNCHANGED server, localId' \in KnownOrNone
    PROVE  PageInv'
<1>1. flow[f].closure \in KnownOrNone
    BY DEF PageInv, OnlyKnown, HandlerKnows
<1>2. /\ FlowStep(f) /\ flow'[f].kind = flow[f].kind
      /\ flow'[f].closure = flow[f].closure /\ flow'[f].conv = c /\ flow'[f].list = None
    BY NextRequested
<1> QED BY <1>1, <1>2, QuietStepKeepsInv DEF Arrived

LEMMA QuietEnough ==
    ASSUME PageInv, NEW f \in Slots, ViewFields \subseteq DOMAIN view',
           view'.listed \subseteq Known, view'.active \in KnownOrNone,
           view'.loading = view.loading, view'.result \in {None, view.result}
    PROVE  QuietView(f)
BY DEF QuietView, GentleFor

\* A mounted ask is the only one.
LEMMA OnlyMountedAsk ==
    ASSUME PageInv, NEW f \in Slots, flow[f].kind = "ask", flow[f].mounted
    PROVE  GentleFor(f)
BY DEF PageInv, AsksDiffer, GentleFor

\* What every handler knows
LEMMA KnowsWell ==
    ASSUME PageInv, NEW f \in Slots
    PROVE  /\ flow[f].conv \in KnownOrNone /\ flow[f].closure \in KnownOrNone
           /\ Arrived(flow[f].list) => flow[f].list \subseteq Known
           /\ view.listed \subseteq Known /\ view.active \in KnownOrNone
           /\ localId \in KnownOrNone /\ None \in KnownOrNone
           /\ ViewFields \subseteq DOMAIN view
BY DEF PageInv, PageShape, OnlyKnown, HandlerKnows, KnownOrNone

LEMMA ReloadShown ==
    ASSUME PageInv, NEW f \in Slots, Reloaded(f), NEW v, v = WithReloaded(f)
    PROVE  /\ ViewFields \subseteq DOMAIN v
           /\ v.listed \subseteq Known /\ v.active = flow[f].conv
           /\ v.shown = [id |-> flow[f].conv, msgs |-> flow[f].detail]
           /\ v.loading = view.loading /\ v.result = view.result
BY KnowsWell DEF Reloaded, WithReloaded, ViewFields

LEMMA LoadKeepsInv ==
    ASSUME PageInv, NEW f \in Slots, LoadList(f) \/ LoadDetail(f) \/ LoadFails(f)
    PROVE  PageInv'
<1>1. UNCHANGED server
    BY DEF LoadList, LoadDetail, LoadFails
<1>2. CASE LoadList(f) /\ localId \in flow[f].list
  <2>1. /\ view' = [view EXCEPT !.listed = flow[f].list, !.convLoading = TRUE]
        /\ NextRequest(f, "detail", localId) /\ flow[f].kind = "load" /\ Arrived(flow[f].list)
        /\ localId' = localId
      BY <1>2 DEF LoadList
  <2>2. /\ ViewFields \subseteq DOMAIN view' /\ view'.listed = flow[f].list
        /\ view'.active = view.active /\ view'.loading = view.loading /\ view'.result = view.result
      BY <2>1, KnowsWell DEF ViewFields
  <2>3. QuietView(f)
      BY <2>1, <2>2, KnowsWell, QuietEnough
  <2> QED BY <1>1, <2>1, <2>3, KnowsWell, RequestKeepsInv
<1>3. CASE LoadList(f) /\ localId \notin flow[f].list
  <2>1. /\ view' = [view EXCEPT !.listed = flow[f].list, !.active = None,
                                !.historyLoading = FALSE, !.convLoading = FALSE]
        /\ End(f) /\ Arrived(flow[f].list) /\ localId' = None
      BY <1>3 DEF LoadList
  <2>2. /\ ViewFields \subseteq DOMAIN view' /\ view'.listed = flow[f].list
        /\ view'.active = None /\ view'.loading = view.loading /\ view'.result = view.result
      BY <2>1, KnowsWell DEF ViewFields
  <2>3. QuietView(f)
      BY <2>1, <2>2, KnowsWell, QuietEnough
  <2> QED BY <1>1, <2>1, <2>3, KnowsWell, EndKeepsInv
<1>4. CASE LoadDetail(f)
  <2>1. /\ view' = [view EXCEPT !.shown = [id |-> flow[f].conv, msgs |-> flow[f].detail],
                                !.active = flow[f].conv,
                                !.historyLoading = FALSE, !.convLoading = FALSE]
        /\ End(f) /\ localId' = localId
      BY <1>4 DEF LoadDetail
  <2>2. /\ ViewFields \subseteq DOMAIN view' /\ view'.listed = view.listed
        /\ view'.active = flow[f].conv /\ view'.loading = view.loading /\ view'.result = view.result
      BY <2>1, KnowsWell DEF ViewFields
  <2>3. QuietView(f)
      BY <2>1, <2>2, KnowsWell, QuietEnough
  <2> QED BY <1>1, <2>1, <2>3, KnowsWell, EndKeepsInv
<1>5. CASE LoadFails(f)
  <2>1. /\ view' = [view EXCEPT !.active = None, !.shown = NoTranscript,
                                !.historyLoading = FALSE, !.convLoading = FALSE]
        /\ End(f) /\ localId' = None
      BY <1>5 DEF LoadFails
  <2>2. /\ ViewFields \subseteq DOMAIN view' /\ view'.listed = view.listed
        /\ view'.active = None /\ view'.loading = view.loading /\ view'.result = view.result
      BY <2>1, KnowsWell DEF ViewFields
  <2>3. QuietView(f)
      BY <2>1, <2>2, KnowsWell, QuietEnough
  <2> QED BY <1>1, <2>1, <2>3, KnowsWell, EndKeepsInv
<1> QED BY <1>2, <1>3, <1>4, <1>5

\* Renamed, deleted or marked, and then on to the next request, or nothing to show
LEMMA AcceptedKeepsInv ==
    ASSUME PageInv, NEW f \in Slots,
           RenameAccepted(f) \/ DeleteAccepted(f) \/ MarkAccepted(f)
           \/ RenameFails(f) \/ DeleteFails(f)
    PROVE  PageInv'
<1>1. UNCHANGED server /\ UNCHANGED view /\ localId' = localId
    BY DEF RenameAccepted, DeleteAccepted, MarkAccepted, RenameFails, DeleteFails
<1>2. QuietView(f)
    BY <1>1, SameView
<1>3. CASE RenameFails(f) \/ DeleteFails(f)
  <2>1. End(f)
      BY <1>3 DEF RenameFails, DeleteFails
  <2> QED BY <1>1, <1>2, <2>1, KnowsWell, EndKeepsInv
<1>4. CASE RenameAccepted(f) \/ DeleteAccepted(f) \/ MarkAccepted(f)
  <2>1. PICK pc, c : c \in KnownOrNone /\ NextRequest(f, pc, c)
      BY <1>4, KnowsWell DEF RenameAccepted, DeleteAccepted, MarkAccepted
  <2>2. flow[f].kind # "ask"
      BY <1>4 DEF RenameAccepted, DeleteAccepted, MarkAccepted, CallDone
  <2> QED BY <1>1, <1>2, <2>1, <2>2, KnowsWell, RequestKeepsInv
<1> QED BY <1>3, <1>4

\* What a handler that may have reloaded a conversation leaves on the page
Settled(f) ==
    /\ ViewFields \subseteq DOMAIN view'
    /\ view'.listed \subseteq Known /\ view'.active \in KnownOrNone /\ localId' \in KnownOrNone
    /\ ~flow[f].mounted => view' = view
    /\ flow[f].mounted =>
          \/ /\ Reloaded(f) /\ localId' = flow[f].conv /\ view'.active = flow[f].conv
             /\ view'.shown = [id |-> flow[f].conv, msgs |-> flow[f].detail]
          \/ /\ localId' = localId /\ view'.active = view.active
             /\ view'.shown = view.shown

LEMMA OpenSettles ==
    ASSUME PageInv, NEW f \in Slots, FinishOpen(f)
    PROVE  Settled(f) /\ view'.loading = view.loading /\ view'.result = view.result
<1>1. CASE Reloaded(f) /\ SetState(f, [WithReloaded(f) EXCEPT !.convLoading = FALSE])
           /\ localId' = flow[f].conv
  <2>1. PICK v : v = WithReloaded(f)
      OBVIOUS
  <2>2. CASE flow[f].mounted
    <3>1. view' = [v EXCEPT !.convLoading = FALSE]
        BY <1>1, <2>1, <2>2 DEF SetState
    <3> QED BY <1>1, <2>1, <2>2, <3>1, ReloadShown, KnowsWell DEF Settled, ViewFields
  <2>3. CASE ~flow[f].mounted
      BY <1>1, <2>3, KnowsWell DEF SetState, Settled
  <2> QED BY <2>2, <2>3
<1>2. CASE SetState(f, [view EXCEPT !.convLoading = FALSE]) /\ localId' = localId
    BY <1>2, KnowsWell DEF SetState, Settled, ViewFields
<1> QED BY <1>1, <1>2 DEF FinishOpen

LEMMA MarkSettles ==
    ASSUME PageInv, NEW f \in Slots, FinishMark(f)
    PROVE  Settled(f) /\ view'.loading = view.loading /\ view'.result = view.result
<1>1. CASE Reloaded(f) /\ SetState(f, [WithReloaded(f) EXCEPT !.bookmarking = None])
           /\ localId' = flow[f].conv
  <2>1. PICK v : v = WithReloaded(f)
      OBVIOUS
  <2>2. CASE flow[f].mounted
    <3>1. view' = [v EXCEPT !.bookmarking = None]
        BY <1>1, <2>1, <2>2 DEF SetState
    <3> QED BY <1>1, <2>1, <2>2, <3>1, ReloadShown, KnowsWell DEF Settled, ViewFields
  <2>3. CASE ~flow[f].mounted
      BY <1>1, <2>3, KnowsWell DEF SetState, Settled
  <2> QED BY <2>2, <2>3
<1>2. CASE SetState(f, [view EXCEPT !.bookmarking = None]) /\ localId' = localId
    BY <1>2, KnowsWell DEF SetState, Settled, ViewFields
<1> QED BY <1>1, <1>2 DEF FinishMark

LEMMA AskSettles ==
    ASSUME PageInv, NEW f \in Slots, FinishAsk(f)
    PROVE  Settled(f) /\ (view'.result = view.result \/ (flow[f].mounted /\ Reloaded(f) /\ view'.shown.msgs = flow[f].detail))
<1>1. CASE /\ Reloaded(f) /\ localId' = flow[f].conv
           /\ SetState(f, [WithReloaded(f) EXCEPT !.result = None, !.question = None,
                                                  !.loading = FALSE])
  <2>1. PICK v : v = WithReloaded(f)
      OBVIOUS
  <2>2. CASE flow[f].mounted
    <3>1. view' = [v EXCEPT !.result = None, !.question = None, !.loading = FALSE]
        BY <1>1, <2>1, <2>2 DEF SetState
    <3> QED BY <1>1, <2>1, <2>2, <3>1, ReloadShown, KnowsWell DEF Settled, ViewFields
  <2>3. CASE ~flow[f].mounted
      BY <1>1, <2>3, KnowsWell DEF SetState, Settled
  <2> QED BY <2>2, <2>3
<1>2. CASE SetState(f, [view EXCEPT !.loading = FALSE]) /\ localId' = localId
    BY <1>2, KnowsWell DEF SetState, Settled, ViewFields
<1>3. CASE SetState(f, [view EXCEPT !.question = None, !.loading = FALSE]) /\ localId' = localId
    BY <1>3, KnowsWell DEF SetState, Settled, ViewFields
<1> QED BY <1>1, <1>2, <1>3 DEF FinishAsk

LEMMA ShowSettles ==
    ASSUME PageInv, NEW f \in Slots, ShowUnsavedAnswer(f) \/ ShowSavedAnswer(f)
    PROVE  /\ Settled(f)
           /\ flow[f].mounted => view'.result = flow[f].x
           /\ ShowSavedAnswer(f) /\ flow[f].mounted => view'.loading = view.loading
<1>1. CASE ShowUnsavedAnswer(f)
    BY <1>1, KnowsWell DEF ShowUnsavedAnswer, ShowSavedAnswer, CallDone, SetState, Settled, ViewFields
<1>2. CASE ShowSavedAnswer(f)
    BY <1>2, KnowsWell DEF ShowSavedAnswer, SetState, Settled, ViewFields
<1> QED BY <1>1, <1>2

LEMMA RenameSettles ==
    ASSUME PageInv, NEW f \in Slots, FinishRename(f)
    PROVE  /\ ViewFields \subseteq DOMAIN view' /\ view'.listed \subseteq Known
           /\ view'.active = view.active
           /\ view'.loading = view.loading /\ view'.result = view.result
<1>1. PICK v : v = [view EXCEPT !.listed = flow[f].list, !.editing = None]
    OBVIOUS
<1>2. /\ ViewFields \subseteq DOMAIN v /\ v.listed \subseteq Known /\ v.active = view.active
      /\ v.loading = view.loading /\ v.result = view.result
    BY <1>1, KnowsWell DEF FinishRename, ViewFields
<1>3. \/ view' = view \/ view' = v
      \/ view' = [v EXCEPT !.shown = [id |-> flow[f].conv, msgs |-> flow[f].detail]]
    BY <1>1 DEF FinishRename, SetState
<1> QED BY <1>2, <1>3, KnowsWell DEF ViewFields

LEMMA DeleteSettles ==
    ASSUME PageInv, NEW f \in Slots, FinishDelete(f)
    PROVE  /\ ViewFields \subseteq DOMAIN view' /\ view'.listed \subseteq Known
           /\ view'.loading = view.loading
           /\ view'.result \in {None, view.result}
           /\ ~flow[f].mounted => view' = view
           /\ flow[f].mounted =>
                 \/ view'.shown = NoTranscript /\ view'.active = None /\ localId' = None
                 \/ view'.shown = view.shown /\ view'.active = view.active /\ localId' = localId
           /\ view'.active \in {None, view.active} /\ localId' \in {None, localId}
<1>1. PICK v : v = [view EXCEPT !.listed = flow[f].list]
    OBVIOUS
<1>2. /\ ViewFields \subseteq DOMAIN v /\ v.listed \subseteq Known /\ v.active = view.active
      /\ v.loading = view.loading /\ v.result = view.result /\ v.shown = view.shown
    BY <1>1, KnowsWell DEF FinishDelete, ViewFields
<1>3. PICK w : w = Cleared(v)
    OBVIOUS
<1>4. /\ ViewFields \subseteq DOMAIN w /\ w.listed = v.listed /\ w.active = None
      /\ w.loading = v.loading /\ w.result = None /\ w.shown = NoTranscript
    BY <1>2, <1>3 DEF Cleared, ViewFields
<1>5. \/ ~flow[f].mounted /\ view' = view /\ localId' \in {None, localId}
      \/ flow[f].mounted /\ view' = v /\ localId' = localId
      \/ flow[f].mounted /\ view' = w /\ localId' = None
    BY <1>1, <1>3 DEF FinishDelete, SetState
<1> QED BY <1>2, <1>4, <1>5, KnowsWell

LEMMA FinishKeepsInv ==
    ASSUME PageInv, NEW f \in Slots,
           FinishOpen(f) \/ FinishRename(f) \/ FinishDelete(f) \/ FinishMark(f)
    PROVE  PageInv'
<1>1. End(f) /\ UNCHANGED server
    BY DEF FinishOpen, FinishRename, FinishDelete, FinishMark
<1>2. CASE FinishOpen(f) \/ FinishMark(f)
  <2>1. Settled(f) /\ view'.loading = view.loading /\ view'.result = view.result
      BY <1>2, OpenSettles, MarkSettles
  <2>2. QuietView(f)
      BY <2>1, QuietEnough DEF Settled
  <2> QED BY <1>1, <2>1, <2>2, EndKeepsInv DEF Settled
<1>3. CASE FinishRename(f)
  <2>1. QuietView(f)
      BY <1>3, RenameSettles, KnowsWell, QuietEnough
  <2>2. localId' \in KnownOrNone
      BY <1>3, KnowsWell DEF FinishRename
  <2> QED BY <1>1, <2>1, <2>2, EndKeepsInv
<1>4. CASE FinishDelete(f)
  <2>1. view'.active \in KnownOrNone /\ localId' \in KnownOrNone
      BY <1>4, DeleteSettles, KnowsWell
  <2>2. QuietView(f)
      BY <1>4, <2>1, DeleteSettles, QuietEnough
  <2> QED BY <1>1, <2>1, <2>2, EndKeepsInv
<1> QED BY <1>2, <1>3, <1>4

LEMMA AskEndKeepsInv ==
    ASSUME PageInv, NEW f \in Slots, FinishAsk(f) \/ ShowUnsavedAnswer(f)
    PROVE  PageInv'
<1>1. End(f) /\ UNCHANGED server /\ flow[f].kind = "ask"
    BY DEF FinishAsk, ShowUnsavedAnswer, CallDone
<1>2. Settled(f)
    BY AskSettles, ShowSettles
<1>3. GentleFor(f)
  <2>1. CASE flow[f].mounted
      BY <1>1, <2>1, OnlyMountedAsk
  <2>2. CASE ~flow[f].mounted
      BY <1>2, <2>2, SameView DEF Settled, QuietView
  <2> QED BY <2>1, <2>2
<1> QED BY <1>1, <1>2, <1>3, EndKeepsInv DEF Settled, QuietView

LEMMA ShowSavedKeepsInv ==
    ASSUME PageInv, NEW f \in Slots, ShowSavedAnswer(f)
    PROVE  PageInv'
<1>1. /\ flow[f].kind = "ask" /\ flow[f].pc = "call" /\ flow[f].reply = "saved"
      /\ NextRequest(f, "reload", flow[f].conv) /\ UNCHANGED server /\ localId' = localId
    BY DEF ShowSavedAnswer, CallDone
<1>2. Settled(f) /\ (flow[f].mounted => view'.result = flow[f].x /\ view'.loading = view.loading)
    BY ShowSettles
<1>3. PICK c : c = flow[f].conv
    OBVIOUS
<1>4. /\ FlowStep(f) /\ flow'[f].kind = "ask" /\ flow'[f].mounted = flow[f].mounted
      /\ flow'[f].closure = flow[f].closure /\ flow'[f].x = flow[f].x
      /\ flow'[f].reply = "saved" /\ flow'[f].detail = flow[f].detail
      /\ flow'[f].pc = "reload" /\ flow'[f].conv = flow[f].conv /\ flow'[f].list = None
    BY <1>1, NextRequested
<1>5. AskSound(flow[f]) /\ (flow[f].mounted => AskShown(flow[f]))
    BY <1>1 DEF PageInv, AsksSound, AsksShown
<1>6. Known \subseteq Known'
    BY <1>1, <1>4, KnownGrows DEF PendingAsk, server
<1>7. KnownOrNone \subseteq KnownOrNone'
    BY <1>6 DEF KnownOrNone
<1>8. HandlerKnows(flow[f])'
    BY <1>4, <1>7, KnowsWell DEF HandlerKnows, Arrived
<1>9. GentleFor(f)
  <2>1. CASE flow[f].mounted
      BY <1>1, <2>1, OnlyMountedAsk
  <2>2. CASE ~flow[f].mounted
      BY <1>2, <2>2, SameView DEF Settled, QuietView
  <2> QED BY <2>1, <2>2
<1>10. AskSound(flow[f])' /\ SameOrNewAsk(f) /\ OthersStayPlaced(f)
    BY <1>1, <1>4, <1>5 DEF AskSound, Placed, Arrived, SameOrNewAsk, OthersStayPlaced, server
<1>11. flow'[f].mounted => AskShown(flow[f])'
    BY <1>2, <1>4, <1>5 DEF AskShown
<1>12. live' \subseteq Known' /\ localId' \in KnownOrNone' /\ view'.listed \subseteq Known'
       /\ view'.active \in KnownOrNone' /\ ViewFields \subseteq DOMAIN view'
       /\ asked \subseteq asked' /\ asked' \subseteq Questions /\ DOMAIN placed' = Exchanges
    BY <1>1, <1>2, <1>6, <1>7 DEF Settled, server, PageInv, PageShape, OnlyKnown
<1> QED BY <1>4, <1>6, <1>8, <1>9, <1>10, <1>11, <1>12, StepKeepsInv

LEMMA ResumeKeepsInv ==
    ASSUME PageInv, NEW f \in Slots, Resume(f)
    PROVE  PageInv'
BY LoadKeepsInv, AcceptedKeepsInv, FinishKeepsInv, AskEndKeepsInv, ShowSavedKeepsInv DEF Resume

-----------------------------------------------------------------------------
(* What every run of the page does *)

LEMMA InitPageInv == Init => PageInv
<1> SUFFICES ASSUME Init PROVE PageInv
    OBVIOUS
<1>1. /\ FlowFields \subseteq DOMAIN LoadHistory /\ LoadHistory.kind = "load"
      /\ LoadHistory.conv = None /\ LoadHistory.closure = None /\ LoadHistory.list = None
    BY DEF LoadHistory, NoFlow, FlowFields
<1>2. /\ FlowFields \subseteq DOMAIN NoFlow /\ NoFlow.kind = "none"
      /\ NoFlow.conv = None /\ NoFlow.closure = None /\ NoFlow.list = None
    BY DEF NoFlow, FlowFields
<1>3. /\ ViewFields \subseteq DOMAIN view /\ view.listed = {} /\ view.active = localId
    BY DEF Init, NewPage, ViewFields
<1>4. Loader \in Slots /\ \A f \in Slots : flow[f] = IF f = Loader THEN LoadHistory ELSE NoFlow
    BY DEF Init, Slots
<1>5. PageShape
    BY <1>1, <1>2, <1>3, <1>4 DEF Init, PageShape
<1>6. \A f \in Slots : flow[f].kind # "ask"
    BY <1>1, <1>2, <1>4
<1>7. live \subseteq OldConvs /\ localId \in OldConvs \cup {None} /\ asked = {}
    BY DEF Init
<1>8. ASSUME NEW f \in Slots
      PROVE  HandlerKnows(flow[f])
    BY <1>1, <1>2, <1>4 DEF HandlerKnows, KnownOrNone, Arrived
<1>9. OnlyKnown
    BY <1>3, <1>7, <1>8 DEF OnlyKnown, Known, KnownOrNone
<1> QED BY <1>5, <1>6, <1>7, <1>9 DEF PageInv, AsksSound, AsksShown, AsksDiffer

LEMMA PageNextKeepsInv ==
    ASSUME PageInv, [Next]_vars
    PROVE  PageInv'
<1>1. ASSUME NEW f \in Slots, Serve(f) \/ Resume(f)
      PROVE  PageInv'
    BY <1>1, ServeKeepsInv, ResumeKeepsInv
<1>2. ASSUME NEW f \in Flows,
             \/ \E c \in view.listed : Open(f, c) \/ Delete(f, c)
             \/ \E x \in Exchanges : ToggleBookmark(f, x)
             \/ ConfirmRename(f)
      PROVE  PageInv'
    BY <1>2, ClicksKeepInv
<1>3. ASSUME NEW f \in Flows, NEW x \in Exchanges, SubmitQuestion(f, x)
      PROVE  PageInv'
    BY <1>3, QuestionKeepsInv
<1>4. ASSUME NEW f \in Flows, ComeBack(f) \/ ReloadDocument(f) \/ SignInAgain(f)
      PROVE  PageInv'
    BY <1>4, NavigationKeepsInv
<1>5. ASSUME NewConversation \/ CancelRename \/ \E c \in view.listed : StartRename(c)
      PROVE  PageInv'
    BY <1>5, FreeClicksKeepInv
<1>6. CASE UNCHANGED vars
  <2>1. \A u : Pending(u)' <=> Pending(u)
      BY <1>6 DEF vars, Pending, PendingAsk
  <2>2. Known' = Known /\ KnownOrNone' = KnownOrNone
      BY <1>6, <2>1 DEF vars, Known, KnownOrNone
  <2> QED BY <1>6, <2>2 DEF vars, PageInv, PageShape, OnlyKnown, HandlerKnows, AsksSound,
             AskSound, Placed, AsksShown, AskShown, AsksDiffer
<1> QED BY <1>1, <1>2, <1>3, <1>4, <1>5, <1>6, Zenon DEF Next, UserStep, SessionEnds

\* The inductive invariant holds for any conversations, questions and clicks.
THEOREM PageInvariance == Spec => []PageInv
<1>1. Init => PageInv
    BY InitPageInv
<1>2. PageInv /\ [Next]_vars => PageInv'
    BY PageNextKeepsInv
<1> QED BY <1>1, <1>2, PTL DEF Spec

LEMMA LoadSettles ==
    ASSUME PageInv, NEW f \in Slots, LoadList(f) \/ LoadDetail(f) \/ LoadFails(f)
    PROVE  /\ view'.result = view.result
           /\ LoadFails(f) => view'.active = None /\ localId' = None /\ view'.shown = NoTranscript
BY KnowsWell DEF LoadList, LoadDetail, LoadFails, ViewFields

\* Only the end of an ask takes its answer from the page, and a deletion.
LEMMA ResumeKeepsAnswer ==
    ASSUME PageInv, NEW f \in Slots, Resume(f), NEW x \in Questions,
           view.result = x, view'.result # x, ~FinishDelete(f)
    PROVE  x \in view'.shown.msgs
<1>1. x # None
    BY NoneAssumption DEF Exchanges
<1>2. ~(LoadList(f) \/ LoadDetail(f) \/ LoadFails(f))
    BY LoadSettles
<1>3. ~(RenameAccepted(f) \/ DeleteAccepted(f) \/ MarkAccepted(f) \/ RenameFails(f) \/ DeleteFails(f))
    BY DEF RenameAccepted, DeleteAccepted, MarkAccepted, RenameFails, DeleteFails
<1>4. ~(FinishOpen(f) \/ FinishRename(f) \/ FinishMark(f))
    BY OpenSettles, RenameSettles, MarkSettles
<1>5. ~(ShowUnsavedAnswer(f) \/ ShowSavedAnswer(f))
  <2> SUFFICES ASSUME ShowUnsavedAnswer(f) \/ ShowSavedAnswer(f) PROVE FALSE
      OBVIOUS
  <2>1. flow[f].mounted
      BY ShowSettles DEF Settled
  <2>2. flow[f].kind = "ask" /\ flow[f].pc = "call"
      BY DEF ShowUnsavedAnswer, ShowSavedAnswer, CallDone
  <2> QED BY <1>1, <2>1, <2>2 DEF PageInv, AsksShown, AskShown
<1>6. CASE FinishAsk(f)
  <2>1. flow[f].kind = "ask"
      BY <1>6 DEF FinishAsk
  <2>2. flow[f].mounted /\ Reloaded(f) /\ view'.shown.msgs = flow[f].detail
      BY <1>6, AskSettles
  <2>3. AskSound(flow[f]) /\ AskShown(flow[f])
      BY <2>1, <2>2 DEF PageInv, AsksSound, AsksShown
  <2> QED BY <1>1, <2>2, <2>3 DEF AskSound, AskShown, Reloaded
<1> QED BY <1>2, <1>3, <1>4, <1>5, <1>6 DEF Resume

\* An answer that has been shown leaves the page only into the transcript of its
\* conversation, by a click, because a deletion in flight clears the page, or
\* with the session, whatever any number of handlers do (handleSubmit, reloadConversation).
THEOREM AnswersStayShown == Spec => AnswerStays
<1>1. PageInv /\ [Next]_vars =>
        [\A x \in Questions :
            view.result = x /\ view'.result # x =>
                \/ x \in view'.shown.msgs
                \/ UserStep \/ SessionEnds
                \/ \E f \in Flows : FinishDelete(f)]_vars
  <2> SUFFICES ASSUME PageInv, Next, ~UserStep, ~SessionEnds, NEW x \in Questions,
                      view.result = x, view'.result # x
               PROVE  x \in view'.shown.msgs \/ \E f \in Flows : FinishDelete(f)
      BY DEF vars
  <2>1. PICK f \in Slots : Serve(f) \/ Resume(f)
      BY DEF Next
  <2>2. ~Serve(f)
      BY DEF Serve, ServeFailure, ServeRename, ServeMark, ServeAskUnsaved, ServeDetail, ServeList,
             ServeDelete, ServeAskSaved
  <2>3. CASE FinishDelete(f)
    <3>1. flow[f].kind = "delete"
        BY <2>3 DEF FinishDelete
    <3>2. f \in Flows
        BY <3>1 DEF PageInv, PageShape, Slots
    <3> QED BY <2>3, <3>2
  <2> QED BY <2>1, <2>2, <2>3, ResumeKeepsAnswer
<1> QED BY <1>1, PageInvariance, PTL DEF Spec, AnswerStays

LEMMA TogetherStays ==
    ASSUME PageInv, Together, view'.shown = view.shown, view'.active = view.active, localId' = localId
    PROVE  Together'
BY DEF Together

LEMMA UserKeepsTogether ==
    ASSUME PageInv, Together, UserStep \/ SessionEnds
    PROVE  Together'
<1>1. ASSUME NewConversation
      PROVE  Together'
  <2>1. view' = Cleared(view) /\ localId' = None
      BY <1>1 DEF NewConversation
  <2>2. view'.shown = NoTranscript /\ view'.active = None
      BY <2>1, KnowsWell DEF Cleared, ViewFields, PageInv, PageShape
  <2> QED BY <2>1, <2>2 DEF Together, NoTranscript
<1>2. ASSUME NEW f \in Flows, ComeBack(f) \/ ReloadDocument(f) \/ SignInAgain(f)
      PROVE  Together'
  <2>1. view' = NewPage(localId')
      BY <1>2 DEF ComeBack, SignInAgain, Remount, ReloadDocument
  <2> QED BY <2>1 DEF NewPage, NoTranscript, Together
<1>3. ASSUME CancelRename \/ \E c \in view.listed : StartRename(c)
      PROVE  Together'
    BY <1>3, TogetherStays DEF CancelRename, StartRename, PageInv, PageShape, ViewFields
<1>4. ASSUME NEW f \in Flows, ConfirmRename(f) \/ \E c \in view.listed : Delete(f, c)
      PROVE  Together'
    BY <1>4, TogetherStays DEF ConfirmRename, Delete
<1>5. ASSUME NEW f \in Flows, NEW c \in view.listed, Open(f, c)
      PROVE  Together'
    BY <1>5, TogetherStays DEF Open, PageInv, PageShape, ViewFields
<1>6. ASSUME NEW f \in Flows, NEW x, ToggleBookmark(f, x) \/ SubmitQuestion(f, x)
      PROVE  Together'
    BY <1>6, TogetherStays DEF ToggleBookmark, SubmitQuestion, PageInv, PageShape, ViewFields
<1> QED BY <1>1, <1>2, <1>3, <1>4, <1>5, <1>6, Zenon DEF UserStep, SessionEnds

LEMMA ResumeKeepsTogether ==
    ASSUME PageInv, Together, NEW f \in Slots, Resume(f), flow[f].mounted,
           ~FinishRename(f), ~LoadList(f), ~LoadDetail(f)
    PROVE  Together'
<1>1. CASE LoadFails(f)
    BY <1>1, LoadSettles DEF Together, NoTranscript
<1>2. CASE FinishOpen(f) \/ FinishMark(f) \/ FinishAsk(f) \/ ShowUnsavedAnswer(f) \/ ShowSavedAnswer(f)
  <2>1. Settled(f)
      BY <1>2, OpenSettles, MarkSettles, AskSettles, ShowSettles
  <2> QED BY <2>1 DEF Settled, Together
<1>3. CASE FinishDelete(f)
    BY <1>3, DeleteSettles DEF Together, NoTranscript
<1>4. CASE RenameAccepted(f) \/ DeleteAccepted(f) \/ MarkAccepted(f) \/ RenameFails(f) \/ DeleteFails(f)
    BY <1>4, TogetherStays
    DEF RenameAccepted, DeleteAccepted, MarkAccepted, RenameFails, DeleteFails
<1> QED BY <1>1, <1>2, <1>3, <1>4 DEF Resume

\* The conversation on the page, the one the next question goes to and the one
\* localStorage brings back are parted only by a renaming, by the initial load,
\* or by a handler of a page that has been left (handleRename,
\* loadInitialHistory, reloadConversation).
THEOREM OnlyThreePart == Spec => PartedOnlyBy
<1>1. PageInv /\ [Next]_vars =>
        [Together /\ ~Together' =>
            \E f \in Slots : \/ FinishRename(f)
                             \/ LoadList(f) \/ LoadDetail(f)
                             \/ ~flow[f].mounted /\ Resume(f)]_vars
  <2> SUFFICES ASSUME PageInv, Next, Together, ~Together'
               PROVE  \E f \in Slots : \/ FinishRename(f)
                                       \/ LoadList(f) \/ LoadDetail(f)
                                       \/ ~flow[f].mounted /\ Resume(f)
      BY DEF vars
  <2>1. PICK f \in Slots : Serve(f) \/ Resume(f)
      BY UserKeepsTogether DEF Next
  <2>2. ~Serve(f)
      BY TogetherStays
      DEF Serve, ServeFailure, ServeRename, ServeMark, ServeAskUnsaved, ServeDetail, ServeList,
          ServeDelete, ServeAskSaved
  <2> QED BY <2>1, <2>2, ResumeKeepsTogether
<1> QED BY <1>1, PageInvariance, PTL DEF Spec, PartedOnlyBy

================================================================================
