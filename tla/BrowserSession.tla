---------------------------- MODULE BrowserSession ----------------------------
(***************************************************************************)
(* Who is signed in, as one tab of the browser sees it: authApi.ts, the    *)
(* session handling of App, AuthDialog and the contract review page, which *)
(* is mounted anew for every user. Session and CSRF cookies belong to the  *)
(* whole browser, the CSRF token to the tab. Requests are answered in any  *)
(* order, and what their handlers do then depends on what was signed in    *)
(* when they were started. Another tab, and time, change the cookies and   *)
(* the sessions meanwhile.                                                 *)
(***************************************************************************)
EXTENDS Integers, Sequences, Functions

CONSTANTS
    Accounts,
    MaxCalls,    \* requests of the tab, numbered as they are made (bound)
    MaxSessions, \* sessions opened on the server (bound)
    Nobody       \* null

ASSUME BrowserAssumption ==
    MaxCalls \in Nat /\ MaxSessions \in Nat /\ Nobody \notin Accounts /\ Nobody \notin Nat

VARIABLES
    owners,  \* server: owners[s] is the account of session s
    alive,   \* server: the sessions neither revoked nor expired
    strayed, \* server: <<account shown at the click, other account written to>>
    jar,     \* the session whose cookies the browser holds, or Nobody
    tab,     \* user, csrf, route, state of the mounted page, the login dialog
    call,    \* [Calls -> the request and what its handler remembers]
    excused  \* the cookies were replaced behind the tab's back (history)

Calls == 1..MaxCalls
Restoring == 1  \* asks for /auth/me when the tab is opened

browserVars == <<owners, alive, strayed, jar, tab, call, excused>>
server_ == <<owners, alive, strayed>>

OwnerOf(s) == owners[s]

EmptyPage == [review |-> Nobody, list |-> Nobody, submitting |-> FALSE]
NoCall == [kind |-> "none"]
Spent == [kind |-> "spent"]

Request(kind, csrf, of, signal) ==
    [kind |-> kind, cookie |-> jar, csrf |-> csrf, user |-> tab.user, of |-> of,
     signal |-> signal, mounted |-> kind = "login" \/ tab.route = "contracts", reply |-> "none", session |-> Nobody]

BrowserInit ==
    /\ \E u \in Accounts :
        \/ owners = <<>> /\ alive = {} /\ jar = Nobody
        \/ owners = <<u>> /\ alive \in {{}, {1}} /\ jar = 1
    /\ strayed = {} /\ excused = FALSE
    /\ tab = [user |-> Nobody, csrf |-> Nobody, route |-> "contracts", page |-> EmptyPage,
              dialog |-> "closed"]
    /\ call = [c \in Calls |-> IF c = Restoring THEN Request("me", Nobody, Nobody, FALSE) ELSE NoCall]

-----------------------------------------------------------------------------
(* Clicks *)

\* Mutant: the token of the cookie is preferred to that of the tab.
CookieToken == IF jar # Nobody THEN jar ELSE tab.csrf

\* The X-CSRF-Token of sessionFetch; with none, the call throws at once.
HeaderToken == IF tab.csrf # Nobody THEN tab.csrf ELSE jar

Send(c, kind, csrf, of, signal) ==
    /\ call[c] = NoCall /\ call[c - 1] # NoCall
    /\ call' = [call EXCEPT ![c] = Request(kind, csrf, of, signal)]
    /\ UNCHANGED <<server_, jar, excused>>

SignedIn == tab.user # Nobody
OnPage == tab.route = "contracts" /\ SignedIn

\* A page offers the dialog while /auth/me is still awaited, whose reply does
\* not close it. Closing it does not recall a request it has made.
ToggleDialog ==
    /\ IF tab.dialog = "closed"
       THEN ~SignedIn /\ tab' = [tab EXCEPT !.dialog = "open"] /\ UNCHANGED call
       ELSE /\ tab' = [tab EXCEPT !.dialog = "closed"]
            /\ call' = [c \in Calls |->
                  IF call[c].kind = "login" THEN [call[c] EXCEPT !.mounted = FALSE] ELSE call[c]]
    /\ UNCHANGED <<server_, jar, excused>>

Submit(c) ==
    /\ tab.dialog = "open"
    /\ \E u \in Accounts : Send(c, "login", Nobody, u, FALSE)
    /\ tab' = [tab EXCEPT !.dialog = "busy"]

Logout(c) ==
    /\ SignedIn /\ HeaderToken # Nobody
    /\ Send(c, "logout", HeaderToken, Nobody, FALSE)
    /\ UNCHANGED tab

\* The effect of a mounted page; its request is aborted with the page.
LoadReviews(c) ==
    /\ OnPage /\ tab.page.list = Nobody
    /\ ~\E d \in Calls : call[d].kind = "list" /\ call[d].signal
    /\ Send(c, "list", Nobody, Nobody, TRUE)
    /\ UNCHANGED tab

OpenReview(c) ==
    /\ OnPage /\ tab.page.list # Nobody
    /\ Send(c, "open", Nobody, tab.page.list, FALSE)
    /\ UNCHANGED tab

Upload(c) ==
    /\ OnPage /\ ~tab.page.submitting /\ HeaderToken # Nobody
    /\ Send(c, "upload", HeaderToken, Nobody, FALSE)
    /\ tab' = [tab EXCEPT !.page.submitting = TRUE]

RemoveReview(c) ==
    /\ OnPage /\ tab.page.list # Nobody /\ HeaderToken # Nobody
    /\ Send(c, "remove", HeaderToken, tab.page.list, FALSE)
    /\ UNCHANGED tab

\* A question is sent without a token when nobody is signed in.
AskQuestion(c) ==
    /\ tab.route = "qa"
    /\ SignedIn => HeaderToken # Nobody
    /\ Send(c, "ask", IF SignedIn THEN HeaderToken ELSE Nobody, Nobody, FALSE)
    /\ UNCHANGED tab

\* What leaving a page does to its requests
Left == [c \in Calls |->
    IF call[c].kind \in {"none", "spent"} THEN call[c]
    ELSE IF call[c].signal THEN Spent
    ELSE IF call[c].kind = "login" THEN call[c]
    ELSE [call[c] EXCEPT !.mounted = FALSE]]

Navigate ==
    /\ \E route \in {"contracts", "qa"} \ {tab.route} :
        tab' = [tab EXCEPT !.route = route, !.page = EmptyPage]
    /\ call' = Left
    /\ UNCHANGED <<server_, jar, excused>>

-----------------------------------------------------------------------------
(* The server *)

Answer(c, reply, session) ==
    call' = [call EXCEPT ![c].reply = reply, ![c].session = session]

Waiting(c, kinds) == call[c].kind \in kinds /\ call[c].reply = "none"

\* A write needs a live session and its own CSRF token, in cookie and header.
\* Only /ask is open to a browser without a session.
Refusal(c) ==
    IF call[c].cookie \notin alive THEN IF call[c].kind = "ask" THEN "ok" ELSE "401"
    ELSE IF call[c].csrf # call[c].cookie THEN "403" ELSE "none"

ServeWrite(c) ==
    /\ Waiting(c, {"logout", "upload", "remove", "ask"})
    /\ UNCHANGED <<owners, jar, tab, excused>>
    /\ IF Refusal(c) # "none"
       THEN Answer(c, Refusal(c), Nobody) /\ UNCHANGED <<alive, strayed>>
       ELSE LET s == call[c].cookie
                foreign == call[c].kind = "remove" /\ call[c].of # OwnerOf(s)
            IN /\ \E reply \in IF foreign THEN {"404"} ELSE {"ok", "failed"} : Answer(c, reply, s)
               /\ alive' = IF call[c].kind = "logout" THEN alive \ {s} ELSE alive
               /\ strayed' = IF foreign \/ call[c].user = OwnerOf(s) THEN strayed
                             ELSE strayed \cup {<<call[c].user, OwnerOf(s)>>}

ServeRead(c) ==
    /\ Waiting(c, {"me", "list", "open"})
    /\ LET s == call[c].cookie
           foreign == call[c].kind = "open" /\ call[c].of # OwnerOf(s)
       IN IF s \notin alive THEN Answer(c, "401", Nobody)
          ELSE IF foreign THEN Answer(c, "404", Nobody)
          ELSE Answer(c, "ok", s)
    /\ UNCHANGED <<server_, jar, tab, excused>>

\* Nothing revokes the session whose cookies the new ones replace.
ServeLogin(c) ==
    /\ Waiting(c, {"login"}) /\ Len(owners) < MaxSessions
    /\ owners' = Append(owners, call[c].of)
    /\ alive' = alive \cup {Len(owners')}
    /\ \E reply \in {"ok", "failed"} : Answer(c, reply, Len(owners'))
    /\ UNCHANGED <<strayed, jar, tab, excused>>

\* Wrong credentials, an unreachable or a failing server
RequestFails(c) ==
    /\ call[c].kind \notin {"none", "spent"} /\ call[c].reply = "none"
    /\ Answer(c, "failed", Nobody)
    /\ UNCHANGED <<server_, jar, tab, excused>>

Expire ==
    /\ \E s \in alive : alive' = alive \ {s}
    /\ UNCHANGED <<owners, strayed, jar, tab, call, excused>>

\* Another tab signs in or out.
OtherTab ==
    /\ \/ /\ Len(owners) < MaxSessions
          /\ \E u \in Accounts : owners' = Append(owners, u)
          /\ alive' = alive \cup {Len(owners')} /\ jar' = Len(owners')
       \/ /\ jar \in alive
          /\ alive' = alive \ {jar} /\ jar' = Nobody /\ UNCHANGED owners
    /\ excused' = TRUE
    /\ UNCHANGED <<strayed, tab, call>>

-----------------------------------------------------------------------------
(* What a reply does *)

Replied(c, kinds) == call[c].kind \in kinds /\ call[c].reply # "none"

\* setAuthUser: the page is keyed by the user, so that another user leaves it.
\* The requests of a left page go on, and what they return is not shown.
BecomeUser(c, user, csrf, route) ==
    LET same == user = tab.user /\ route = tab.route IN
    /\ tab' = [user |-> user, csrf |-> csrf, route |-> route,
               page |-> IF same THEN tab.page ELSE EmptyPage,
               dialog |-> IF call[c].kind = "login" THEN "closed" ELSE tab.dialog]
    /\ call' = [(IF same THEN call ELSE Left) EXCEPT ![c] = Spent]

Restored(c) ==
    /\ Replied(c, {"me"})
    /\ CASE call[c].reply = "ok" ->
              /\ BecomeUser(c, OwnerOf(call[c].session), call[c].session, tab.route)
              /\ excused' = (excused \/ call[c].session # jar)
         [] call[c].reply = "401" ->
              BecomeUser(c, Nobody, Nobody, tab.route) /\ UNCHANGED excused
         [] OTHER ->
              call' = [call EXCEPT ![c] = Spent] /\ UNCHANGED <<tab, excused>>
    /\ UNCHANGED <<server_, jar>>

Authenticated(c) ==
    /\ Replied(c, {"login"})
    /\ IF call[c].reply = "ok"
       THEN /\ jar' = call[c].session
            /\ BecomeUser(c, call[c].of, call[c].session, tab.route)
       ELSE /\ call' = [call EXCEPT ![c] = Spent]
            /\ tab' = [tab EXCEPT !.dialog = IF call[c].mounted THEN "open" ELSE @]
            /\ UNCHANGED jar
    /\ UNCHANGED <<server_, excused>>

\* A 401 to anything else signs the tab out, whichever session it was for.
SignedOut(c) ==
    /\ \/ Replied(c, {"logout"}) /\ call[c].reply \in {"ok", "401"}
       \/ Replied(c, {"list", "open", "upload", "remove", "ask"}) /\ call[c].reply = "401"
    /\ jar' = IF call[c].reply = "ok" THEN Nobody ELSE jar
    /\ BecomeUser(c, Nobody, Nobody, "qa")
    /\ UNCHANGED <<server_, excused>>

\* A page that has been left ignores what its handlers set.
SetPage(c, page) == tab' = [tab EXCEPT !.page = IF call[c].mounted THEN page ELSE @]

\* An upload or a removal is followed by the list, whatever became of the page.
ReloadList(c) ==
    call' = [call EXCEPT ![c] =
        [Request("list", Nobody, call[c].kind, FALSE) EXCEPT !.mounted = call[c].mounted]]

Shown(c) ==
    /\ Replied(c, {"list", "open", "upload", "remove", "ask", "logout"})
    /\ call[c].reply # "401"
    /\ LET ok == call[c].reply = "ok"
           of == IF ok THEN OwnerOf(call[c].session) ELSE Nobody
       IN \/ /\ call[c].kind = "list"
             /\ SetPage(c, [tab.page EXCEPT !.list = IF ok THEN of ELSE @,
                                           !.submitting = @ /\ call[c].of # "upload"])
             /\ call' = [call EXCEPT ![c] = Spent]
          \/ /\ call[c].kind = "open"
             /\ SetPage(c, IF ok THEN [tab.page EXCEPT !.review = of] ELSE tab.page)
             /\ call' = [call EXCEPT ![c] = Spent]
          \/ /\ call[c].kind = "upload"
             /\ SetPage(c, [tab.page EXCEPT !.submitting = ok, !.review = IF ok THEN of ELSE @])
             /\ IF ok THEN ReloadList(c) ELSE call' = [call EXCEPT ![c] = Spent]
          \/ /\ call[c].kind = "remove"
             /\ \E open \in BOOLEAN :
                 SetPage(c, IF ok /\ open THEN [tab.page EXCEPT !.review = Nobody] ELSE tab.page)
             /\ IF ok THEN ReloadList(c) ELSE call' = [call EXCEPT ![c] = Spent]
          \/ /\ call[c].kind \in {"ask", "logout"} /\ (call[c].kind = "logout" => ~ok)
             /\ call' = [call EXCEPT ![c] = Spent] /\ UNCHANGED tab
    /\ UNCHANGED <<server_, jar, excused>>

BrowserNext ==
    \/ \E c \in Calls :
        \/ Submit(c) \/ Logout(c) \/ LoadReviews(c) \/ OpenReview(c) \/ Upload(c)
        \/ RemoveReview(c) \/ AskQuestion(c)
        \/ ServeWrite(c) \/ ServeRead(c) \/ ServeLogin(c) \/ RequestFails(c)
        \/ Restored(c) \/ Authenticated(c) \/ SignedOut(c) \/ Shown(c)
    \/ ToggleDialog \/ Navigate \/ Expire \/ OtherTab

BrowserSpec == BrowserInit /\ [][BrowserNext]_browserVars

-----------------------------------------------------------------------------
(* Properties *)

\* What a user does in a tab is done to the account the tab showed at the
\* click, in whatever order replies arrive and however the cookies were
\* replaced meanwhile: the CSRF token ties the tab to its session. And unless
\* another tab replaced the cookies, or /auth/me was answered after they were
\* replaced, the reviews on the page are those of the account it shows.
ActsAsShown ==
    /\ strayed = {}
    /\ ~excused =>
        /\ {tab.page.review, tab.page.list} \subseteq {Nobody, tab.user}
        /\ SignedIn /\ jar # Nobody => OwnerOf(jar) = tab.user
===============================================================================
