---------------------------- MODULE AccountSessions ----------------------------
(***************************************************************************)
(* Registration, login and server-side sessions: concurrent HTTP requests, *)
(* each one database transaction of several statements, over app_users,    *)
(* user_sessions, conversations and bookmarks.                             *)
(*                                                                         *)
(* On PostgreSQL (READ COMMITTED) a statement reads what is committed when *)
(* it starts, SELECT ... FOR UPDATE and writes lock rows until the end of  *)
(* the transaction, a foreign key check takes a KEY SHARE lock, and an     *)
(* INSERT of a unique value waits for another transaction inserting it.    *)
(* SQLite, the default database, drops FOR UPDATE and has one lock for all *)
(* writers. A transaction's writes are modelled where they commit, its     *)
(* locks where it takes them.                                              *)
(***************************************************************************)
EXTENDS FiniteSets

CONSTANTS
    Clients,    \* ids of existing users; a browser sends one as X-Client-Id
    Requests,   \* HTTP requests; the rows a request inserts have its id
    Emails,
    Chats,      \* conversations of the existing users
    RowLocks,   \* TRUE: PostgreSQL; FALSE: SQLite
    Absent,     \* no such row
    Anonymous,  \* a user without e-mail, from the previous version
    None        \* Python's None

UserIds == Clients \cup Requests
SessionIds == Clients \cup Requests

Kinds == {"register", "login", "me", "logout", "logout_all"}
Outcomes == {"ok", "conflict", "unauthorized", "unavailable"}

ASSUME ValuesAssumption ==
    /\ Clients \cap Requests = {}
    /\ Absent # Anonymous
    /\ {Absent, Anonymous} \cap Emails = {}
    /\ None \notin UserIds \cup Emails \cup Kinds \cup Outcomes
ASSUME RowLocksAssumption == RowLocks \in BOOLEAN

VARIABLES
    users,      \* users[u]: Absent, Anonymous or the e-mail of the account u
    owner,      \* owner[v]: conversations.user_id
    marks,      \* marks[v]: bookmarks.user_id of the bookmark in v
    sess,       \* sess[s]: the user_sessions row, user None if there is none
    req,        \* req[r]: the request and its transaction
    origin      \* owner when the application started (history)

vars == <<users, owner, marks, sess, req, origin>>

NoRequest ==
    [kind |-> None, email |-> None, client |-> None, pc |-> "idle", uid |-> None,
     plan |-> "none", locked |-> FALSE, token |-> None, known |-> {}, outcome |-> None]

\* Users of the previous version and accounts, each account with one session;
\* every conversation with one bookmarked answer
Init ==
    /\ users \in [UserIds -> Emails \cup {Absent, Anonymous}]
    /\ \A u, v \in UserIds : users[u] = users[v] /\ u # v => users[u] \notin Emails
    /\ \A r \in Requests : users[r] = Absent
    /\ owner \in [Chats -> {u \in UserIds : users[u] # Absent}]
    /\ marks = owner
    /\ origin = owner
    /\ sess = [s \in SessionIds |->
                [user |-> IF users[s] \in Emails THEN s ELSE None, revoked |-> FALSE]]
    /\ req = [r \in Requests |-> NoRequest]

\* The transaction of q has written the e-mail, which is unique.
ClaimsEmail(q, email) ==
    req[q].kind = "register" /\ req[q].pc = "commit" /\ req[q].email = email

\* _email_owner, and what the unique index refuses
Owned(email) == \E u \in UserIds : users[u] = email

Finish(r, outcome) == [req EXCEPT ![r].pc = "done", ![r].outcome = outcome]

-----------------------------------------------------------------------------
(* Locks *)

\* Mutant: FOR UPDATE is left out.
NoRowHeld(q, u) == FALSE

\* The transaction of q has locked the row u FOR UPDATE.
HoldsRow(q, u) ==
    req[q].locked /\ req[q].client = u /\ req[q].pc \in {"write", "commit"}

\* It has inserted or updated a row that refers to u.
HoldsKey(q, u) == req[q].pc = "commit" /\ req[q].uid = u

\* Mutant: a request keeps its locks when it is answered.
BlocksAfterTheEnd(q, r) ==
    /\ q # r
    /\ req[r].pc = "lock" /\ req[q].pc \in {"write", "commit", "refresh", "done"}
    /\ req[q].locked /\ req[q].client = req[r].client

\* The next statement of r must wait for the end of q's transaction.
Blocks(q, r) ==
    /\ q # r
    /\ IF RowLocks
       THEN \/ /\ req[r].pc = "lock"
               /\ HoldsRow(q, req[r].client) \/ HoldsKey(q, req[r].client)
            \/ /\ req[r].pc = "write"
               /\ \/ req[r].kind = "register" /\ ClaimsEmail(q, req[r].email)
                  \/ req[r].kind = "login" /\ HoldsRow(q, req[r].uid)
       ELSE req[r].pc \in {"write", "touch", "revoke"} /\ req[q].pc = "commit"

Runs(r) == \A q \in Requests : ~Blocks(q, r)

\* r is on a cycle of waiting transactions.
Deadlocked(r) ==
    \E S \in SUBSET Requests :
        r \in S /\ \A t \in S : \E q \in S : Blocks(q, t)

-----------------------------------------------------------------------------
(* POST /auth/register and /auth/login *)

\* Registration refuses an e-mail that has an owner.
RegisterLookup(r) ==
    /\ req[r].pc = "idle"
    /\ \E email \in Emails, client \in Clients \cup {None} :
        LET arrived == [NoRequest EXCEPT
                !.kind = "register", !.email = email, !.client = client, !.plan = "create"]
        IN  req' = [req EXCEPT ![r] =
                IF Owned(email)
                THEN [arrived EXCEPT !.pc = "done", !.outcome = "conflict"]
                ELSE [arrived EXCEPT !.pc = IF client = None THEN "write" ELSE "lock"]]
    /\ UNCHANGED <<users, owner, marks, sess, origin>>

\* authenticate_user, and the early returns of migrate_anonymous_data
LoginLookup(r) ==
    /\ req[r].pc = "idle"
    /\ \E email \in Emails, client \in Clients \cup {None}, matches \in BOOLEAN :
        LET arrived == [NoRequest EXCEPT !.kind = "login", !.email = email, !.client = client]
        IN  \/ /\ ~(Owned(email) /\ matches)
               /\ req' = [req EXCEPT ![r] =
                    [arrived EXCEPT !.pc = "done", !.outcome = "unauthorized"]]
            \/ /\ matches
               /\ \E u \in UserIds :
                    /\ users[u] = email
                    /\ req' = [req EXCEPT ![r] = [arrived EXCEPT
                         !.uid = u, !.pc = IF client \in {None, u} THEN "write" ELSE "lock"]]
    /\ UNCHANGED <<users, owner, marks, sess, origin>>

\* What becomes of the row of the client id
PlanFor(kind, row) ==
    IF row = Anonymous
    THEN IF kind = "register" THEN "convert" ELSE "merge"
    ELSE IF kind = "register" THEN "create" ELSE "none"

\* _user_for_update: the row is locked if the database knows FOR UPDATE, and
\* the decision is taken on the row read here.
LockClient(r) ==
    /\ req[r].pc = "lock"
    /\ Runs(r)
    /\ LET row == users[req[r].client]
       IN  req' = [req EXCEPT ![r].pc = "write",
                              ![r].locked = RowLocks /\ row # Absent,
                              ![r].plan = PlanFor(req[r].kind, row)]
    /\ UNCHANGED <<users, owner, marks, sess, origin>>

\* The user of the session a registration or login issues
AccountOf(r) ==
    CASE req[r].plan = "create" -> r
      [] req[r].plan = "convert" -> req[r].client
      [] OTHER -> req[r].uid

\* The flushes: UPDATE or INSERT of the user or UPDATE and DELETE of the
\* anonymous user's rows, then the INSERT of the session. The UPDATE of a row
\* that is gone and a dangling foreign key are errors.
Write(r) ==
    /\ req[r].pc = "write"
    /\ Runs(r)
    /\ req' =
        IF req[r].kind = "register" /\ Owned(req[r].email)
        THEN Finish(r, "conflict")
        ELSE IF \/ req[r].plan = "convert" /\ users[req[r].client] = Absent
                \/ req[r].kind = "login" /\ users[req[r].uid] = Absent
        THEN Finish(r, "unavailable")
        ELSE [req EXCEPT ![r].pc = "commit", ![r].uid = AccountOf(r)]
    /\ UNCHANGED <<users, owner, marks, sess, origin>>

\* migrate_anonymous_data's UPDATE of conversations or bookmarks
Moved(rows, r) == [v \in Chats |-> IF rows[v] = req[r].client THEN req[r].uid ELSE rows[v]]

Commit(r) ==
    /\ req[r].pc = "commit"
    /\ users' = CASE req[r].plan \in {"create", "convert"} ->
                       [users EXCEPT ![req[r].uid] = req[r].email]
                  [] req[r].plan = "merge" -> [users EXCEPT ![req[r].client] = Absent]
                  [] OTHER -> users
    /\ IF req[r].plan = "merge"
       THEN owner' = Moved(owner, r) /\ marks' = Moved(marks, r)
       ELSE UNCHANGED <<owner, marks>>
    /\ sess' = [s \in SessionIds |->
                 CASE s = r -> [user |-> req[r].uid, revoked |-> FALSE]
                   [] s # r /\ req[r].plan = "merge" /\ sess[s].user = req[r].client ->
                        [user |-> None, revoked |-> FALSE]
                   [] OTHER -> sess[s]]
    /\ req' = [req EXCEPT ![r].pc = "refresh"]
    /\ UNCHANGED origin

\* session.refresh reads the user again, in a new transaction.
Refresh(r) ==
    /\ req[r].pc = "refresh"
    /\ req' = Finish(r, IF users[req[r].uid] = Absent THEN "unavailable" ELSE "ok")
    /\ UNCHANGED <<users, owner, marks, sess, origin>>

-----------------------------------------------------------------------------
(* Requests with a session cookie: GET /auth/me, POST /auth/logout and      *)
(* /auth/logout-all                                                         *)

\* The cookies a client can hold: of the existing sessions and of those issued
Cookies == {s \in Clients : sess[s].user # None}
           \cup {r \in Requests : req[r].kind \in {"register", "login"} /\ req[r].outcome = "ok"}

\* The dependency: get_session_by_token; the session may have expired, its
\* last_seen_at may be due.
Authenticate(r) ==
    /\ req[r].pc = "idle"
    /\ \E kind \in {"me", "logout", "logout_all"}, token \in Cookies, due \in BOOLEAN :
        LET row == sess[token]
            arrived == [NoRequest EXCEPT !.kind = kind, !.token = token, !.uid = row.user]
            usable == row.user # None /\ ~row.revoked
            known == IF kind = "logout_all"
                     THEN {s \in SessionIds : sess[s].user = row.user}
                     ELSE IF kind = "logout" THEN {token} ELSE {}
        IN  \/ req' = [req EXCEPT ![r] = [arrived EXCEPT
                         !.pc = "done", !.outcome = "unauthorized"]]
            \/ /\ usable
               /\ req' = [req EXCEPT ![r] = [arrived EXCEPT
                    !.known = known,
                    !.pc = IF due THEN "touch" ELSE IF kind = "me" THEN "done" ELSE "revoke",
                    !.outcome = IF kind = "me" /\ ~due THEN "ok" ELSE None]]
    /\ UNCHANGED <<users, owner, marks, sess, origin>>

\* Mutant: the touch writes the whole row it has read.
RowReadEarlier(row) == [row EXCEPT !.revoked = FALSE]

\* The touch writes last_seen_at, which is not modelled, and nothing else.
Touched(row) == row

Touch(r) ==
    /\ req[r].pc = "touch"
    /\ Runs(r)
    /\ IF sess[req[r].token].user = None
       THEN req' = Finish(r, "unavailable") /\ UNCHANGED sess
       ELSE /\ sess' = [sess EXCEPT ![req[r].token] = Touched(@)]
            /\ req' = IF req[r].kind = "me" THEN Finish(r, "ok")
                      ELSE [req EXCEPT ![r].pc = "revoke"]
    /\ UNCHANGED <<users, owner, marks, origin>>

\* revoke_session or revoke_all_sessions
Revoke(r) ==
    /\ req[r].pc = "revoke"
    /\ Runs(r)
    /\ IF req[r].kind = "logout" /\ sess[req[r].token].user = None
       THEN req' = Finish(r, "unavailable") /\ UNCHANGED sess
       ELSE /\ sess' = [s \in SessionIds |->
                 IF IF req[r].kind = "logout" THEN s = req[r].token ELSE sess[s].user = req[r].uid
                 THEN [sess[s] EXCEPT !.revoked = TRUE] ELSE sess[s]]
            /\ req' = Finish(r, "ok")
    /\ UNCHANGED <<users, owner, marks, origin>>

-----------------------------------------------------------------------------
(* Failures *)

\* The database fails: the transaction is rolled back, the answer is 503. When
\* only the refresh fails the commit stands.
Fail(r) ==
    /\ req[r].pc \notin {"idle", "done"}
    /\ req' = Finish(r, "unavailable")
    /\ UNCHANGED <<users, owner, marks, sess, origin>>

\* PostgreSQL aborts a transaction of a deadlock.
AbortDeadlocked(r) ==
    /\ Deadlocked(r)
    /\ req' = Finish(r, "unavailable")
    /\ UNCHANGED <<users, owner, marks, sess, origin>>

Proceed(r) ==
    \/ LockClient(r) \/ Write(r) \/ Commit(r) \/ Refresh(r)
    \/ Touch(r) \/ Revoke(r)
    \/ AbortDeadlocked(r)

Next == \E r \in Requests :
    \/ RegisterLookup(r) \/ LoginLookup(r) \/ Authenticate(r)
    \/ Proceed(r)
    \/ Fail(r)

\* A request that has arrived is served; no request needs to arrive or to fail.
Spec == Init /\ [][Next]_vars /\ \A r \in Requests : WF_vars(Proceed(r))

-----------------------------------------------------------------------------
ReqRecords ==
    [kind : Kinds \cup {None}, email : Emails \cup {None}, client : Clients \cup {None},
     pc : {"idle", "lock", "write", "commit", "refresh", "touch", "revoke", "done"},
     uid : UserIds \cup {None}, plan : {"none", "create", "convert", "merge"},
     locked : BOOLEAN, token : SessionIds \cup {None},
     known : SUBSET SessionIds, outcome : Outcomes \cup {None}]

TypeOK ==
    /\ users \in [UserIds -> Emails \cup {Absent, Anonymous}]
    /\ owner \in [Chats -> UserIds]
    /\ marks \in [Chats -> UserIds]
    /\ origin \in [Chats -> UserIds]
    /\ sess \in [SessionIds -> [user : UserIds \cup {None}, revoked : BOOLEAN]]
    /\ req \in [Requests -> ReqRecords]

\* A session that existed when a successful logout of it (or of all sessions
\* of its user) arrived stays revoked, whatever touches it concurrently.
LoggedOutForGood ==
    \A r \in Requests :
        req[r].kind \in {"logout", "logout_all"} /\ req[r].outcome = "ok" =>
            \A s \in req[r].known : sess[s].revoked

\* The committed rows change as if registrations and logins ran one at a time.
Ledger == INSTANCE AccountLedger
LedgerKept == Ledger!Spec

\* Login and registration move the data of anonymous users only: the migration
\* is there for the data of the previous version (docs/SESSION_AUTH.md).
OnlyAnonymousDataMoves ==
    [][\A v \in Chats : owner'[v] # owner[v] => users[owner[v]] = Anonymous]_vars

\* Requests that wait for each other's rows are all answered.
EveryRequestEnds ==
    \A r \in Requests : req[r].pc # "idle" ~> req[r].pc = "done"
=============================================================================
