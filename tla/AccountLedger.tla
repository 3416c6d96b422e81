----------------------------- MODULE AccountLedger -----------------------------
(***************************************************************************)
(* What registration and login promise about the history of the previous,  *)
(* anonymous version of the application: users are opened, converted or    *)
(* merged one at a time, an account is for ever, an e-mail has one owner,  *)
(* and the data of an anonymous user goes to one account, as a whole.      *)
(***************************************************************************)
CONSTANTS
    UserIds,    \* primary keys of app_users
    Emails,
    Chats,      \* conversations, each with one bookmarked answer
    Absent,     \* no such row
    Anonymous   \* a row without e-mail and password

VARIABLES
    users,  \* users[u]: Absent, Anonymous or the e-mail of the account u
    owner,  \* owner[v]: the user whose conversation v is
    marks   \* marks[v]: the user whose bookmark the answer of v carries

vars == <<users, owner, marks>>

Free(email) == \A u \in UserIds : users[u] # email

\* A new account, without any history.
Open(u, email) ==
    /\ users[u] = Absent
    /\ Free(email)
    /\ users' = [users EXCEPT ![u] = email]
    /\ UNCHANGED <<owner, marks>>

\* An anonymous user becomes an account and keeps its history.
Convert(u, email) ==
    /\ users[u] = Anonymous
    /\ Free(email)
    /\ users' = [users EXCEPT ![u] = email]
    /\ UNCHANGED <<owner, marks>>

\* The history of an anonymous user moves to an account.
Merge(u, account) ==
    /\ users[u] = Anonymous
    /\ users[account] \in Emails
    /\ users' = [users EXCEPT ![u] = Absent]
    /\ owner' = [v \in Chats |-> IF owner[v] = u THEN account ELSE owner[v]]
    /\ marks' = [v \in Chats |-> IF marks[v] = u THEN account ELSE marks[v]]

Init ==
    /\ users \in [UserIds -> Emails \cup {Absent, Anonymous}]
    /\ owner \in [Chats -> UserIds]
    /\ marks = owner

Next == \E u \in UserIds :
    \/ \E email \in Emails : Open(u, email) \/ Convert(u, email)
    \/ \E account \in UserIds : Merge(u, account)

Spec == Init /\ [][Next]_vars
=============================================================================
