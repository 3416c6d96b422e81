------------------------ MODULE AccountSessionsProofs ------------------------
(***************************************************************************)
(* Proofs about AccountSessions on PostgreSQL (RowLocks), for any users,    *)
(* conversations and concurrent requests. On SQLite, which has no row       *)
(* locks, they do not hold: the run of AccountSessionsSqlite.cfg shows the  *)
(* merge of a row that is an account by then.                               *)
(*                                                                         *)
(* What a transaction read when it took its lock is still so when it        *)
(* commits (Sound), because two transactions never hold the same row and    *)
(* never claim the same e-mail (Exclusive). Sessions belong to accounts,    *)
(* and only rows without e-mail are ever merged away, so a session that a   *)
(* logout knows is never deleted or handed out again.                       *)
(***************************************************************************)
EXTENDS AccountSessions, TLAPS

\* A registration or login whose transaction has not committed yet
Unfinished == {"lock", "write", "commit"}

\* Sessions are issued to accounts, and an account is for ever.
SessionsOfAccounts ==
    \A s \in SessionIds : sess[s].user # None => users[sess[s].user] \in Emails

\* What the transaction q of request r relies on at each of its statements
Sound(r, q) ==
    /\ q.pc \in {"idle"} \cup Unfinished => users[r] = Absent /\ sess[r].user = None
    /\ q.pc \in Unfinished \cup {"refresh"} => q.kind \in {"register", "login"} /\ q.email \in Emails
    /\ q.pc = "lock" => q.client \in Clients
    /\ q.pc \in Unfinished /\ q.kind = "register" => q.plan \in {"create", "convert"}
    /\ q.pc \in Unfinished /\ q.kind = "login" =>
          q.plan \in {"none", "merge"} /\ q.uid \in UserIds /\ users[q.uid] \in Emails
    /\ q.pc \in {"write", "commit"} /\ q.plan \in {"convert", "merge"} =>
          q.locked /\ q.client \in Clients /\ users[q.client] = Anonymous
    /\ q.pc = "commit" /\ q.kind = "register" =>
          ~Owned(q.email) /\ q.uid = IF q.plan = "create" THEN r ELSE q.client
    /\ \A s \in q.known : sess[s].user # None
    /\ q.pc \in {"touch", "revoke"} =>
          /\ q.kind \in {"me", "logout", "logout_all"}
          /\ q.outcome # "ok"
          /\ q.kind = "logout" => q.known = {q.token}
          /\ q.kind = "logout_all" => \A s \in q.known : sess[s].user = q.uid
    /\ q.kind \in {"logout", "logout_all"} /\ q.outcome = "ok" => \A s \in q.known : sess[s].revoked

\* Two transactions do not hold the same row, and do not write the same e-mail.
Exclusive(q, r) ==
    /\ ~(HoldsRow(q, req[r].client) /\ HoldsRow(r, req[r].client))
    /\ ~(ClaimsEmail(q, req[r].email) /\ ClaimsEmail(r, req[r].email))

IInv ==
    /\ TypeOK
    /\ SessionsOfAccounts
    /\ \A r \in Requests : Sound(r, req[r])
    /\ \A q, r \in Requests : q # r => Exclusive(q, r)

-----------------------------------------------------------------------------
(* Statements that change no row                                             *)

\* A request takes a step of its own: it stays sound, and holds nothing that another one holds.
LEMMA OwnStepKeepsIInv ==
    ASSUME IInv, NEW r \in Requests, NEW q \in ReqRecords,
           req' = [req EXCEPT ![r] = q],
           UNCHANGED <<users, owner, marks, sess, origin>>,
           Sound(r, q),
           q.locked /\ q.pc \in {"write", "commit"} =>
               \A p \in Requests \ {r} : ~HoldsRow(p, q.client),
           q.kind = "register" /\ q.pc = "commit" =>
               \A p \in Requests \ {r} : ~ClaimsEmail(p, q.email)
    PROVE  IInv'
<1>0. req \in [Requests -> ReqRecords]
    BY DEF IInv, TypeOK
<1>1. TypeOK'
    BY <1>0 DEF IInv, TypeOK
<1>2. SessionsOfAccounts'
    BY DEF IInv, SessionsOfAccounts
<1>3. ASSUME NEW p \in Requests PROVE Sound(p, req[p])'
  <2>1. req'[p] = IF p = r THEN q ELSE req[p]
      BY <1>0
  <2>2. Sound(p, req'[p])
      BY <2>1 DEF IInv
  <2> QED BY <2>2 DEF Sound, Owned
<1>4. ASSUME NEW p \in Requests, NEW t \in Requests, p # t PROVE Exclusive(p, t)'
  <2>1. CASE p # r /\ t # r
      BY <1>0, <1>4, <2>1 DEF IInv, Exclusive, HoldsRow, ClaimsEmail
  <2>2. CASE p = r
      BY <1>0, <1>4, <2>2 DEF Exclusive, HoldsRow, ClaimsEmail
  <2>3. CASE t = r
      BY <1>0, <1>4, <2>3 DEF Exclusive, HoldsRow, ClaimsEmail
  <2> QED BY <2>1, <2>2, <2>3
<1> QED BY <1>1, <1>2, <1>3, <1>4 DEF IInv

\* A request that is answered, with success only when that is no logout
LEMMA FinishKeepsIInv ==
    ASSUME IInv, NEW r \in Requests, NEW outcome \in Outcomes,
           req' = Finish(r, outcome), UNCHANGED <<users, owner, marks, sess, origin>>,
           outcome = "ok" => req[r].kind \notin {"logout", "logout_all"}
    PROVE  IInv'
<1> DEFINE q == [req[r] EXCEPT !.pc = "done", !.outcome = outcome]
<1>1. req[r] \in ReqRecords /\ Sound(r, req[r])
    BY DEF IInv, TypeOK
<1>2. /\ q \in ReqRecords /\ q.pc = "done" /\ q.outcome = outcome /\ q.kind = req[r].kind
      /\ q.known = req[r].known
    BY <1>1 DEF ReqRecords
<1>3. req' = [req EXCEPT ![r] = q]
    BY <1>1 DEF Finish, IInv, TypeOK
<1> HIDE DEF q
<1>4. Sound(r, q)
    BY <1>1, <1>2 DEF Sound, Unfinished
<1> QED BY <1>2, <1>3, <1>4, OwnStepKeepsIInv

\* The look-ups of a registration and of a login
LEMMA LookupKeepsIInv ==
    ASSUME IInv, NEW r \in Requests, RegisterLookup(r) \/ LoginLookup(r)
    PROVE  IInv'
<1>0. /\ req[r].pc = "idle" /\ Sound(r, req[r]) /\ UNCHANGED <<users, owner, marks, sess, origin>>
      /\ NoRequest \in ReqRecords
    BY DEF IInv, RegisterLookup, LoginLookup, NoRequest, ReqRecords
<1>1. CASE RegisterLookup(r)
  <2>1. PICK email \in Emails, client \in Clients \cup {None} :
            LET arrived == [NoRequest EXCEPT
                    !.kind = "register", !.email = email, !.client = client, !.plan = "create"]
            IN  req' = [req EXCEPT ![r] =
                    IF Owned(email)
                    THEN [arrived EXCEPT !.pc = "done", !.outcome = "conflict"]
                    ELSE [arrived EXCEPT !.pc = IF client = None THEN "write" ELSE "lock"]]
      BY <1>1 DEF RegisterLookup
  <2> DEFINE arrived == [NoRequest EXCEPT
                 !.kind = "register", !.email = email, !.client = client, !.plan = "create"]
  <2>2. CASE Owned(email)
    <3> DEFINE q == [arrived EXCEPT !.pc = "done", !.outcome = "conflict"]
    <3>1. req' = [req EXCEPT ![r] = q]
        BY <2>1, <2>2
    <3>2. q \in ReqRecords /\ q.pc = "done" /\ q.outcome = "conflict" /\ q.known = {}
        BY <1>0 DEF ReqRecords, NoRequest, Kinds, Outcomes
    <3> HIDE DEF q
    <3>3. Sound(r, q)
        BY <3>2 DEF Sound, Unfinished
    <3> QED BY <1>0, <3>1, <3>2, <3>3, OwnStepKeepsIInv
  <2>3. CASE ~Owned(email)
    <3> PICK pc : pc = IF client = None THEN "write" ELSE "lock"
        OBVIOUS
    <3> DEFINE q == [arrived EXCEPT !.pc = pc]
    <3>1. req' = [req EXCEPT ![r] = q]
        BY <2>1, <2>3
    <3>2. /\ q \in ReqRecords /\ q.pc = pc /\ q.kind = "register" /\ q.email = email
          /\ q.client = client /\ q.plan = "create" /\ q.locked = FALSE /\ q.known = {}
        BY ZenonT(30), <1>0 DEF ReqRecords, NoRequest, Kinds
    <3> HIDE DEF q
    <3>3. Sound(r, q)
        BY <1>0, <3>2 DEF Sound, Unfinished
    <3> QED BY <1>0, <3>1, <3>2, <3>3, OwnStepKeepsIInv
  <2> QED BY <2>2, <2>3
<1>2. CASE LoginLookup(r)
  <2>1. PICK email \in Emails, client \in Clients \cup {None}, matches \in BOOLEAN :
        LET arrived == [NoRequest EXCEPT !.kind = "login", !.email = email, !.client = client]
        IN  \/ /\ ~(Owned(email) /\ matches)
               /\ req' = [req EXCEPT ![r] =
                    [arrived EXCEPT !.pc = "done", !.outcome = "unauthorized"]]
            \/ /\ matches
               /\ \E u \in UserIds :
                    /\ users[u] = email
                    /\ req' = [req EXCEPT ![r] = [arrived EXCEPT
                         !.uid = u, !.pc = IF client \in {None, u} THEN "write" ELSE "lock"]]
      BY <1>2 DEF LoginLookup
  <2> DEFINE arrived == [NoRequest EXCEPT !.kind = "login", !.email = email, !.client = client]
  <2>2. CASE req' = [req EXCEPT ![r] = [arrived EXCEPT !.pc = "done", !.outcome = "unauthorized"]]
    <3> DEFINE q == [arrived EXCEPT !.pc = "done", !.outcome = "unauthorized"]
    <3>1. req' = [req EXCEPT ![r] = q]
        BY <2>2
    <3>2. q \in ReqRecords /\ q.pc = "done" /\ q.outcome = "unauthorized" /\ q.known = {}
        BY <1>0 DEF ReqRecords, NoRequest, Kinds, Outcomes
    <3> HIDE DEF q
    <3>3. Sound(r, q)
        BY <3>2 DEF Sound, Unfinished
    <3> QED BY <1>0, <3>1, <3>2, <3>3, OwnStepKeepsIInv
  <2>3. ASSUME NEW u \in UserIds, users[u] = email,
               req' = [req EXCEPT ![r] = [arrived EXCEPT
                         !.uid = u, !.pc = IF client \in {None, u} THEN "write" ELSE "lock"]]
        PROVE  IInv'
    <3> PICK pc : pc = IF client \in {None, u} THEN "write" ELSE "lock"
        OBVIOUS
    <3> DEFINE q == [arrived EXCEPT !.uid = u, !.pc = pc]
    <3>1. req' = [req EXCEPT ![r] = q]
        BY <2>3
    <3>2. /\ q \in ReqRecords /\ q.pc = pc /\ q.kind = "login" /\ q.email = email /\ q.uid = u
          /\ q.client = client /\ q.plan = "none" /\ q.locked = FALSE /\ q.known = {}
      <4>1. pc \in {"lock", "write"}
          OBVIOUS
      <4>2. /\ arrived \in ReqRecords /\ arrived.kind = "login" /\ arrived.email = email
            /\ arrived.client = client /\ arrived.plan = "none" /\ arrived.locked = FALSE
            /\ arrived.known = {}
          BY <1>0 DEF ReqRecords, NoRequest, Kinds
      <4> HIDE DEF arrived
      <4> QED BY <4>1, <4>2 DEF ReqRecords
    <3> HIDE DEF q
    <3>3. Sound(r, q)
        BY <1>0, <2>3, <3>2 DEF Sound, Unfinished
    <3> QED BY <1>0, <3>1, <3>2, <3>3, OwnStepKeepsIInv
  <2> QED BY <2>1, <2>2, <2>3
<1> QED BY <1>1, <1>2

\* The decision on the client's row: whoever holds it has committed or given up.
LEMMA LockKeepsIInv ==
    ASSUME RowLocks, IInv, NEW r \in Requests, LockClient(r)
    PROVE  IInv'
<1> PICK row : row = users[req[r].client]
    OBVIOUS
<1>1. /\ req[r].pc = "lock" /\ req[r] \in ReqRecords /\ Sound(r, req[r])
      /\ UNCHANGED <<users, owner, marks, sess, origin>>
    BY DEF LockClient, IInv, TypeOK
<1>2. PICK locked \in BOOLEAN : (locked <=> row # Absent) /\ locked = (RowLocks /\ row # Absent)
    OBVIOUS
<1>plan. PICK plan : plan = PlanFor(req[r].kind, row)
    OBVIOUS
<1> DEFINE q == [req[r] EXCEPT !.pc = "write", !.locked = locked, !.plan = plan]
<1>3. req' = [req EXCEPT ![r] = q]
    BY <1>1, <1>2, <1>plan DEF LockClient, IInv, TypeOK
<1>4. plan \in {"none", "create", "convert", "merge"}
    BY <1>2, <1>plan DEF PlanFor
<1>5. /\ q \in ReqRecords /\ q.pc = "write" /\ q.kind = req[r].kind /\ q.email = req[r].email
      /\ q.client = req[r].client /\ q.uid = req[r].uid /\ q.plan = plan /\ q.locked = locked
      /\ q.known = req[r].known /\ q.outcome = req[r].outcome
  <2>1. locked \in BOOLEAN /\ req[r] \in ReqRecords
      BY <1>1
  <2> DEFINE t == req[r]
  <2> HIDE DEF t
  <2>2. q = [t EXCEPT !.pc = "write", !.locked = locked, !.plan = plan] /\ t \in ReqRecords
      BY <2>1 DEF t
  <2> HIDE DEF q
  <2>3. q \in ReqRecords
    <3>1. CASE locked = TRUE
      <4>1. q = [t EXCEPT !.pc = "write", !.locked = TRUE, !.plan = plan]
          BY <2>2, <3>1
      <4> QED BY <2>2, <4>1, <1>4 DEF ReqRecords
    <3>2. CASE locked = FALSE
      <4>1. q = [t EXCEPT !.pc = "write", !.locked = FALSE, !.plan = plan]
          BY <2>2, <3>2
      <4> QED BY <2>2, <4>1, <1>4 DEF ReqRecords
    <3> QED BY <2>1, <3>1, <3>2
  <2>4. /\ q.pc = "write" /\ q.kind = t.kind /\ q.email = t.email
        /\ q.client = t.client /\ q.uid = t.uid /\ q.plan = plan /\ q.locked = locked
        /\ q.known = t.known /\ q.outcome = t.outcome
      BY <2>2 DEF ReqRecords
  <2> QED BY <2>3, <2>4 DEF t
<1> HIDE DEF q
<1>6. Sound(r, q)
    BY <1>1, <1>2, <1>plan, <1>5, ValuesAssumption DEF Sound, Unfinished, PlanFor
<1>7. \A p \in Requests \ {r} : ~HoldsRow(p, q.client)
    BY <1>1, <1>5 DEF LockClient, Runs, Blocks
<1> QED BY <1>1, <1>3, <1>5, <1>6, <1>7, OwnStepKeepsIInv

\* The flushes: the e-mail is free, and nobody else is about to take it.
LEMMA WriteKeepsIInv ==
    ASSUME RowLocks, IInv, NEW r \in Requests, Write(r)
    PROVE  IInv'
<1>1. /\ req[r].pc = "write" /\ req[r] \in ReqRecords /\ Sound(r, req[r])
      /\ UNCHANGED <<users, owner, marks, sess, origin>>
    BY DEF Write, IInv, TypeOK
<1>2. CASE req' = Finish(r, "conflict") \/ req' = Finish(r, "unavailable")
    BY <1>1, <1>2, FinishKeepsIInv DEF Outcomes
<1>3. CASE /\ ~(req[r].kind = "register" /\ Owned(req[r].email))
           /\ req' = [req EXCEPT ![r].pc = "commit", ![r].uid = AccountOf(r)]
  <2> PICK uid : uid = AccountOf(r)
      OBVIOUS
  <2> DEFINE q == [req[r] EXCEPT !.pc = "commit", !.uid = uid]
  <2>1. req' = [req EXCEPT ![r] = q]
      BY <1>1, <1>3 DEF IInv, TypeOK
  <2>2. uid \in UserIds \cup {None}
      BY <1>1 DEF AccountOf, ReqRecords, UserIds
  <2>3. /\ q \in ReqRecords /\ q.pc = "commit" /\ q.kind = req[r].kind /\ q.email = req[r].email
        /\ q.client = req[r].client /\ q.uid = uid /\ q.plan = req[r].plan
        /\ q.locked = req[r].locked /\ q.known = req[r].known /\ q.outcome = req[r].outcome
      BY ZenonT(30), <1>1, <2>2 DEF ReqRecords
  <2> HIDE DEF q
  <2>4. Sound(r, q)
      BY <1>1, <1>3, <2>3 DEF Sound, Unfinished, AccountOf
  <2>5. q.locked => \A p \in Requests \ {r} : ~HoldsRow(p, q.client)
      BY <1>1, <2>3 DEF IInv, Exclusive, HoldsRow
  <2>6. q.kind = "register" => \A p \in Requests \ {r} : ~ClaimsEmail(p, q.email)
      BY <1>1, <2>3 DEF Write, Runs, Blocks
  <2> QED BY <1>1, <2>1, <2>3, <2>4, <2>5, <2>6, OwnStepKeepsIInv
<1> QED BY <1>2, <1>3 DEF Write

-----------------------------------------------------------------------------
(* Commits                                                                   *)

\* What a commit does to the rows that others rely on
LEMMA CommitEffect ==
    ASSUME RowLocks, IInv, NEW r \in Requests, Commit(r)
    PROVE  /\ req[r].uid \in UserIds /\ req[r].email \in Emails
           /\ users' \in [UserIds -> Emails \cup {Absent, Anonymous}]
           /\ owner' \in [Chats -> UserIds] /\ marks' \in [Chats -> UserIds]
           /\ \A u \in UserIds : users[u] \in Emails => users'[u] = users[u]
           /\ users'[req[r].uid] \in Emails
           /\ sess' = [sess EXCEPT ![r] = [user |-> req[r].uid, revoked |-> FALSE]]
           /\ \A p \in Requests \ {r} : users'[p] = users[p]
           /\ \A p \in Requests \ {r} : req[p].locked /\ req[p].client \in Clients /\ req[p].pc \in {"write", "commit"}
                  /\ users[req[p].client] = Anonymous => users'[req[p].client] = Anonymous
           /\ \A p \in Requests \ {r} : req[p].kind = "register" /\ req[p].pc = "commit"
                  /\ ~Owned(req[p].email) => ~Owned(req[p].email)'
<1>0. /\ req[r].pc = "commit" /\ req[r] \in ReqRecords /\ Sound(r, req[r])
      /\ r \in UserIds /\ r \in SessionIds /\ Clients \subseteq UserIds
      /\ users \in [UserIds -> Emails \cup {Absent, Anonymous}]
      /\ sess \in [SessionIds -> [user : UserIds \cup {None}, revoked : BOOLEAN]]
      /\ owner \in [Chats -> UserIds] /\ marks \in [Chats -> UserIds]
      /\ Absent \notin Emails /\ Anonymous \notin Emails /\ Absent # Anonymous
    BY ValuesAssumption DEF Commit, IInv, TypeOK, UserIds, SessionIds
<1>1. ASSUME NEW p \in Requests \ {r}, HoldsRow(r, req[r].client)
      PROVE  ~(req[p].locked /\ req[p].pc \in {"write", "commit"} /\ req[p].client = req[r].client)
    BY <1>1 DEF IInv, Exclusive, HoldsRow
<1>2. CASE req[r].plan \in {"create", "convert"}
  <2>1. /\ req[r].kind = "register" /\ req[r].email \in Emails /\ req[r].uid \in UserIds
        /\ users[req[r].uid] \in {Absent, Anonymous}
        /\ users' = [users EXCEPT ![req[r].uid] = req[r].email]
        /\ owner' = owner /\ marks' = marks
        /\ \A p \in Requests \ {r} : req[r].uid # p
      BY <1>0, <1>2, ValuesAssumption DEF Sound, Unfinished, Commit
  <2>2. sess' = [sess EXCEPT ![r] = [user |-> req[r].uid, revoked |-> FALSE]]
      BY <1>0, <1>2 DEF Commit
  <2>3. ASSUME NEW p \in Requests \ {r}, req[p].locked, req[p].client \in Clients,
               req[p].pc \in {"write", "commit"}, users[req[p].client] = Anonymous
        PROVE  users'[req[p].client] = Anonymous
    <3>1. CASE req[r].plan = "create"
        BY <1>0, <2>1, <2>3, <3>1, ValuesAssumption DEF Sound
    <3>2. CASE req[r].plan = "convert"
        BY <1>0, <1>1, <2>1, <2>3, <3>2 DEF Sound, HoldsRow
    <3> QED BY <1>2, <3>1, <3>2
  <2>4. ASSUME NEW p \in Requests \ {r}, req[p].kind = "register", req[p].pc = "commit",
               ~Owned(req[p].email)
        PROVE  ~Owned(req[p].email)'
    <3>1. req[p].email # req[r].email
        BY <1>0, <2>1, <2>4 DEF IInv, Exclusive, ClaimsEmail
    <3>2. \A u \in UserIds : users'[u] # req[p].email
        BY <1>0, <2>1, <2>4, <3>1 DEF Owned
    <3>3. req'[p].email = req[p].email
        BY DEF Commit, IInv, TypeOK
    <3> QED BY <3>2, <3>3 DEF Owned
  <2> QED BY <1>0, <2>1, <2>2, <2>3, <2>4
<1>3. CASE req[r].plan \in {"merge", "none"}
  <2>1. /\ req[r].kind = "login" /\ req[r].email \in Emails /\ req[r].uid \in UserIds
        /\ users[req[r].uid] \in Emails
      BY <1>0, <1>3 DEF Sound, Unfinished
  <2>2. req[r].plan = "merge" =>
           /\ req[r].client \in Clients /\ users[req[r].client] = Anonymous
           /\ HoldsRow(r, req[r].client)
           /\ users' = [users EXCEPT ![req[r].client] = Absent]
           /\ owner' = Moved(owner, r) /\ marks' = Moved(marks, r)
      BY <1>0, <1>3 DEF Sound, Commit, HoldsRow
  <2>3. req[r].plan = "none" => users' = users /\ owner' = owner /\ marks' = marks
      BY DEF Commit
  <2>4. users' \in [UserIds -> Emails \cup {Absent, Anonymous}]
      BY <1>0, <1>3, <2>2, <2>3
  <2>5. owner' \in [Chats -> UserIds] /\ marks' \in [Chats -> UserIds]
      BY <1>0, <1>3, <2>1, <2>2, <2>3 DEF Moved
  <2>6. sess' = [sess EXCEPT ![r] = [user |-> req[r].uid, revoked |-> FALSE]]
    \* Anonymous users have no session to lose.
    <3>1. ASSUME NEW s \in SessionIds \ {r}, req[r].plan = "merge" PROVE sess[s].user # req[r].client
        BY <1>0, <2>2, <3>1, ValuesAssumption DEF IInv, SessionsOfAccounts, UserIds
    <3> QED BY <1>0, <3>1 DEF Commit
  <2>7. /\ \A u \in UserIds : users[u] \in Emails => users'[u] = users[u]
        /\ users'[req[r].uid] \in Emails
        /\ \A p \in Requests \ {r} : users'[p] = users[p]
    <3>1. CASE req[r].plan = "none"
        BY <2>1, <2>3, <3>1
    <3>2. CASE req[r].plan = "merge"
      <4>1. \A p \in Requests : p \in UserIds /\ p # req[r].client
          BY <2>2, <3>2, ValuesAssumption DEF UserIds
      <4> QED BY <1>0, <2>1, <2>2, <3>2, <4>1
    <3> QED BY <1>3, <3>1, <3>2
  <2>8. ASSUME NEW p \in Requests \ {r}, req[p].locked, req[p].client \in Clients,
               req[p].pc \in {"write", "commit"}, users[req[p].client] = Anonymous
        PROVE  users'[req[p].client] = Anonymous
      BY <1>0, <1>1, <1>3, <2>2, <2>3, <2>8
  <2>9. ASSUME NEW p \in Requests \ {r}, req[p].kind = "register", req[p].pc = "commit",
               ~Owned(req[p].email)
        PROVE  ~Owned(req[p].email)'
    <3>1. req[p].email \in Emails
        BY <2>9 DEF IInv, Sound, Unfinished
    <3>2. \A u \in UserIds : users'[u] # req[p].email
        BY <1>0, <1>3, <2>2, <2>3, <2>9, <3>1 DEF Owned
    <3>3. req'[p].email = req[p].email
        BY DEF Commit, IInv, TypeOK
    <3> QED BY <3>2, <3>3 DEF Owned
  <2> QED BY <2>1, <2>4, <2>5, <2>6, <2>7, <2>8, <2>9
<1> QED BY <1>0, <1>2, <1>3 DEF ReqRecords

LEMMA CommitKeepsIInv ==
    ASSUME RowLocks, IInv, NEW r \in Requests, Commit(r)
    PROVE  IInv'
<1>0. /\ req[r].pc = "commit" /\ req[r] \in ReqRecords /\ Sound(r, req[r])
      /\ req \in [Requests -> ReqRecords]
      /\ sess \in [SessionIds -> [user : UserIds \cup {None}, revoked : BOOLEAN]]
      /\ r \in SessionIds /\ origin' = origin
    BY DEF Commit, IInv, TypeOK, SessionIds
<1> PICK q : q = [req[r] EXCEPT !.pc = "refresh"]
    OBVIOUS
<1>1. /\ req' = [req EXCEPT ![r] = q]
      /\ q \in ReqRecords /\ q.pc = "refresh" /\ q.kind = req[r].kind /\ q.email = req[r].email
      /\ q.known = req[r].known
    BY <1>0 DEF Commit, ReqRecords
<1>2. /\ req[r].uid \in UserIds
      /\ users' \in [UserIds -> Emails \cup {Absent, Anonymous}]
      /\ owner' \in [Chats -> UserIds] /\ marks' \in [Chats -> UserIds]
      /\ \A u \in UserIds : users[u] \in Emails => users'[u] = users[u]
      /\ users'[req[r].uid] \in Emails
      /\ sess' = [sess EXCEPT ![r] = [user |-> req[r].uid, revoked |-> FALSE]]
    BY CommitEffect
<1>3. TypeOK'
    BY <1>0, <1>1, <1>2 DEF IInv, TypeOK
<1>4. SessionsOfAccounts'
    BY <1>0, <1>2 DEF IInv, SessionsOfAccounts
<1>5. sess[r].user = None
    BY <1>0 DEF Sound, Unfinished
<1>6. ASSUME NEW s \in SessionIds, sess[s].user # None
      PROVE  sess'[s] = sess[s]
    BY <1>0, <1>2, <1>5, <1>6
<1>7. ASSUME NEW p \in Requests PROVE Sound(p, req[p])'
  <2>1. CASE p = r
    <3>1. req'[p] = q
        BY <1>0, <1>1, <2>1
    <3>2. req[r].kind \in {"register", "login"} /\ req[r].email \in Emails
          /\ \A s \in req[r].known : sess[s].user # None /\ s \in SessionIds
        BY <1>0 DEF Sound, Unfinished, ReqRecords
    <3> QED BY <1>1, <1>6, <2>1, <3>1, <3>2 DEF Sound, Unfinished
  <2>2. CASE p # r
    <3>1. /\ req'[p] = req[p] /\ req[p] \in ReqRecords /\ Sound(p, req[p])
          /\ p \in UserIds /\ p \in SessionIds
        BY <1>0, <1>1, <2>2 DEF IInv, UserIds, SessionIds
    <3>2. /\ users'[p] = users[p]
          /\ req[p].locked /\ req[p].client \in Clients /\ req[p].pc \in {"write", "commit"}
               /\ users[req[p].client] = Anonymous => users'[req[p].client] = Anonymous
          /\ req[p].kind = "register" /\ req[p].pc = "commit"
               /\ ~Owned(req[p].email) => ~Owned(req[p].email)'
        BY <2>2, CommitEffect
    <3>3. sess'[p] = sess[p]
        BY <1>0, <1>2, <2>2, <3>1
    <3>4. \A s \in req[p].known : s \in SessionIds
        BY <3>1 DEF ReqRecords
    <3> QED BY <1>2, <1>6, <3>1, <3>2, <3>3, <3>4 DEF Sound, Unfinished
  <2> QED BY <2>1, <2>2
<1>8. ASSUME NEW p \in Requests, NEW t \in Requests, p # t PROVE Exclusive(p, t)'
    BY <1>0, <1>1, <1>8 DEF IInv, Exclusive, HoldsRow, ClaimsEmail
<1> QED BY <1>3, <1>4, <1>7, <1>8 DEF IInv

-----------------------------------------------------------------------------
(* Requests with a session cookie                                            *)

\* A request that is let in knows the sessions it will revoke.
LEMMA KnowsSessions ==
    ASSUME NEW t \in ReqRecords, NEW known \in SUBSET SessionIds,
           NEW q, q = [t EXCEPT !.known = known]
    PROVE  /\ q \in ReqRecords
           /\ q.known = known /\ q.kind = t.kind /\ q.token = t.token /\ q.uid = t.uid
<1>1. q \in ReqRecords
    BY DEF ReqRecords
<1>2. q.known = known /\ q.kind = t.kind /\ q.token = t.token /\ q.uid = t.uid
    BY DEF ReqRecords
<1> QED BY <1>1, <1>2

LEMMA AuthenticateKeepsIInv ==
    ASSUME IInv, NEW r \in Requests, Authenticate(r)
    PROVE  IInv'
<1>0. /\ req[r].pc = "idle" /\ Sound(r, req[r]) /\ UNCHANGED <<users, owner, marks, sess, origin>>
      /\ NoRequest \in ReqRecords
      /\ sess \in [SessionIds -> [user : UserIds \cup {None}, revoked : BOOLEAN]]
    BY DEF IInv, TypeOK, Authenticate, NoRequest, ReqRecords
<1>1. PICK kind \in {"me", "logout", "logout_all"}, token \in Cookies, due \in BOOLEAN :
        LET row == sess[token]
            arrived == [NoRequest EXCEPT !.kind = kind, !.token = token, !.uid = row.user]
            usable == row.user # None /\ ~row.revoked
            known == IF kind = "logout_all"
                     THEN {s \in SessionIds : sess[s].user = row.user}
                     ELSE IF kind = "logout" THEN {token} ELSE {}
        IN  \/ req' = [req EXCEPT ![r] = [arrived EXCEPT
                         !.pc = "done", !.outcome = "unauthorized"]]
            \/ /\ usable
               /\ req' = [req EXCEPT ![r] = [arrived EXCEPT
                    !.known = known,
                    !.pc = IF due THEN "touch" ELSE IF kind = "me" THEN "done" ELSE "revoke",
                    !.outcome = IF kind = "me" /\ ~due THEN "ok" ELSE None]]
    BY DEF Authenticate
<1> PICK user : user = sess[token].user
    OBVIOUS
<1>2. token \in SessionIds /\ user \in UserIds \cup {None}
    BY <1>0 DEF Cookies, SessionIds
<1> PICK known : known = IF kind = "logout_all"
                         THEN {s \in SessionIds : sess[s].user = user}
                         ELSE IF kind = "logout" THEN {token} ELSE {}
    OBVIOUS
<1> DEFINE arrived == [NoRequest EXCEPT !.kind = kind, !.token = token, !.uid = user]
<1>3. /\ arrived \in ReqRecords /\ arrived.kind = kind /\ arrived.token = token /\ arrived.uid = user
      /\ arrived.locked = FALSE /\ arrived.known = {}
    BY <1>0, <1>2 DEF ReqRecords, NoRequest, Kinds
<1>4. CASE req' = [req EXCEPT ![r] = [arrived EXCEPT !.pc = "done", !.outcome = "unauthorized"]]
  <2> HIDE DEF arrived
  <2> DEFINE q == [arrived EXCEPT !.pc = "done", !.outcome = "unauthorized"]
  <2>1. q \in ReqRecords /\ q.pc = "done" /\ q.outcome = "unauthorized" /\ q.known = {}
      BY ZenonT(30), <1>3 DEF ReqRecords, Outcomes
  <2>2. req' = [req EXCEPT ![r] = q]
      BY <1>4
  <2> HIDE DEF q
  <2>3. Sound(r, q)
      BY <2>1 DEF Sound, Unfinished
  <2> QED BY <1>0, <2>1, <2>2, <2>3, OwnStepKeepsIInv
<1>5. PICK pc, outcome :
          /\ pc = IF due THEN "touch" ELSE IF kind = "me" THEN "done" ELSE "revoke"
          /\ outcome = IF kind = "me" /\ ~due THEN "ok" ELSE None
    OBVIOUS
<1>6. CASE /\ user # None
           /\ req' = [req EXCEPT ![r] = [arrived EXCEPT !.known = known, !.pc = pc, !.outcome = outcome]]
  <2> HIDE DEF arrived
  <2>1. PICK t : t = [arrived EXCEPT !.known = known]
      OBVIOUS
  <2>2. PICK q : q = [t EXCEPT !.pc = pc, !.outcome = outcome]
      OBVIOUS
  <2>3. known \in SUBSET SessionIds
      BY <1>2
  <2>4. t \in ReqRecords /\ t.known = known /\ t.kind = kind /\ t.token = token /\ t.uid = user
      BY <1>3, <2>1, <2>3, KnowsSessions
  <2>5. pc \in {"touch", "done", "revoke"} /\ outcome \in {"ok", None}
      BY <1>5
  <2>6. pc = "touch" \/ pc = "revoke" => outcome = None
      BY <1>5
  <2>7. /\ q \in ReqRecords
        /\ q.pc = pc /\ q.outcome = outcome /\ q.known = known /\ q.kind = kind
        /\ q.token = token /\ q.uid = user
    <3>1. outcome \in Outcomes \cup {None}
        BY <2>5 DEF Outcomes
    <3>2. q \in ReqRecords
        BY <2>2, <2>4, <2>5, <3>1 DEF ReqRecords
    <3>3. /\ q.pc = pc /\ q.outcome = outcome /\ q.known = t.known /\ q.kind = t.kind
          /\ q.token = t.token /\ q.uid = t.uid
        BY <2>2, <2>4, <2>5, <3>1 DEF ReqRecords
    <3> QED BY <2>4, <3>2, <3>3
  <2>8. req' = [req EXCEPT ![r] = q]
      BY <1>3, <1>6, <2>1, <2>2 DEF ReqRecords
  <2>9. None # "ok"
      BY ValuesAssumption DEF Outcomes
  <2>10. Sound(r, q)
      BY <1>5, <1>6, <2>5, <2>6, <2>7, <2>9 DEF Sound, Unfinished
  <2> QED BY <1>0, <2>5, <2>7, <2>8, <2>10, OwnStepKeepsIInv
<1> QED BY <1>1, <1>4, <1>5, <1>6

LEMMA TouchKeepsIInv ==
    ASSUME IInv, NEW r \in Requests, Touch(r)
    PROVE  IInv'
<1>0. /\ req[r].pc = "touch" /\ req[r] \in ReqRecords /\ Sound(r, req[r])
      /\ sess \in [SessionIds -> [user : UserIds \cup {None}, revoked : BOOLEAN]]
    BY DEF IInv, TypeOK, Touch
<1>1. UNCHANGED <<users, owner, marks, sess, origin>>
    BY <1>0 DEF Touch, Touched
<1>2. CASE req' = Finish(r, "unavailable")
    BY <1>1, <1>2, FinishKeepsIInv DEF Outcomes
<1>3. CASE req[r].kind = "me" /\ req' = Finish(r, "ok")
    BY <1>1, <1>3, FinishKeepsIInv DEF Outcomes
<1>4. CASE req[r].kind # "me" /\ req' = [req EXCEPT ![r].pc = "revoke"]
  <2> DEFINE q == [req[r] EXCEPT !.pc = "revoke"]
  <2>1. /\ req' = [req EXCEPT ![r] = q]
        /\ q \in ReqRecords /\ q.pc = "revoke" /\ q.kind = req[r].kind /\ q.outcome = req[r].outcome
        /\ q.known = req[r].known /\ q.token = req[r].token /\ q.uid = req[r].uid
      BY <1>0, <1>4 DEF ReqRecords, IInv, TypeOK
  <2> HIDE DEF q
  <2>2. Sound(r, q)
      BY <1>0, <2>1 DEF Sound, Unfinished
  <2> QED BY <1>1, <2>1, <2>2, OwnStepKeepsIInv
<1> QED BY <1>2, <1>3, <1>4 DEF Touch

\* A revocation only ever revokes, and reaches every session the request knows.
LEMMA RevokeKeepsIInv ==
    ASSUME IInv, NEW r \in Requests, Revoke(r)
    PROVE  IInv'
<1>0. /\ req[r].pc = "revoke" /\ req[r] \in ReqRecords /\ Sound(r, req[r])
      /\ req \in [Requests -> ReqRecords]
      /\ sess \in [SessionIds -> [user : UserIds \cup {None}, revoked : BOOLEAN]]
      /\ UNCHANGED <<users, owner, marks, origin>>
    BY DEF IInv, TypeOK, Revoke
<1>1. CASE req' = Finish(r, "unavailable") /\ sess' = sess
    BY <1>0, <1>1, FinishKeepsIInv DEF Outcomes
<1>2. CASE /\ sess' = [s \in SessionIds |->
                 IF IF req[r].kind = "logout" THEN s = req[r].token ELSE sess[s].user = req[r].uid
                 THEN [sess[s] EXCEPT !.revoked = TRUE] ELSE sess[s]]
           /\ req' = Finish(r, "ok")
  <2>1. /\ sess' \in [SessionIds -> [user : UserIds \cup {None}, revoked : BOOLEAN]]
        /\ \A s \in SessionIds : sess'[s].user = sess[s].user
        /\ \A s \in SessionIds : sess[s].revoked => sess'[s].revoked
      BY <1>0, <1>2
  <2>2. req[r].kind \in {"logout", "logout_all"} => \A s \in req[r].known : sess'[s].revoked
    <3>1. req[r].known \subseteq SessionIds
        BY <1>0 DEF ReqRecords
    <3> QED BY <1>0, <1>2, <3>1 DEF Sound
  <2> DEFINE q == [req[r] EXCEPT !.pc = "done", !.outcome = "ok"]
  <2>3. /\ req' = [req EXCEPT ![r] = q]
        /\ q \in ReqRecords /\ q.pc = "done" /\ q.kind = req[r].kind /\ q.known = req[r].known
      BY <1>0, <1>2 DEF Finish, ReqRecords, Outcomes
  <2> HIDE DEF q
  <2>4. TypeOK'
      BY <1>0, <2>1, <2>3 DEF IInv, TypeOK
  <2>5. SessionsOfAccounts'
      BY <1>0, <2>1 DEF IInv, SessionsOfAccounts
  <2>6. ASSUME NEW p \in Requests PROVE Sound(p, req[p])'
    <3>1. req[p].known \subseteq SessionIds /\ p \in SessionIds /\ Sound(p, req[p])
        BY <1>0 DEF ReqRecords, SessionIds, IInv
    <3>2. CASE p = r
      <4>1. req'[p] = q
          BY <1>0, <2>3, <3>2
      <4> QED BY <2>1, <2>2, <2>3, <3>1, <3>2, <4>1 DEF Sound, Unfinished
    <3>3. CASE p # r
      <4>1. req'[p] = req[p]
          BY <1>0, <2>3, <3>3
      <4> QED BY <1>0, <2>1, <3>1, <4>1 DEF Sound, Unfinished, Owned
    <3> QED BY <3>2, <3>3
  <2>7. ASSUME NEW p \in Requests, NEW t \in Requests, p # t PROVE Exclusive(p, t)'
      BY <1>0, <2>3, <2>7 DEF IInv, Exclusive, HoldsRow, ClaimsEmail
  <2> QED BY <2>4, <2>5, <2>6, <2>7 DEF IInv
<1> QED BY <1>1, <1>2 DEF Revoke

-----------------------------------------------------------------------------
(* The theorems                                                              *)

\* The application starts with users of the previous version and with accounts.
LEMMA InitEstablishesIInv == Init => IInv
<1> SUFFICES ASSUME Init PROVE IInv
    OBVIOUS
<1>1. TypeOK
  <2>1. NoRequest \in ReqRecords
      BY DEF NoRequest, ReqRecords
  <2>2. sess \in [SessionIds -> [user : UserIds \cup {None}, revoked : BOOLEAN]]
      BY DEF Init, SessionIds, UserIds
  <2> QED BY <2>1, <2>2 DEF Init, TypeOK
<1>2. SessionsOfAccounts
    BY DEF Init, SessionsOfAccounts, SessionIds, UserIds
<1>3. ASSUME NEW r \in Requests PROVE Sound(r, req[r])
    BY ValuesAssumption DEF Init, Sound, Unfinished, NoRequest, SessionIds, Kinds
<1>4. ASSUME NEW q \in Requests, NEW r \in Requests PROVE Exclusive(q, r)
    BY DEF Init, Exclusive, HoldsRow, ClaimsEmail, NoRequest
<1> QED BY <1>1, <1>2, <1>3, <1>4 DEF IInv

LEMMA NextKeepsIInv == RowLocks /\ IInv /\ [Next]_vars => IInv'
<1> SUFFICES ASSUME RowLocks, IInv, [Next]_vars PROVE IInv'
    OBVIOUS
<1>1. CASE UNCHANGED vars
    BY <1>1 DEF vars, IInv, TypeOK, SessionsOfAccounts, Sound, Owned, Exclusive, HoldsRow, ClaimsEmail
<1>2. ASSUME NEW r \in Requests,
             Refresh(r) \/ Fail(r) \/ AbortDeadlocked(r)
      PROVE  IInv'
  <2>1. CASE Refresh(r)
    <3>1. req[r].kind \in {"register", "login"}
        BY <2>1 DEF Refresh, IInv, Sound
    <3> QED BY <2>1, <3>1, FinishKeepsIInv DEF Refresh, Outcomes
  <2>2. CASE Fail(r) \/ AbortDeadlocked(r)
      BY <2>2, FinishKeepsIInv DEF Fail, AbortDeadlocked, Outcomes
  <2> QED BY <1>2, <2>1, <2>2
<1>3. ASSUME NEW r \in Requests,
             \/ RegisterLookup(r) \/ LoginLookup(r) \/ Authenticate(r)
             \/ Proceed(r)
             \/ Fail(r)
      PROVE  IInv'
    BY <1>2, <1>3, LookupKeepsIInv, AuthenticateKeepsIInv, LockKeepsIInv, WriteKeepsIInv,
       CommitKeepsIInv, TouchKeepsIInv, RevokeKeepsIInv DEF Proceed
<1> QED BY <1>1, <1>3 DEF Next

\* The invariant the theorems below rest on
THEOREM Invariance == ASSUME RowLocks PROVE Spec => []IInv
BY InitEstablishesIInv, NextKeepsIInv, PTL DEF Spec

\* Rows, sessions and transactions stay well formed; every owner is an id of a user.
THEOREM TypeCorrect == ASSUME RowLocks PROVE Spec => []TypeOK
<1>1. IInv => TypeOK
    BY DEF IInv
<1> QED BY <1>1, Invariance, PTL

\* What a logout has revoked stays revoked, for any number of concurrent logins, merges and
\* requests that touch the same sessions.
THEOREM LogoutIsFinal == ASSUME RowLocks PROVE Spec => []LoggedOutForGood
<1>1. IInv => LoggedOutForGood
    BY DEF IInv, Sound, LoggedOutForGood
<1> QED BY <1>1, Invariance, PTL

\* A row is written by a commit only, and by nothing else.
LEMMA OnlyCommitsWrite ==
    ASSUME Next, \A r \in Requests : ~Commit(r)
    PROVE  UNCHANGED <<users, owner, marks>>
BY DEF Next, Proceed, RegisterLookup, LoginLookup, Authenticate, LockClient, Write, Refresh,
       Touch, Revoke, AbortDeadlocked, Fail

\* A login moves history only from a row that is anonymous at that very moment, which it locked
\* before it looked: however registrations and logins of the same browser interleave, the history
\* of an account is never taken away.
THEOREM AnonymousDataOnly == ASSUME RowLocks PROVE Spec => OnlyAnonymousDataMoves
<1>1. ASSUME IInv, [Next]_vars
      PROVE  [\A v \in Chats : owner'[v] # owner[v] => users[owner[v]] = Anonymous]_vars
  <2>1. CASE UNCHANGED <<users, owner, marks>>
      BY <2>1
  <2>2. ASSUME NEW r \in Requests, Commit(r), NEW v \in Chats, owner'[v] # owner[v]
        PROVE  users[owner[v]] = Anonymous
    <3>1. req[r].plan = "merge" /\ owner' = Moved(owner, r)
        BY <2>2 DEF Commit
    <3>2. owner[v] = req[r].client
        BY <2>2, <3>1 DEF Moved
    <3>3. users[req[r].client] = Anonymous
        BY <1>1, <2>2, <3>1 DEF IInv, Sound, Commit
    <3> QED BY <3>2, <3>3
  <2> QED BY <1>1, <2>1, <2>2, OnlyCommitsWrite DEF vars
<1> QED BY <1>1, Invariance, PTL DEF Spec, OnlyAnonymousDataMoves

\* A commit is one entry of the ledger, or a login that changes no row.
LEMMA CommitIsAnEntry ==
    ASSUME RowLocks, IInv, NEW r \in Requests, Commit(r)
    PROVE  [Ledger!Next]_<<users, owner, marks>>
<1>0. /\ req[r].pc = "commit" /\ req[r] \in ReqRecords /\ Sound(r, req[r])
      /\ r \in UserIds /\ Clients \subseteq UserIds
    BY DEF Commit, IInv, TypeOK, UserIds
<1>1. CASE req[r].kind = "register"
  <2>1. /\ req[r].email \in Emails /\ req[r].plan \in {"create", "convert"}
        /\ \A u \in UserIds : users[u] # req[r].email
      BY <1>0, <1>1 DEF Sound, Unfinished, Owned
  <2>2. /\ users' = [users EXCEPT ![req[r].uid] = req[r].email]
        /\ owner' = owner /\ marks' = marks
      BY <2>1 DEF Commit
  <2>3. CASE req[r].plan = "create"
    <3>1. req[r].uid = r /\ users[r] = Absent
        BY <1>0, <1>1, <2>3 DEF Sound, Unfinished
    <3>2. Ledger!Open(r, req[r].email)
        BY <2>1, <2>2, <3>1 DEF Ledger!Open, Ledger!Free
    <3> QED BY <1>0, <2>1, <3>2 DEF Ledger!Next
  <2>4. CASE req[r].plan = "convert"
    <3>1. req[r].uid \in UserIds /\ users[req[r].uid] = Anonymous
        BY <1>0, <1>1, <2>4 DEF Sound
    <3>2. Ledger!Convert(req[r].uid, req[r].email)
        BY <2>1, <2>2, <3>1 DEF Ledger!Convert, Ledger!Free
    <3> QED BY <2>1, <3>1, <3>2 DEF Ledger!Next
  <2> QED BY <2>1, <2>3, <2>4
<1>2. CASE req[r].kind = "login"
  <2>1. /\ req[r].plan \in {"none", "merge"} /\ req[r].uid \in UserIds
        /\ users[req[r].uid] \in Emails
      BY <1>0, <1>2 DEF Sound, Unfinished
  <2>2. CASE req[r].plan = "none"
      BY <2>2 DEF Commit
  <2>3. CASE req[r].plan = "merge"
    <3>1. req[r].client \in UserIds /\ users[req[r].client] = Anonymous
        BY <1>0, <2>3 DEF Sound
    <3>2. Ledger!Merge(req[r].client, req[r].uid)
        BY <2>1, <2>3, <3>1 DEF Commit, Moved, Ledger!Merge
    <3> QED BY <2>1, <3>1, <3>2 DEF Ledger!Next
  <2> QED BY <2>1, <2>2, <2>3
<1> QED BY <1>0, <1>1, <1>2 DEF Sound, Unfinished

\* Concurrent registrations and logins change the users and their history exactly as some order
\* of one-at-a-time openings, conversions and merges would.
THEOREM LedgerRefinement == ASSUME RowLocks PROVE Spec => LedgerKept
<1>1. Init => Ledger!Init
    BY DEF Init, Ledger!Init
<1>2. ASSUME IInv, [Next]_vars PROVE [Ledger!Next]_(Ledger!vars)
  <2>1. CASE UNCHANGED <<users, owner, marks>>
      BY <2>1 DEF Ledger!vars
  <2>2. ASSUME NEW r \in Requests, Commit(r) PROVE [Ledger!Next]_(Ledger!vars)
      BY <1>2, <2>2, CommitIsAnEntry DEF Ledger!vars
  <2> QED BY <1>2, <2>1, <2>2, OnlyCommitsWrite DEF vars
<1> QED BY <1>1, <1>2, Invariance, PTL DEF Spec, LedgerKept, Ledger!Spec

==============================================================================
