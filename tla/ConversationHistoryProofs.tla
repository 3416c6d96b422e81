------------------------- MODULE ConversationHistoryProofs -------------------------
(***************************************************************************)
(* Proofs about ConversationHistory, for any conversations, exchanges and   *)
(* concurrent requests.                                                     *)
(*                                                                         *)
(* No request locks what it has read: what it relies on later may be gone   *)
(* by then, but only because somebody deleted something, which removals     *)
(* counts. So every belief of a request (Sound) is true or overtaken by a   *)
(* deletion, and whatever one request does to the rows (RowsMove) leaves    *)
(* every belief of the others in that condition.                            *)
(***************************************************************************)
EXTENDS ConversationHistory, TLAPS

\* The steps of an ask before its exchange is stored
Asking == {"answering", "recheck", "record"}

\* Something was deleted since the request arrived.
Overtaken(q) == removals > q.since

\* The conversation of the exchange of request r, with record q
Goal(r, q) == IF q.conv = None THEN r ELSE q.conv

Stored(r, q) ==
    \/ question[r] = Goal(r, q) /\ answer[r] = Goal(r, q)
    \/ conv[Goal(r, q)] = "gone"

\* What an ask believes
SoundAsk(r, q) ==
    /\ q.pc \in Asking => q.kind = "ask"
    /\ q.pc \in {"idle"} \cup Asking => question[r] = None /\ answer[r] = None
    /\ q.pc = "idle" \/ (q.pc \in Asking /\ q.conv = None) => conv[r] = "absent"
    /\ q.pc \in Asking /\ q.conv # None => Live(q.conv) \/ Overtaken(q)
    /\ q.kind = "ask" /\ q.pc = "refresh" => Stored(r, q) /\ (Live(Goal(r, q)) \/ Overtaken(q))
    /\ q.outcome = "saved" => Stored(r, q)

\* What a deletion or a change of a title believes
SoundChange(q) ==
    /\ q.pc = "write" /\ q.kind \in {"delete", "rename"} =>
          /\ q.conv \in Convs
          /\ Live(q.conv) \/ (conv[q.conv] = "gone" /\ Overtaken(q))
    /\ q.pc = "detail" =>
          /\ q.kind \in {"create", "rename"} /\ q.conv \in Convs
          /\ q.kind = "rename" => title[q.conv] # None
          /\ Live(q.conv) \/ Overtaken(q)
    /\ q.kind = "rename" /\ q.outcome = "ok" => q.conv \in Convs /\ title[q.conv] # None

\* What a request about bookmarks believes
SoundMark(q) ==
    /\ q.pc \in {"lookup", "insert", "reread", "update"} => q.kind = "put"
    /\ q.pc # "idle" /\ q.kind = "put" => q.answer \in Exchanges
    /\ q.pc = "write" /\ q.kind = "unmark" => q.answer \in Exchanges
    /\ q.pc \in {"lookup", "insert"} => answer[q.answer] # None \/ Overtaken(q)
    /\ q.pc = "reread" => marks[q.answer].row # None \/ Overtaken(q)
    /\ q.pc = "update" \/ (q.pc = "refresh" /\ q.kind = "put") =>
          q.seen.row # None /\ (marks[q.answer].row = q.seen.row \/ Overtaken(q))
    /\ q.pc \in {"messages", "conversations"} =>
          q.kind = "list" /\ ((\A x \in q.listed : answer[x] # None) \/ Overtaken(q))

Sound(r, q) ==
    /\ SoundAsk(r, q) /\ SoundChange(q) /\ SoundMark(q)
    /\ q.since <= removals
    /\ q.pc # "done" => q.outcome = None
    /\ q.outcome \in {"unsaved", "unavailable", "http_500"} /\ ~q.failed => Overtaken(q)

\* Messages are in conversations, bookmarks on messages.
RowsSound ==
    \A x \in Exchanges :
        /\ question[x] # None => Live(question[x])
        /\ answer[x] # None => Live(answer[x])
        /\ marks[x].row # None => answer[x] # None

IInv ==
    /\ TypeOK
    /\ RowsSound
    /\ \A r \in Requests : Sound(r, req[r])

-----------------------------------------------------------------------------
(* What one request does to the rows, and the others                         *)

\* Deletions last and are counted, messages and bookmarks only go by a deletion, titles stay set,
\* and the ids of the other requests' rows are left alone.
RowsMove(r) ==
    /\ removals' >= removals
    /\ \A c \in Convs :
        /\ conv[c] = "gone" => conv'[c] = "gone"
        /\ conv[c] = "live" => conv'[c] = "live" \/ (conv'[c] = "gone" /\ removals' > removals)
        /\ title[c] # None => title'[c] # None
    /\ \A x \in Exchanges :
        /\ question[x] # None => question'[x] = question[x] \/ conv'[question[x]] = "gone"
        /\ answer[x] # None => answer'[x] = answer[x] \/ (conv'[answer[x]] = "gone" /\ removals' > removals)
        /\ marks[x].row # None => marks'[x].row = marks[x].row \/ removals' > removals
    /\ \A p \in Requests \ {r} :
        /\ question[p] = None => question'[p] = None
        /\ answer[p] = None => answer'[p] = None
        /\ conv[p] = "absent" => conv'[p] = "absent"

\* A request that has not moved believes what it believed.
LEMMA OthersStaySound ==
    ASSUME IInv, TypeOK', NEW r \in Requests, RowsMove(r),
           NEW p \in Requests \ {r}, req'[p] = req[p]
    PROVE  Sound(p, req[p])'
<1> PICK q : q = req[p]
    OBVIOUS
<1>1. /\ q \in ReqRecords /\ Sound(p, q) /\ removals \in Nat /\ removals' \in Nat
      /\ p \in Convs /\ p \in Exchanges /\ None \notin Convs \cup Exchanges
      /\ title \in [Convs -> Requests \cup {None}]
    BY IdsAssumption DEF IInv, TypeOK, Convs, Exchanges
<1>2. /\ q.since \in Nat /\ q.conv \in Convs \cup {None} /\ Goal(p, q) \in Convs
      /\ q.listed \subseteq Exchanges
    BY <1>1 DEF ReqRecords, Goal
<1>3. Overtaken(q) => Overtaken(q)'
    BY <1>1, <1>2 DEF RowsMove, Overtaken
<1>4. removals' > removals => Overtaken(q)'
    BY <1>1, <1>2 DEF Sound, Overtaken
<1>5. Stored(p, q) => Stored(p, q)'
    BY <1>1, <1>2 DEF RowsMove, Stored, Goal
<1>6. \A c \in Convs : Live(c) \/ Overtaken(q) => Live(c)' \/ Overtaken(q)'
    BY <1>3, <1>4 DEF RowsMove, Live
<1>7. SoundAsk(p, q)'
  <2>1. q.pc \in {"idle"} \cup Asking => question'[p] = None /\ answer'[p] = None
      BY <1>1 DEF Sound, SoundAsk, RowsMove
  <2>2. q.pc = "idle" \/ (q.pc \in Asking /\ q.conv = None) => conv'[p] = "absent"
      BY <1>1 DEF Sound, SoundAsk, RowsMove
  <2>3. q.pc \in Asking /\ q.conv # None => (Live(q.conv) \/ Overtaken(q))'
      BY <1>1, <1>2, <1>6 DEF Sound, SoundAsk
  <2>4. q.kind = "ask" /\ q.pc = "refresh" => (Stored(p, q) /\ (Live(Goal(p, q)) \/ Overtaken(q)))'
    <3>1. Goal(p, q)' = Goal(p, q)
        BY DEF Goal
    <3> QED BY <1>1, <1>2, <1>5, <1>6, <3>1 DEF Sound, SoundAsk, Live
  <2> QED BY <1>1, <1>5, <2>1, <2>2, <2>3, <2>4 DEF Sound, SoundAsk
<1>8. SoundChange(q)'
  <2>1. ASSUME q.pc = "write", q.kind \in {"delete", "rename"}
        PROVE  q.conv \in Convs /\ (Live(q.conv) \/ (conv[q.conv] = "gone" /\ Overtaken(q)))'
      BY <1>1, <1>3, <1>4, <2>1 DEF Sound, SoundChange, RowsMove, Live
  <2>2. ASSUME q.pc = "detail"
        PROVE  /\ q.kind \in {"create", "rename"} /\ q.conv \in Convs
               /\ q.kind = "rename" => title'[q.conv] # None
               /\ (Live(q.conv) \/ Overtaken(q))'
      BY <1>1, <1>6, <2>2 DEF Sound, SoundChange, RowsMove
  <2>3. ASSUME q.kind = "rename", q.outcome = "ok"
        PROVE  q.conv \in Convs /\ title'[q.conv] # None
      BY <1>1, <2>3 DEF Sound, SoundChange, RowsMove
  <2> QED BY <2>1, <2>2, <2>3 DEF SoundChange
<1>9. SoundMark(q)'
  <2>1. ASSUME q.pc \in {"lookup", "insert"} PROVE answer'[q.answer] # None \/ Overtaken(q)'
      BY <1>1, <1>3, <1>4, <2>1 DEF Sound, SoundMark, RowsMove
  <2>2. ASSUME q.pc = "reread" PROVE marks'[q.answer].row # None \/ Overtaken(q)'
      BY <1>1, <1>3, <1>4, <2>2 DEF Sound, SoundMark, RowsMove
  <2>3. ASSUME q.pc = "update" \/ (q.pc = "refresh" /\ q.kind = "put")
        PROVE  q.seen.row # None /\ (marks'[q.answer].row = q.seen.row \/ Overtaken(q)')
      BY <1>1, <1>3, <1>4, <2>3 DEF Sound, SoundMark, RowsMove
  <2>4. ASSUME q.pc \in {"messages", "conversations"}
        PROVE  q.kind = "list" /\ ((\A x \in q.listed : answer'[x] # None) \/ Overtaken(q)')
    <3>1. (\A x \in q.listed : answer[x] # None) => (\A x \in q.listed : answer'[x] # None) \/ Overtaken(q)'
        BY <1>2, <1>4 DEF RowsMove
    <3> QED BY <1>1, <1>3, <2>4, <3>1 DEF Sound, SoundMark
  <2> QED BY <1>1, <2>1, <2>2, <2>3, <2>4 DEF Sound, SoundMark
<1>10. q.since <= removals'
    BY <1>1, <1>2 DEF Sound, RowsMove
<1> QED BY <1>1, <1>3, <1>7, <1>8, <1>9, <1>10 DEF Sound

\* A step of r, as seen by the whole system
LEMMA StepKeepsIInv ==
    ASSUME IInv, NEW r \in Requests, NEW q \in ReqRecords, req' = [req EXCEPT ![r] = q],
           conv' \in [Convs -> {"absent", "live", "gone"}],
           title' \in [Convs -> Requests \cup {None}],
           question' \in [Exchanges -> Convs \cup {None}],
           answer' \in [Exchanges -> Convs \cup {None}],
           marks' \in [Exchanges -> Marks],
           removals' \in Nat,
           RowsMove(r), RowsSound', Sound(r, q)'
    PROVE  IInv'
<1>0. req \in [Requests -> ReqRecords]
    BY DEF IInv, TypeOK
<1>1. TypeOK'
    BY <1>0 DEF TypeOK
<1>2. ASSUME NEW p \in Requests PROVE Sound(p, req[p])'
  <2>1. CASE p = r
    <3>1. req'[p] = q
        BY <1>0, <2>1
    <3> QED BY <2>1, <3>1 DEF Sound, SoundAsk, SoundChange, SoundMark, Stored, Goal, Overtaken, Live
  <2>2. CASE p # r
    <3>1. req'[p] = req[p] /\ p \in Requests \ {r}
        BY <1>0, <2>2
    <3> QED BY <1>1, <3>1, OthersStaySound
  <2> QED BY <2>1, <2>2
<1> QED BY <1>1, <1>2 DEF IInv

\* A step of r that leaves the rows alone
LEMMA OwnStepKeepsIInv ==
    ASSUME IInv, NEW r \in Requests, NEW q \in ReqRecords, req' = [req EXCEPT ![r] = q],
           UNCHANGED rows, Sound(r, q)
    PROVE  IInv'
<1>1. /\ conv' = conv /\ title' = title /\ question' = question /\ answer' = answer
      /\ marks' = marks /\ removals' = removals
    BY DEF rows
<1>2. RowsMove(r)
    BY <1>1 DEF RowsMove, IInv, TypeOK
<1>3. RowsSound'
    BY <1>1 DEF RowsSound, Live, IInv
<1>4. Sound(r, q)'
    BY <1>1 DEF Sound, SoundAsk, SoundChange, SoundMark, Stored, Goal, Overtaken, Live
<1> QED BY <1>1, <1>2, <1>3, <1>4, StepKeepsIInv DEF IInv, TypeOK

-----------------------------------------------------------------------------
(* The records of a request                                                  *)

\* q is the record of a request that has just arrived.
Fresh(q, kind, pc, c, x) ==
    /\ q \in ReqRecords /\ q.kind = kind /\ q.pc = pc /\ q.conv = c /\ q.answer = x
    /\ q.since = removals /\ q.outcome = None /\ q.failed = FALSE

LEMMA Arrives ==
    ASSUME NEW r, NEW kind \in RequestKinds,
           NEW pc \in {"answering", "write", "detail", "lookup", "messages", "done"},
           NEW c \in Convs \cup {None}, NEW x \in Exchanges \cup {None}, removals \in Nat
    PROVE  Fresh(Arrive(r, kind, pc, c, x), kind, pc, c, x)
<1>1. PICK t : t = [NoRequest EXCEPT !.kind = kind, !.pc = pc]
    OBVIOUS
<1>2. t \in ReqRecords /\ t.outcome = None /\ t.failed = FALSE /\ t.kind = kind /\ t.pc = pc
    BY <1>1 DEF NoRequest, ReqRecords, Marks, NoMark
<1>3. PICK u : u = [t EXCEPT !.conv = c]
    OBVIOUS
<1>4. u \in ReqRecords
    BY <1>2, <1>3 DEF ReqRecords
<1>5. /\ u.kind = kind /\ u.pc = pc /\ u.conv = c /\ u.outcome = None /\ u.failed = FALSE
    BY <1>2, <1>3 DEF ReqRecords
<1>6. PICK v : v = [u EXCEPT !.answer = x]
    OBVIOUS
<1>7. v \in ReqRecords
    BY <1>4, <1>6 DEF ReqRecords
<1>8. /\ v.kind = kind /\ v.pc = pc /\ v.conv = c /\ v.answer = x /\ v.outcome = None /\ v.failed = FALSE
    BY <1>4, <1>5, <1>6 DEF ReqRecords
<1>9. PICK q : q = [v EXCEPT !.since = removals]
    OBVIOUS
<1>10. Arrive(r, kind, pc, c, x) = q
    BY <1>1, <1>3, <1>6, <1>9 DEF Arrive
<1>11. q \in ReqRecords
    BY <1>7, <1>9 DEF ReqRecords
<1>12. /\ q.kind = kind /\ q.pc = pc /\ q.conv = c /\ q.answer = x /\ q.since = removals
      /\ q.outcome = None /\ q.failed = FALSE
    BY <1>7, <1>8, <1>9 DEF ReqRecords
<1> QED BY <1>10, <1>11, <1>12 DEF Fresh

LEMMA Goes ==
    ASSUME NEW t \in ReqRecords, NEW q,
           NEW pc \in {"recheck", "record", "refresh", "detail", "reread", "update", "conversations"},
           q = [t EXCEPT !.pc = pc]
    PROVE  /\ q \in ReqRecords
           /\ q.pc = pc /\ q.kind = t.kind /\ q.conv = t.conv /\ q.answer = t.answer
           /\ q.seen = t.seen /\ q.since = t.since /\ q.failed = t.failed
           /\ q.outcome = t.outcome /\ q.listed = t.listed
<1>1. q \in ReqRecords
    BY DEF ReqRecords
<1> QED BY <1>1 DEF ReqRecords

\* A request is answered truthfully.
LEMMA FinishKeepsIInv ==
    ASSUME IInv, NEW r \in Requests, NEW outcome \in Outcomes, req[r].pc # "idle",
           req' = Finish(r, outcome), UNCHANGED rows,
           outcome = "saved" => Stored(r, req[r]),
           outcome = "ok" /\ req[r].kind = "rename" => req[r].pc = "detail",
           outcome \in {"unsaved", "unavailable", "http_500"} => Overtaken(req[r])
    PROVE  IInv'
<1>1. req[r] \in ReqRecords /\ Sound(r, req[r])
    BY DEF IInv, TypeOK
<1>2. PICK q : q = [req[r] EXCEPT !.pc = "done", !.outcome = outcome]
    OBVIOUS
<1>3. q \in ReqRecords
    BY <1>1, <1>2 DEF ReqRecords
<1>4. /\ q.pc = "done" /\ q.outcome = outcome /\ q.kind = req[r].kind /\ q.conv = req[r].conv
      /\ q.answer = req[r].answer /\ q.since = req[r].since
    BY <1>1, <1>2 DEF ReqRecords
<1>5. req' = [req EXCEPT ![r] = q]
    BY <1>1, <1>2 DEF Finish, IInv, TypeOK
<1>6. Overtaken(req[r]) => Overtaken(q)
    BY <1>4 DEF Overtaken
<1>7. SoundAsk(r, q)
    BY <1>4 DEF SoundAsk, Stored, Goal, Asking
<1>8. SoundChange(q) /\ SoundMark(q)
    BY <1>1, <1>4 DEF Sound, SoundChange, SoundMark
<1>9. Sound(r, q)
    BY <1>1, <1>4, <1>6, <1>7, <1>8 DEF Sound
<1> QED BY <1>3, <1>5, <1>9, OwnStepKeepsIInv

LEMMA Answers ==
    ASSUME NEW t \in ReqRecords, NEW q, NEW outcome \in Outcomes, q = [t EXCEPT !.outcome = outcome]
    PROVE  /\ q \in ReqRecords
           /\ q.pc = t.pc /\ q.kind = t.kind /\ q.conv = t.conv /\ q.answer = t.answer
           /\ q.since = t.since /\ q.failed = t.failed /\ q.outcome = outcome
<1>1. q \in ReqRecords
    BY DEF ReqRecords
<1> QED BY <1>1 DEF ReqRecords

\* A request that is answered by its first statement
LEMMA AnsweredAtOnceKeepsIInv ==
    ASSUME IInv, NEW r \in Requests, NEW kind \in RequestKinds,
           NEW c \in Convs \cup {None}, NEW x \in Exchanges \cup {None},
           NEW outcome \in {"ok", "not_found"},
           req' = [req EXCEPT ![r] = [Arrive(r, kind, "done", c, x) EXCEPT !.outcome = outcome]],
           UNCHANGED rows,
           kind = "put" => x \in Exchanges,
           kind = "rename" => outcome = "not_found"
    PROVE  IInv'
<1>1. PICK t : t = Arrive(r, kind, "done", c, x)
    OBVIOUS
<1>2. PICK q : q = [t EXCEPT !.outcome = outcome]
    OBVIOUS
<1>3. removals \in Nat
    BY DEF IInv, TypeOK
<1>4. Fresh(t, kind, "done", c, x)
    BY <1>1, <1>3, Arrives
<1>5. /\ t \in ReqRecords /\ t.kind = kind /\ t.pc = "done" /\ t.conv = c /\ t.answer = x
      /\ t.since = removals
    BY <1>4 DEF Fresh
<1>6. outcome \in Outcomes
    BY DEF Outcomes
<1>7. q \in ReqRecords
    BY <1>2, <1>5, <1>6, Answers
<1>8. q.kind = kind /\ q.pc = "done" /\ q.conv = c /\ q.answer = x /\ q.outcome = outcome
      /\ q.since = removals
    BY <1>2, <1>5, <1>6, Answers
<1>9. SoundAsk(r, q) /\ SoundChange(q) /\ SoundMark(q)
    BY <1>8 DEF SoundAsk, SoundChange, SoundMark, Asking
<1>10. Sound(r, q)
    BY <1>3, <1>8, <1>9 DEF Sound
<1> QED BY <1>1, <1>2, <1>7, <1>10, OwnStepKeepsIInv

-----------------------------------------------------------------------------
(* POST /ask                                                                 *)

LEMMA AskArrivesKeepsIInv ==
    ASSUME IInv, NEW r \in Requests, AskArrives(r)
    PROVE  IInv'
<1>1. /\ req[r].pc = "idle" /\ Sound(r, req[r]) /\ UNCHANGED rows /\ removals \in Nat
    BY DEF AskArrives, IInv, TypeOK
<1>2. PICK c \in Convs \cup {None} :
        req' = [req EXCEPT ![r] =
            IF c = None THEN Arrive(r, "ask", "answering", c, None)
            ELSE IF Live(c)
            THEN [Arrive(r, "ask", "answering", c, None) EXCEPT !.title = title[c]]
            ELSE [Arrive(r, "ask", "done", c, None) EXCEPT !.outcome = "not_found"]]
    BY DEF AskArrives
<1>3. PICK t : t = Arrive(r, "ask", "answering", c, None)
    OBVIOUS
<1>4. Fresh(t, "ask", "answering", c, None)
    BY <1>1, <1>3, Arrives DEF RequestKinds
<1>5. /\ t \in ReqRecords /\ t.kind = "ask" /\ t.pc = "answering" /\ t.conv = c
      /\ t.since = removals /\ t.outcome = None
    BY <1>4 DEF Fresh
<1>6. None \notin Outcomes
    BY IdsAssumption
<1>7. CASE c = None \/ Live(c)
  <2>1. PICK q : q = IF c = None THEN t ELSE [t EXCEPT !.title = title[c]]
      OBVIOUS
  <2>2. q \in ReqRecords
    <3>1. c # None => title[c] \in Requests \cup {None}
        BY DEF IInv, TypeOK
    <3> QED BY <1>5, <2>1, <3>1 DEF ReqRecords
  <2>3. /\ q.kind = "ask" /\ q.pc = "answering" /\ q.conv = c /\ q.since = removals /\ q.outcome = None
      BY <1>5, <2>1 DEF ReqRecords
  <2>4. SoundAsk(r, q)
      BY <1>1, <1>6, <1>7, <2>3 DEF Sound, SoundAsk, Asking, Outcomes
  <2>5. SoundChange(q) /\ SoundMark(q)
      BY <2>3 DEF SoundChange, SoundMark
  <2>6. Sound(r, q)
      BY <1>1, <1>6, <2>3, <2>4, <2>5 DEF Sound, Outcomes
  <2>7. req' = [req EXCEPT ![r] = q]
      BY <1>2, <1>3, <1>7, <2>1
  <2> QED BY <1>1, <2>2, <2>6, <2>7, OwnStepKeepsIInv
<1>8. CASE ~(c = None \/ Live(c))
    BY <1>1, <1>2, <1>8, AnsweredAtOnceKeepsIInv DEF RequestKinds
<1> QED BY <1>7, <1>8

LEMMA AnsweredKeepsIInv ==
    ASSUME IInv, NEW r \in Requests, Answered(r)
    PROVE  IInv'
<1>1. req[r].pc = "answering" /\ req[r] \in ReqRecords /\ Sound(r, req[r]) /\ UNCHANGED rows
    BY DEF Answered, IInv, TypeOK
<1>2. CASE req' = Goto(r, "recheck")
  <2>1. PICK q : q = [req[r] EXCEPT !.pc = "recheck"]
      OBVIOUS
  <2>2. q \in ReqRecords
      BY <1>1, <2>1, Goes
  <2>3. /\ q.pc = "recheck" /\ q.kind = req[r].kind /\ q.conv = req[r].conv /\ q.since = req[r].since
        /\ q.outcome = req[r].outcome
      BY <1>1, <2>1, Goes
  <2>4. Sound(r, q)
      BY <1>1, <2>3, IdsAssumption
      DEF Sound, SoundAsk, SoundChange, SoundMark, Asking, Overtaken, Stored, Outcomes
  <2>5. req' = [req EXCEPT ![r] = q]
      BY <1>2, <2>1 DEF Goto
  <2> QED BY <1>1, <2>2, <2>4, <2>5, OwnStepKeepsIInv
<1>3. CASE req' = Finish(r, "error")
    BY <1>1, <1>3, FinishKeepsIInv DEF Outcomes
<1> QED BY <1>2, <1>3 DEF Answered

\* The conversation of an ask that has got lost was deleted since the ask arrived.
LEMMA RecheckKeepsIInv ==
    ASSUME IInv, NEW r \in Requests, Recheck(r)
    PROVE  IInv'
<1>1. req[r].pc = "recheck" /\ req[r] \in ReqRecords /\ Sound(r, req[r]) /\ UNCHANGED rows
    BY DEF Recheck, IInv, TypeOK
<1>2. CASE ~Lost(r)
  <2>1. PICK q : q = [req[r] EXCEPT !.pc = "record"]
      OBVIOUS
  <2>2. q \in ReqRecords
      BY <1>1, <2>1, Goes
  <2>3. /\ q.pc = "record" /\ q.kind = req[r].kind /\ q.conv = req[r].conv /\ q.since = req[r].since
        /\ q.outcome = req[r].outcome
      BY <1>1, <2>1, Goes
  <2>4. Sound(r, q)
      BY <1>1, <2>3, IdsAssumption
      DEF Sound, SoundAsk, SoundChange, SoundMark, Asking, Overtaken, Stored, Outcomes
  <2>5. req' = [req EXCEPT ![r] = q]
      BY <1>2, <2>1 DEF Recheck, Goto
  <2> QED BY <1>1, <2>2, <2>4, <2>5, OwnStepKeepsIInv
<1>3. CASE Lost(r)
  <2>1. Overtaken(req[r])
      BY <1>1, <1>3 DEF Lost, Sound, SoundAsk, Asking
  <2> QED BY <1>1, <1>3, <2>1, FinishKeepsIInv DEF Recheck, Outcomes
<1> QED BY <1>2, <1>3

\* The exchange is stored as a whole, under ids that nothing refers to yet.
LEMMA RecordKeepsIInv ==
    ASSUME IInv, NEW r \in Requests, Record(r)
    PROVE  IInv'
<1>1. req[r].pc = "record" /\ req[r] \in ReqRecords /\ Sound(r, req[r]) /\ req[r].kind = "ask"
    BY DEF Record, IInv, TypeOK, Sound, SoundAsk, Asking
<1>2. CASE Lost(r)
  <2>1. Overtaken(req[r])
      BY <1>1, <1>2 DEF Lost, Sound, SoundAsk, Asking
  <2> QED BY <1>1, <1>2, <2>1, FinishKeepsIInv DEF Record, Outcomes
<1>3. CASE ~Lost(r)
  <2>1. PICK g : g = TargetOf(r)
      OBVIOUS
  <2>2. PICK q : q = [req[r] EXCEPT !.pc = "refresh"]
      OBVIOUS
  <2>3. q \in ReqRecords
      BY <1>1, <2>2, Goes
  <2>4. /\ q.pc = "refresh" /\ q.kind = "ask" /\ q.conv = req[r].conv /\ q.since = req[r].since
        /\ q.outcome = req[r].outcome
      BY <1>1, <2>2, Goes
  <2>5. g \in Convs /\ g = Goal(r, q) /\ r \in Exchanges /\ g # None
      BY <1>1, <2>1, <2>4, IdsAssumption DEF TargetOf, Goal, ReqRecords, Convs, Exchanges
  <2>6. /\ conv[g] \in {"absent", "live"} /\ question[r] = None /\ answer[r] = None
        /\ \A p \in Requests \ {r} : conv[p] = "absent" => g # p
      BY <1>1, <1>3, <2>1 DEF TargetOf, Lost, Live, Sound, SoundAsk, Asking
  <2>7. /\ conv' = [conv EXCEPT ![g] = "live"] /\ title' = title
        /\ question' = [question EXCEPT ![r] = g] /\ answer' = [answer EXCEPT ![r] = g]
        /\ marks' = marks /\ removals' = removals
        /\ req' = [req EXCEPT ![r] = q]
      BY <1>3, <2>1, <2>2, <2>5 DEF Record, AnswerStored, WrittenTitle, Goto, IInv, TypeOK
  <2>8. /\ conv \in [Convs -> {"absent", "live", "gone"}]
        /\ question \in [Exchanges -> Convs \cup {None}] /\ answer \in [Exchanges -> Convs \cup {None}]
        /\ removals \in Nat
      BY DEF IInv, TypeOK
  <2>9. RowsMove(r)
      BY <2>5, <2>6, <2>7, <2>8 DEF RowsMove
  <2>10. RowsSound'
      BY <2>5, <2>6, <2>7, <2>8 DEF IInv, RowsSound, Live
  <2>11. SoundAsk(r, q)'
      BY <1>1, <2>4, <2>5, <2>7, <2>8, IdsAssumption
      DEF Sound, SoundAsk, Asking, Stored, Goal, Live, Overtaken, Outcomes
  <2>12. Sound(r, q)'
      BY <1>1, <2>4, <2>7, <2>8, <2>11, IdsAssumption
      DEF Sound, SoundChange, SoundMark, Outcomes
  <2> QED BY <2>3, <2>5, <2>7, <2>8, <2>9, <2>10, <2>12, StepKeepsIInv DEF IInv, TypeOK
<1> QED BY <1>2, <1>3

LEMMA RefreshExchangeKeepsIInv ==
    ASSUME IInv, NEW r \in Requests, RefreshExchange(r)
    PROVE  IInv'
<1>1. /\ req[r].pc = "refresh" /\ req[r].kind = "ask" /\ req[r] \in ReqRecords /\ Sound(r, req[r])
      /\ UNCHANGED rows
    BY DEF RefreshExchange, IInv, TypeOK
<1>2. TargetOf(r) = Goal(r, req[r])
    BY DEF TargetOf, Goal
<1>3. CASE Live(TargetOf(r))
    BY <1>1, <1>3, FinishKeepsIInv DEF RefreshExchange, Sound, SoundAsk, Outcomes
<1>4. CASE ~Live(TargetOf(r))
    BY <1>1, <1>2, <1>4, FinishKeepsIInv DEF RefreshExchange, Sound, SoundAsk, Outcomes
<1> QED BY <1>3, <1>4

-----------------------------------------------------------------------------
(* /conversations                                                            *)

LEMMA CreateKeepsIInv ==
    ASSUME IInv, NEW r \in Requests, CreateConversation(r)
    PROVE  IInv'
<1>1. /\ req[r].pc = "idle" /\ Sound(r, req[r]) /\ r \in Convs /\ removals \in Nat
      /\ conv \in [Convs -> {"absent", "live", "gone"}]
    BY DEF CreateConversation, IInv, TypeOK, Convs
<1>2. PICK q : q = Arrive(r, "create", "detail", r, None)
    OBVIOUS
<1>3. Fresh(q, "create", "detail", r, None)
    BY <1>1, <1>2, Arrives DEF RequestKinds
<1>4. /\ q \in ReqRecords /\ q.kind = "create" /\ q.pc = "detail" /\ q.conv = r
      /\ q.outcome = None /\ q.since = removals /\ None \notin Outcomes
    BY <1>3, IdsAssumption DEF Fresh
<1>5. /\ conv' = [conv EXCEPT ![r] = "live"] /\ req' = [req EXCEPT ![r] = q]
      /\ title' = title /\ question' = question /\ answer' = answer /\ marks' = marks
      /\ removals' = removals
    BY <1>2 DEF CreateConversation
<1>6. conv[r] = "absent"
    BY <1>1 DEF Sound, SoundAsk
<1>7. RowsMove(r)
    BY <1>1, <1>5, <1>6 DEF RowsMove, IInv, TypeOK
<1>8. RowsSound'
    BY <1>1, <1>5 DEF IInv, RowsSound, Live
<1>9. SoundChange(q)'
    BY <1>1, <1>4, <1>5 DEF SoundChange, Live
<1>10. SoundAsk(r, q)' /\ SoundMark(q)'
    BY <1>4 DEF SoundAsk, SoundMark, Asking, Outcomes
<1>11. Sound(r, q)'
    BY <1>1, <1>4, <1>5, <1>9, <1>10 DEF Sound, Outcomes
<1>12. conv' \in [Convs -> {"absent", "live", "gone"}]
    BY <1>1, <1>5
<1> QED BY <1>4, <1>5, <1>7, <1>8, <1>11, <1>12, StepKeepsIInv DEF IInv, TypeOK

LEMMA LoadKeepsIInv ==
    ASSUME IInv, NEW r \in Requests, LoadConversation(r)
    PROVE  IInv'
<1>1. req[r].pc = "idle" /\ UNCHANGED rows /\ removals \in Nat
    BY DEF LoadConversation, IInv, TypeOK
<1>2. PICK kind \in {"delete", "rename"}, c \in Convs :
        req' = [req EXCEPT ![r] =
            IF Live(c) THEN Arrive(r, kind, "write", c, None)
            ELSE [Arrive(r, kind, "done", c, None) EXCEPT !.outcome = "not_found"]]
    BY DEF LoadConversation
<1>3. kind \in RequestKinds /\ kind # "put"
    BY DEF RequestKinds
<1>4. CASE Live(c)
  <2>1. PICK q : q = Arrive(r, kind, "write", c, None)
      OBVIOUS
  <2>2. Fresh(q, kind, "write", c, None)
      BY <1>1, <1>3, <2>1, Arrives
  <2>3. SoundAsk(r, q) /\ SoundChange(q) /\ SoundMark(q)
      BY <1>4, <2>2, IdsAssumption DEF Fresh, SoundAsk, SoundChange, SoundMark, Asking, Outcomes
  <2>4. Sound(r, q)
      BY <1>1, <2>2, <2>3, IdsAssumption DEF Fresh, Sound, Outcomes
  <2> QED BY <1>1, <1>2, <1>4, <2>1, <2>2, <2>4, OwnStepKeepsIInv DEF Fresh
<1>5. CASE ~Live(c)
    BY <1>1, <1>2, <1>3, <1>5, AnsweredAtOnceKeepsIInv
<1> QED BY <1>4, <1>5

\* A deletion takes the messages and their bookmarks along, and is counted.
LEMMA DeleteKeepsIInv ==
    ASSUME IInv, NEW r \in Requests, DeleteConversation(r)
    PROVE  IInv'
<1> PICK c : c = req[r].conv
    OBVIOUS
<1>1. /\ req[r].pc = "write" /\ req[r].kind = "delete" /\ req[r] \in ReqRecords /\ Sound(r, req[r])
      /\ c \in Convs /\ conv[c] \in {"live", "gone"}
    BY DEF DeleteConversation, IInv, TypeOK, Sound, SoundChange, Live
<1>2. /\ conv' = [conv EXCEPT ![c] = "gone"] /\ title' = title
      /\ question' = [x \in Exchanges |-> IF question[x] = c THEN None ELSE question[x]]
      /\ answer' = [x \in Exchanges |-> IF answer[x] = c THEN None ELSE answer[x]]
      /\ marks' = [x \in Exchanges |-> IF answer[x] = c THEN NoMark ELSE marks[x]]
      /\ removals' = IF Live(c) THEN removals + 1 ELSE removals
      /\ req' = Finish(r, "ok")
    BY DEF DeleteConversation, MarksAfterDelete
<1>3. /\ conv \in [Convs -> {"absent", "live", "gone"}] /\ removals \in Nat
      /\ question \in [Exchanges -> Convs \cup {None}] /\ answer \in [Exchanges -> Convs \cup {None}]
      /\ marks \in [Exchanges -> Marks] /\ NoMark \in Marks /\ NoMark.row = None /\ None \notin Convs
    BY IdsAssumption DEF IInv, TypeOK, Marks, NoMark
<1>4. PICK q : q = [req[r] EXCEPT !.pc = "done", !.outcome = "ok"]
    OBVIOUS
<1>5. q \in ReqRecords
    BY <1>1, <1>4 DEF ReqRecords, Outcomes
<1>6. q.pc = "done" /\ q.outcome = "ok" /\ q.kind = "delete" /\ q.since = req[r].since
    BY <1>1, <1>4 DEF ReqRecords
<1>7. req' = [req EXCEPT ![r] = q]
    BY <1>2, <1>4 DEF Finish, IInv, TypeOK
<1>8. \A x \in Exchanges : (question[x] = c \/ answer[x] = c) => conv[c] = "live"
    BY <1>1, <1>3 DEF IInv, RowsSound, Live
<1>9. RowsMove(r)
  <2>1. removals' >= removals /\ (conv[c] = "live" => removals' > removals)
      BY <1>2, <1>3 DEF Live
  <2>2. \A d \in Convs :
          /\ conv[d] = "gone" => conv'[d] = "gone"
          /\ conv[d] = "live" => conv'[d] = "live" \/ (conv'[d] = "gone" /\ removals' > removals)
          /\ title[d] # None => title'[d] # None
      BY <1>2, <1>3, <2>1
  <2>3. ASSUME NEW x \in Exchanges
        PROVE  /\ question[x] # None => question'[x] = question[x] \/ conv'[question[x]] = "gone"
               /\ answer[x] # None => answer'[x] = answer[x] \/ (conv'[answer[x]] = "gone" /\ removals' > removals)
               /\ marks[x].row # None => marks'[x].row = marks[x].row \/ removals' > removals
      BY <1>1, <1>2, <1>3, <1>8, <2>1
  <2>4. ASSUME NEW p \in Requests \ {r}
        PROVE  /\ question[p] = None => question'[p] = None
               /\ answer[p] = None => answer'[p] = None
               /\ conv[p] = "absent" => conv'[p] = "absent"
      BY <1>1, <1>2, <1>3 DEF Exchanges, Convs
  <2> QED BY <2>1, <2>2, <2>3, <2>4 DEF RowsMove
<1>10. RowsSound'
    BY <1>1, <1>2, <1>3 DEF IInv, RowsSound, Live
<1>11. removals' \in Nat /\ removals' >= removals
    BY <1>2, <1>3
<1>12. Sound(r, q)'
  <2>1. SoundAsk(r, q)' /\ SoundChange(q)' /\ SoundMark(q)'
      BY <1>6 DEF SoundAsk, SoundChange, SoundMark, Asking
  <2>2. q.since \in Nat /\ q.since <= removals
      BY <1>1, <1>6 DEF Sound, ReqRecords
  <2>3. q.since <= removals'
      BY <1>3, <1>11, <2>2
  <2> QED BY <1>6, <2>1, <2>3 DEF Sound
<1>13. /\ conv' \in [Convs -> {"absent", "live", "gone"}]
       /\ question' \in [Exchanges -> Convs \cup {None}] /\ answer' \in [Exchanges -> Convs \cup {None}]
       /\ marks' \in [Exchanges -> Marks]
    BY <1>2, <1>3
<1> QED BY <1>2, <1>5, <1>7, <1>9, <1>10, <1>11, <1>12, <1>13, StepKeepsIInv DEF IInv, TypeOK

LEMMA RenameKeepsIInv ==
    ASSUME IInv, NEW r \in Requests, Rename(r)
    PROVE  IInv'
<1> PICK c : c = req[r].conv
    OBVIOUS
<1>1. /\ req[r].pc = "write" /\ req[r].kind = "rename" /\ req[r] \in ReqRecords /\ Sound(r, req[r])
      /\ c \in Convs /\ (Live(c) \/ Overtaken(req[r]))
      /\ conv' = conv /\ question' = question /\ answer' = answer /\ marks' = marks
      /\ removals' = removals
    BY DEF Rename, IInv, TypeOK, Sound, SoundChange
<1>2. CASE Live(c)
  <2>1. PICK q : q = [req[r] EXCEPT !.pc = "detail"]
      OBVIOUS
  <2>2. q \in ReqRecords
      BY <1>1, <2>1, Goes
  <2>3. /\ q.pc = "detail" /\ q.kind = "rename" /\ q.conv = c /\ q.since = req[r].since
        /\ q.outcome = req[r].outcome
      BY <1>1, <2>1, Goes
  <2>4. title' = [title EXCEPT ![c] = r] /\ req' = [req EXCEPT ![r] = q]
      BY <1>2, <2>1 DEF Rename, Goto
  <2>5. title \in [Convs -> Requests \cup {None}] /\ r # None /\ removals \in Nat
      BY IdsAssumption DEF IInv, TypeOK, Convs
  <2>6. RowsMove(r)
      BY <1>1, <2>4, <2>5 DEF RowsMove, IInv, TypeOK
  <2>7. RowsSound'
      BY <1>1 DEF IInv, RowsSound, Live
  <2>8. q.outcome = None /\ None \notin Outcomes
      BY <1>1, <2>3, IdsAssumption DEF Sound
  <2>9. SoundChange(q)'
      BY <1>1, <1>2, <2>3, <2>4, <2>5 DEF SoundChange, Live
  <2>10. Sound(r, q)'
      BY <1>1, <2>3, <2>8, <2>9 DEF Sound, SoundAsk, SoundMark, Asking, Outcomes
  <2>11. title' \in [Convs -> Requests \cup {None}]
      BY <2>4, <2>5
  <2> QED BY <1>1, <2>2, <2>4, <2>6, <2>7, <2>10, <2>11, StepKeepsIInv DEF IInv, TypeOK
<1>3. CASE ~Live(c)
    BY <1>1, <1>3, FinishKeepsIInv DEF Rename, rows, Outcomes
<1> QED BY <1>2, <1>3

LEMMA DetailKeepsIInv ==
    ASSUME IInv, NEW r \in Requests, ConversationDetail(r)
    PROVE  IInv'
<1>1. /\ req[r].pc = "detail" /\ Sound(r, req[r]) /\ UNCHANGED rows
      /\ (Live(req[r].conv) \/ Overtaken(req[r]))
    BY DEF ConversationDetail, IInv, Sound, SoundChange
<1>2. CASE Live(req[r].conv) /\ req' = Finish(r, "ok")
    BY <1>1, <1>2, FinishKeepsIInv DEF Outcomes
<1>3. CASE /\ ~Live(req[r].conv)
           /\ req' = Finish(r, "unavailable") \/ req' = Finish(r, NoDetail(req[r].kind))
    BY <1>1, <1>3, FinishKeepsIInv DEF NoDetail, Outcomes
<1> QED BY <1>2, <1>3 DEF ConversationDetail

-----------------------------------------------------------------------------
(* /bookmarks                                                                *)

\* A PUT that goes on believes what the next statement relies on.
LEMMA MarkGoesOn ==
    ASSUME IInv, NEW r \in Requests, UNCHANGED rows, NEW q \in ReqRecords,
           req[r].pc \in {"lookup", "insert", "reread", "update"},
           req' = [req EXCEPT ![r] = q],
           q.pc \in {"insert", "reread", "update", "refresh"},
           q.kind = req[r].kind, q.answer = req[r].answer, q.since = req[r].since,
           q.outcome = req[r].outcome,
           q.pc = "insert" => answer[q.answer] # None \/ Overtaken(q),
           q.pc = "reread" => marks[q.answer].row # None \/ Overtaken(q),
           q.pc \in {"update", "refresh"} =>
               q.seen.row # None /\ (marks[q.answer].row = q.seen.row \/ Overtaken(q))
    PROVE  IInv'
<1>1. req[r] \in ReqRecords /\ Sound(r, req[r]) /\ None \notin Outcomes
    BY IdsAssumption DEF IInv, TypeOK
<1>2. q.kind = "put" /\ q.answer \in Exchanges /\ q.outcome = None /\ q.since <= removals
    BY <1>1 DEF Sound, SoundMark
<1>3. SoundAsk(r, q) /\ SoundChange(q) /\ SoundMark(q)
    BY <1>1, <1>2 DEF SoundAsk, SoundChange, SoundMark, Asking, Outcomes
<1>4. Sound(r, q)
    BY <1>1, <1>2, <1>3 DEF Sound, Outcomes
<1> QED BY <1>4, OwnStepKeepsIInv

LEMMA PutArrivesKeepsIInv ==
    ASSUME IInv, NEW r \in Requests, PutArrives(r)
    PROVE  IInv'
<1>1. req[r].pc = "idle" /\ UNCHANGED rows /\ removals \in Nat
    BY DEF PutArrives, IInv, TypeOK
<1>2. PICK x \in Exchanges, note \in Notes :
        req' = [req EXCEPT ![r] =
            IF answer[x] # None
            THEN [Arrive(r, "put", "lookup", None, x) EXCEPT !.note = note]
            ELSE [Arrive(r, "put", "done", None, x) EXCEPT !.outcome = "not_found"]]
    BY DEF PutArrives
<1>3. CASE answer[x] # None
  <2>1. PICK t : t = Arrive(r, "put", "lookup", None, x)
      OBVIOUS
  <2>2. Fresh(t, "put", "lookup", None, x)
      BY <1>1, <2>1, Arrives DEF RequestKinds
  <2>3. PICK q : q = [t EXCEPT !.note = note]
      OBVIOUS
  <2>4. t \in ReqRecords
      BY <2>2 DEF Fresh
  <2>5. q \in ReqRecords
      BY <2>3, <2>4 DEF ReqRecords
  <2>6. /\ q.kind = t.kind /\ q.pc = t.pc /\ q.answer = t.answer /\ q.outcome = t.outcome
        /\ q.since = t.since
      BY <2>3, <2>4 DEF ReqRecords
  <2>7. q.kind = "put" /\ q.pc = "lookup" /\ q.answer = x /\ q.outcome = None /\ q.since = removals
      BY <2>2, <2>6 DEF Fresh
  <2>8. SoundAsk(r, q) /\ SoundChange(q) /\ SoundMark(q)
      BY <1>3, <2>7, IdsAssumption DEF SoundAsk, SoundChange, SoundMark, Asking, Outcomes
  <2>9. Sound(r, q)
      BY <1>1, <2>7, <2>8, IdsAssumption DEF Sound, Outcomes
  <2> QED BY <1>1, <1>2, <1>3, <2>1, <2>3, <2>5, <2>9, OwnStepKeepsIInv
<1>4. CASE ~(answer[x] # None)
    BY <1>1, <1>2, <1>4, AnsweredAtOnceKeepsIInv DEF RequestKinds
<1> QED BY <1>3, <1>4

\* q is the record t of a PUT that has now read a bookmark.
HasSeen(q, t, pc, mark) ==
    /\ q \in ReqRecords /\ q.pc = pc /\ q.seen = mark /\ q.kind = t.kind /\ q.answer = t.answer
    /\ q.since = t.since /\ q.outcome = t.outcome

LEMMA Sees ==
    ASSUME NEW t \in ReqRecords, NEW mark \in Marks, NEW pc \in {"insert", "update", "refresh"}
    PROVE  HasSeen([t EXCEPT !.seen = mark, !.pc = pc], t, pc, mark)
<1>1. PICK q : q = [t EXCEPT !.seen = mark, !.pc = pc]
    OBVIOUS
<1>2. q \in ReqRecords
    BY <1>1 DEF ReqRecords
<1>3. /\ q.pc = pc /\ q.seen = mark /\ q.kind = t.kind /\ q.answer = t.answer
      /\ q.since = t.since /\ q.outcome = t.outcome
    BY <1>1 DEF ReqRecords
<1> QED BY <1>1, <1>2, <1>3 DEF HasSeen

LEMMA PutLookupKeepsIInv ==
    ASSUME IInv, NEW r \in Requests, PutLookup(r)
    PROVE  IInv'
<1>1. /\ req[r].pc = "lookup" /\ req[r] \in ReqRecords /\ Sound(r, req[r]) /\ UNCHANGED rows
      /\ req[r].answer \in Exchanges
    BY DEF PutLookup, IInv, TypeOK, Sound, SoundMark
<1>2. PICK mark : mark = marks[req[r].answer]
    OBVIOUS
<1>3. PICK pc : pc = IF mark.row = None THEN "insert" ELSE "update"
    OBVIOUS
<1>4. PICK q : q = [req[r] EXCEPT !.seen = mark, !.pc = pc]
    OBVIOUS
<1>5. mark \in Marks /\ pc \in {"insert", "update", "refresh"}
    BY <1>1, <1>2, <1>3 DEF IInv, TypeOK
<1>6. HasSeen(q, req[r], pc, mark)
    BY <1>1, <1>4, <1>5, Sees
<1>7. /\ q \in ReqRecords /\ q.pc = pc /\ q.seen = mark /\ q.kind = req[r].kind
      /\ q.answer = req[r].answer /\ q.since = req[r].since /\ q.outcome = req[r].outcome
    BY <1>6 DEF HasSeen
<1>8. req' = [req EXCEPT ![r] = q]
    BY <1>1, <1>2, <1>3, <1>4 DEF PutLookup, IInv, TypeOK
<1>9. Overtaken(req[r]) <=> Overtaken(q)
    BY <1>7 DEF Overtaken
<1>10. q.pc = "insert" => answer[q.answer] # None \/ Overtaken(q)
    BY <1>1, <1>7, <1>9 DEF Sound, SoundMark
<1>11. q.pc = "update" => q.seen.row # None /\ marks[q.answer].row = q.seen.row
    BY <1>2, <1>3, <1>7
<1>12. q.pc \in {"insert", "update"}
    BY <1>3, <1>7
<1> QED BY <1>1, <1>7, <1>8, <1>10, <1>11, <1>12, MarkGoesOn

\* A bookmark is inserted for an answer that is there and has none.
LEMMA PutInsertKeepsIInv ==
    ASSUME IInv, NEW r \in Requests, PutInsert(r)
    PROVE  IInv'
<1> PICK x : x = req[r].answer
    OBVIOUS
<1>1. /\ req[r].pc = "insert" /\ req[r] \in ReqRecords /\ Sound(r, req[r]) /\ req[r].kind = "put"
      /\ x \in Exchanges /\ (answer[x] # None \/ Overtaken(req[r]))
      /\ conv' = conv /\ title' = title /\ question' = question /\ answer' = answer
      /\ removals' = removals
    BY DEF PutInsert, IInv, TypeOK, Sound, SoundMark
<1>2. CASE answer[x] = None \/ marks[x].row # None
  <2>1. PICK q : q = [req[r] EXCEPT !.pc = "reread"]
      OBVIOUS
  <2>2. q \in ReqRecords
      BY <1>1, <2>1, Goes
  <2>3. /\ q.pc = "reread" /\ q.kind = req[r].kind /\ q.answer = x /\ q.since = req[r].since
        /\ q.outcome = req[r].outcome
      BY <1>1, <2>1, Goes
  <2>4. req' = [req EXCEPT ![r] = q] /\ marks' = marks
      BY <1>2, <2>1 DEF PutInsert, AfterDuplicate, Goto
  <2>5. marks[q.answer].row # None \/ Overtaken(q)
      BY <1>1, <1>2, <2>3 DEF Overtaken
  <2>6. UNCHANGED rows
      BY <1>1, <2>4 DEF rows
  <2> QED BY <1>1, <2>2, <2>3, <2>4, <2>5, <2>6, MarkGoesOn
<1>3. CASE ~(answer[x] = None \/ marks[x].row # None)
  <2>1. PICK mark : mark = [row |-> r, note |-> req[r].note]
      OBVIOUS
  <2>2. PICK q : q = [req[r] EXCEPT !.seen = mark, !.pc = "refresh"]
      OBVIOUS
  <2>3. mark \in Marks /\ mark.row = r /\ r # None
      BY <1>1, <2>1, IdsAssumption DEF Marks, ReqRecords, Exchanges, Convs
  <2>4. HasSeen(q, req[r], "refresh", mark)
      BY <1>1, <2>2, <2>3, Sees
  <2>5. /\ q \in ReqRecords /\ q.pc = "refresh" /\ q.seen = mark /\ q.kind = "put"
        /\ q.answer = x /\ q.since = req[r].since /\ q.outcome = req[r].outcome
      BY <1>1, <2>4 DEF HasSeen
  <2>6. /\ marks \in [Exchanges -> Marks]
        /\ marks' = [marks EXCEPT ![x] = mark]
        /\ req' = [req EXCEPT ![r].pc = "refresh", ![r].seen = marks'[x]]
      BY <1>3, <2>1 DEF PutInsert, IInv, TypeOK
  <2>7. marks'[x] = mark /\ marks' \in [Exchanges -> Marks]
      BY <1>1, <2>3, <2>6
  <2>8. req' = [req EXCEPT ![r] = q]
    <3>1. req' = [req EXCEPT ![r] = [req[r] EXCEPT !.pc = "refresh", !.seen = mark]]
        BY <2>6, <2>7 DEF IInv, TypeOK
    <3>2. [req[r] EXCEPT !.pc = "refresh", !.seen = mark] = q
        BY <1>1, <2>2 DEF ReqRecords
    <3> QED BY <3>1, <3>2
  <2>9. RowsMove(r)
      BY <1>1, <1>3, <2>6 DEF RowsMove, IInv, TypeOK
  <2>10. RowsSound'
      BY <1>1, <1>3, <2>6 DEF RowsSound, Live, IInv
  <2>11. q.outcome = None /\ None \notin Outcomes /\ q.since <= removals'
      BY <1>1, <2>5, IdsAssumption DEF Sound
  <2>12. SoundMark(q)'
      BY <1>1, <2>3, <2>5, <2>7 DEF SoundMark
  <2>13. Sound(r, q)'
      BY <2>5, <2>11, <2>12 DEF Sound, SoundAsk, SoundChange, Asking, Outcomes
  <2> QED BY <1>1, <2>5, <2>7, <2>8, <2>9, <2>10, <2>13, StepKeepsIInv DEF IInv, TypeOK
<1> QED BY <1>2, <1>3

LEMMA PutRereadKeepsIInv ==
    ASSUME IInv, NEW r \in Requests, PutReread(r)
    PROVE  IInv'
<1> PICK x : x = req[r].answer
    OBVIOUS
<1>1. /\ req[r].pc = "reread" /\ req[r] \in ReqRecords /\ Sound(r, req[r]) /\ UNCHANGED rows
      /\ x \in Exchanges /\ (marks[x].row # None \/ Overtaken(req[r]))
    BY DEF PutReread, IInv, TypeOK, Sound, SoundMark
<1>2. CASE marks[x].row = None
    BY <1>1, <1>2, FinishKeepsIInv DEF PutReread, Outcomes
<1>3. CASE marks[x].row # None
  <2>1. PICK mark : mark = marks[x]
      OBVIOUS
  <2>2. PICK q : q = [req[r] EXCEPT !.seen = mark, !.pc = "update"]
      OBVIOUS
  <2>3. mark \in Marks
      BY <1>1, <2>1 DEF IInv, TypeOK
  <2>4. HasSeen(q, req[r], "update", mark)
      BY <1>1, <2>2, <2>3, Sees
  <2>5. /\ q \in ReqRecords /\ q.pc = "update" /\ q.seen = mark /\ q.kind = req[r].kind
        /\ q.answer = x /\ q.since = req[r].since /\ q.outcome = req[r].outcome
      BY <1>1, <2>4 DEF HasSeen
  <2>6. req' = [req EXCEPT ![r] = q]
      BY <1>1, <1>3, <2>1, <2>2 DEF PutReread, IInv, TypeOK
  <2> QED BY <1>1, <1>3, <2>1, <2>5, <2>6, MarkGoesOn
<1> QED BY <1>2, <1>3

\* Only the note of the bookmark that was read is written.
LEMMA PutUpdateKeepsIInv ==
    ASSUME IInv, NEW r \in Requests, PutUpdate(r)
    PROVE  IInv'
<1> PICK x : x = req[r].answer
    OBVIOUS
<1>1. /\ req[r].pc = "update" /\ req[r] \in ReqRecords /\ Sound(r, req[r]) /\ req[r].kind = "put"
      /\ x \in Exchanges
      /\ req[r].seen.row # None /\ (marks[x].row = req[r].seen.row \/ Overtaken(req[r]))
      /\ conv' = conv /\ title' = title /\ question' = question /\ answer' = answer
      /\ removals' = removals
    BY DEF PutUpdate, IInv, TypeOK, Sound, SoundMark
<1>2. PICK q : q = [req[r] EXCEPT !.pc = "refresh"]
    OBVIOUS
<1>3. q \in ReqRecords
    BY <1>1, <1>2, Goes
<1>4. /\ q.pc = "refresh" /\ q.kind = "put" /\ q.answer = x /\ q.seen = req[r].seen
      /\ q.since = req[r].since /\ q.outcome = req[r].outcome
    BY <1>1, <1>2, Goes
<1>5. CASE req' = Goto(r, "refresh") /\ marks' = marks
  <2>1. req' = [req EXCEPT ![r] = q] /\ UNCHANGED rows
      BY <1>1, <1>2, <1>5 DEF Goto, rows
  <2>2. Overtaken(req[r]) => Overtaken(q)
      BY <1>4 DEF Overtaken
  <2> QED BY <1>1, <1>3, <1>4, <2>1, <2>2, MarkGoesOn
<1>6. CASE /\ marks[x].row = req[r].seen.row /\ req' = Goto(r, "refresh")
           /\ marks' = [marks EXCEPT ![x].note = req[r].note]
  <2>1. req' = [req EXCEPT ![r] = q]
      BY <1>2, <1>6 DEF Goto
  <2>2. /\ marks \in [Exchanges -> Marks]
        /\ marks' \in [Exchanges -> Marks] /\ \A y \in Exchanges : marks'[y].row = marks[y].row
    <3>1. marks \in [Exchanges -> Marks] /\ req[r].note \in Notes \cup {None}
        BY <1>1 DEF IInv, TypeOK, ReqRecords
    <3> QED BY ZenonT(30), <1>6, <3>1 DEF Marks
  <2>3. RowsMove(r)
      BY <1>1, <2>2 DEF RowsMove, IInv, TypeOK
  <2>4. RowsSound'
      BY <1>1, <2>2 DEF RowsSound, Live, IInv
  <2>5. q.outcome = None /\ None \notin Outcomes /\ q.since <= removals'
      BY <1>1, <1>4, IdsAssumption DEF Sound
  <2>6. SoundMark(q)'
      BY <1>1, <1>4, <1>6, <2>2 DEF SoundMark
  <2>7. Sound(r, q)'
      BY <1>4, <2>5, <2>6 DEF Sound, SoundAsk, SoundChange, Asking, Outcomes
  <2> QED BY <1>1, <1>3, <2>1, <2>2, <2>3, <2>4, <2>7, StepKeepsIInv DEF IInv, TypeOK
<1>7. CASE marks[x].row # req[r].seen.row /\ req' = Finish(r, "unavailable") /\ marks' = marks
    BY <1>1, <1>7, FinishKeepsIInv DEF rows, Outcomes
<1> QED BY <1>5, <1>6, <1>7 DEF PutUpdate

LEMMA RefreshMarkKeepsIInv ==
    ASSUME IInv, NEW r \in Requests, RefreshMark(r)
    PROVE  IInv'
<1> PICK x : x = req[r].answer
    OBVIOUS
<1>1. /\ req[r].pc = "refresh" /\ req[r].kind = "put" /\ UNCHANGED rows
      /\ marks[x].row = req[r].seen.row \/ Overtaken(req[r])
    BY DEF RefreshMark, IInv, Sound, SoundMark
<1>2. CASE marks[x].row = req[r].seen.row
    BY <1>1, <1>2, FinishKeepsIInv DEF RefreshMark, Outcomes
<1>3. CASE marks[x].row # req[r].seen.row
    BY <1>1, <1>3, FinishKeepsIInv DEF RefreshMark, Outcomes
<1> QED BY <1>2, <1>3

LEMMA UnmarkArrivesKeepsIInv ==
    ASSUME IInv, NEW r \in Requests, UnmarkArrives(r)
    PROVE  IInv'
<1>1. req[r].pc = "idle" /\ UNCHANGED rows /\ removals \in Nat
    BY DEF UnmarkArrives, IInv, TypeOK
<1>2. PICK x \in Exchanges :
        req' = [req EXCEPT ![r] =
            IF marks[x].row = None
            THEN [Arrive(r, "unmark", "done", None, x) EXCEPT !.outcome = "ok"]
            ELSE [Arrive(r, "unmark", "write", None, x) EXCEPT !.seen = marks[x]]]
    BY DEF UnmarkArrives
<1>3. CASE marks[x].row = None
    BY <1>1, <1>2, <1>3, AnsweredAtOnceKeepsIInv DEF RequestKinds
<1>4. CASE marks[x].row # None
  <2>1. PICK t : t = Arrive(r, "unmark", "write", None, x)
      OBVIOUS
  <2>2. Fresh(t, "unmark", "write", None, x)
      BY <1>1, <2>1, Arrives DEF RequestKinds
  <2>3. PICK q : q = [t EXCEPT !.seen = marks[x]]
      OBVIOUS
  <2>4. t \in ReqRecords /\ marks[x] \in Marks
      BY <2>2 DEF Fresh, IInv, TypeOK
  <2>5. q \in ReqRecords
      BY <2>3, <2>4 DEF ReqRecords
  <2>6. /\ q.kind = t.kind /\ q.pc = t.pc /\ q.answer = t.answer /\ q.outcome = t.outcome
        /\ q.since = t.since
      BY <2>3, <2>4 DEF ReqRecords
  <2>7. q.kind = "unmark" /\ q.pc = "write" /\ q.answer = x /\ q.outcome = None /\ q.since = removals
      BY <2>2, <2>6 DEF Fresh
  <2>8. SoundAsk(r, q) /\ SoundChange(q) /\ SoundMark(q)
      BY <2>7, IdsAssumption DEF SoundAsk, SoundChange, SoundMark, Asking, Outcomes
  <2>9. Sound(r, q)
      BY <1>1, <2>7, <2>8, IdsAssumption DEF Sound, Outcomes
  <2> QED BY <1>1, <1>2, <1>4, <2>1, <2>3, <2>5, <2>9, OwnStepKeepsIInv
<1> QED BY <1>3, <1>4

\* The bookmark that was read is removed, and that is counted; another one stays.
LEMMA UnmarkKeepsIInv ==
    ASSUME IInv, NEW r \in Requests, Unmark(r)
    PROVE  IInv'
<1> PICK x : x = req[r].answer
    OBVIOUS
<1>1. /\ req[r].pc = "write" /\ req[r].kind = "unmark" /\ req[r] \in ReqRecords /\ Sound(r, req[r])
      /\ x \in Exchanges
      /\ conv' = conv /\ title' = title /\ question' = question /\ answer' = answer
      /\ req' = Finish(r, "ok")
    BY DEF Unmark, IInv, TypeOK, Sound, SoundMark
<1>2. CASE marks' = marks /\ removals' = removals
    BY <1>1, <1>2, FinishKeepsIInv DEF rows, Outcomes
<1>3. CASE marks' = [marks EXCEPT ![x] = NoMark] /\ removals' = removals + 1
  <2>1. PICK q : q = [req[r] EXCEPT !.pc = "done", !.outcome = "ok"]
      OBVIOUS
  <2>2. q \in ReqRecords
      BY <1>1, <2>1 DEF ReqRecords, Outcomes
  <2>3. /\ q.pc = "done" /\ q.outcome = "ok" /\ q.kind = "unmark" /\ q.answer = x
        /\ q.since = req[r].since
      BY <1>1, <2>1 DEF ReqRecords
  <2>4. req' = [req EXCEPT ![r] = q]
      BY <1>1, <2>1 DEF Finish, IInv, TypeOK
  <2>5. /\ removals \in Nat /\ marks \in [Exchanges -> Marks] /\ NoMark \in Marks
        /\ NoMark.row = None
      BY DEF IInv, TypeOK, Marks, NoMark
  <2>6. removals' \in Nat /\ removals' > removals /\ marks' \in [Exchanges -> Marks]
    <3>1. removals' \in Nat /\ removals' > removals
        BY <1>3, <2>5
    <3>2. marks' \in [Exchanges -> Marks]
        BY <1>3, <2>5
    <3> QED BY <3>1, <3>2
  <2>7. RowsMove(r)
      BY <1>1, <1>3, <2>5, <2>6 DEF RowsMove, IInv, TypeOK
  <2>8. RowsSound'
      BY <1>1, <1>3, <2>5 DEF RowsSound, Live, IInv
  <2>9. q.since \in Nat /\ q.since <= removals
      BY <1>1, <2>3 DEF Sound, ReqRecords
  <2>10. q.since <= removals'
      BY <2>5, <2>6, <2>9
  <2>11. Sound(r, q)'
      BY <2>3, <2>10 DEF Sound, SoundAsk, SoundChange, SoundMark, Asking
  <2> QED BY <1>1, <2>2, <2>4, <2>6, <2>7, <2>8, <2>11, StepKeepsIInv DEF IInv, TypeOK
<1> QED BY <1>2, <1>3 DEF Unmark

\* The bookmarks listed are on answers that are there now.
LEMMA ListArrivesKeepsIInv ==
    ASSUME IInv, NEW r \in Requests, ListArrives(r)
    PROVE  IInv'
<1>1. req[r].pc = "idle" /\ UNCHANGED rows /\ removals \in Nat
    BY DEF ListArrives, IInv, TypeOK
<1>2. PICK t : t = Arrive(r, "list", "messages", None, None)
    OBVIOUS
<1>3. Fresh(t, "list", "messages", None, None)
    BY <1>1, <1>2, Arrives DEF RequestKinds
<1>4. PICK listed : listed = {x \in Exchanges : marks[x].row # None}
    OBVIOUS
<1>5. PICK q : q = [t EXCEPT !.listed = listed]
    OBVIOUS
<1>6. t \in ReqRecords /\ listed \in SUBSET Exchanges
    BY <1>3, <1>4 DEF Fresh
<1>7. q \in ReqRecords
    BY <1>5, <1>6 DEF ReqRecords
<1>8. q.kind = t.kind /\ q.pc = t.pc /\ q.outcome = t.outcome /\ q.since = t.since /\ q.listed = listed
    BY <1>5, <1>6 DEF ReqRecords
<1>9. q.kind = "list" /\ q.pc = "messages" /\ q.outcome = None /\ q.since = removals
    BY <1>3, <1>8 DEF Fresh
<1>10. \A x \in q.listed : answer[x] # None
    BY <1>4, <1>8 DEF IInv, RowsSound
<1>11. SoundAsk(r, q) /\ SoundChange(q) /\ SoundMark(q)
    BY <1>9, <1>10, IdsAssumption DEF SoundAsk, SoundChange, SoundMark, Asking, Outcomes
<1>12. Sound(r, q)
    BY <1>1, <1>9, <1>11, IdsAssumption DEF Sound, Outcomes
<1>13. req' = [req EXCEPT ![r] = q]
    BY <1>2, <1>4, <1>5 DEF ListArrives
<1> QED BY <1>1, <1>7, <1>12, <1>13, OwnStepKeepsIInv

LEMMA ListKeepsIInv ==
    ASSUME IInv, NEW r \in Requests, ListMessages(r) \/ ListConversations(r)
    PROVE  IInv'
<1>1. /\ req[r].pc \in {"messages", "conversations"} /\ req[r] \in ReqRecords /\ Sound(r, req[r])
      /\ UNCHANGED rows
      /\ req[r].kind = "list" /\ ((\A x \in req[r].listed : answer[x] # None) \/ Overtaken(req[r]))
    BY DEF ListMessages, ListConversations, IInv, TypeOK, Sound, SoundMark
<1>2. CASE req' = Finish(r, "http_500") /\ ~(\A x \in req[r].listed : answer[x] # None)
    BY <1>1, <1>2, FinishKeepsIInv DEF Outcomes
<1>3. CASE req' = Finish(r, "ok")
    BY <1>1, <1>3, FinishKeepsIInv DEF Outcomes
<1>4. CASE /\ req' = Goto(r, "conversations")
           /\ \A x \in req[r].listed : answer[x] # None
  <2>1. PICK q : q = [req[r] EXCEPT !.pc = "conversations"]
      OBVIOUS
  <2>2. q \in ReqRecords
      BY <1>1, <2>1, Goes
  <2>3. /\ q.pc = "conversations" /\ q.kind = "list" /\ q.listed = req[r].listed
        /\ q.since = req[r].since /\ q.outcome = req[r].outcome
      BY <1>1, <2>1, Goes
  <2>4. SoundAsk(r, q) /\ SoundChange(q) /\ SoundMark(q) /\ q.outcome = None /\ q.since <= removals
      BY <1>1, <1>4, <2>3, IdsAssumption
      DEF Sound, SoundAsk, SoundChange, SoundMark, Asking, Outcomes
  <2>5. Sound(r, q)
      BY <2>3, <2>4, IdsAssumption DEF Sound, Outcomes
  <2>6. req' = [req EXCEPT ![r] = q]
      BY <1>4, <2>1 DEF Goto
  <2> QED BY <1>1, <2>2, <2>5, <2>6, OwnStepKeepsIInv
<1> QED BY <1>2, <1>3, <1>4 DEF ListMessages, ListConversations

-----------------------------------------------------------------------------
(* The theorems                                                              *)

LEMMA FailKeepsIInv ==
    ASSUME IInv, NEW r \in Requests, Fail(r)
    PROVE  IInv'
<1>1. /\ req[r].pc \notin {"idle", "answering", "done"} /\ req[r] \in ReqRecords /\ Sound(r, req[r])
      /\ UNCHANGED rows
    BY DEF Fail, IInv, TypeOK
<1>2. PICK outcome \in {"unsaved", "unavailable"} :
          outcome = IF req[r].kind = "ask" THEN "unsaved" ELSE "unavailable"
    OBVIOUS
<1>3. PICK t : t = [req[r] EXCEPT !.pc = "done", !.failed = TRUE]
    OBVIOUS
<1>4. PICK q : q = [t EXCEPT !.outcome = outcome]
    OBVIOUS
<1>5. t \in ReqRecords
    BY <1>1, <1>3 DEF ReqRecords
<1>6. t.pc = "done" /\ t.kind = req[r].kind /\ t.answer = req[r].answer /\ t.since = req[r].since
    BY <1>1, <1>3 DEF ReqRecords
<1>7. t.failed = TRUE
    BY <1>1, <1>3 DEF ReqRecords
<1>8. q \in ReqRecords
    BY <1>4, <1>5 DEF ReqRecords, Outcomes
<1>9. /\ q.pc = "done" /\ q.kind = req[r].kind /\ q.answer = req[r].answer
      /\ q.since = req[r].since /\ q.outcome = outcome
    BY <1>4, <1>5, <1>6 DEF ReqRecords
<1>10. q.failed = TRUE
    BY <1>4, <1>5, <1>7 DEF ReqRecords
<1>11. SoundAsk(r, q) /\ SoundChange(q) /\ SoundMark(q) /\ q.since <= removals
    BY <1>1, <1>9 DEF Sound, SoundAsk, SoundChange, SoundMark, Asking
<1>12. Sound(r, q)
    BY <1>9, <1>10, <1>11 DEF Sound
<1>13. req' = [req EXCEPT ![r] = [req[r] EXCEPT !.pc = "done", !.failed = TRUE, !.outcome = outcome]]
    BY <1>1, <1>2 DEF Fail, IInv, TypeOK
<1>14. [req[r] EXCEPT !.pc = "done", !.failed = TRUE, !.outcome = outcome] = q
    BY <1>3, <1>4
<1> QED BY <1>1, <1>8, <1>12, <1>13, <1>14, OwnStepKeepsIInv

\* The database starts with old conversations, whole exchanges and their bookmarks.
LEMMA InitEstablishesIInv == Init => IInv
<1> SUFFICES ASSUME Init PROVE IInv
    OBVIOUS
<1>1. NoMark \in Marks /\ NoMark.row = None /\ None \notin Outcomes
    BY IdsAssumption DEF Marks, NoMark
<1>2. TypeOK
  <2>1. NoRequest \in ReqRecords
      BY <1>1 DEF NoRequest, ReqRecords
  <2>2. marks \in [Exchanges -> Marks]
      BY <1>1 DEF Init, Marks, Exchanges
  <2> QED BY <2>1, <2>2 DEF Init, TypeOK, Convs
<1>3. ASSUME NEW x \in Exchanges
      PROVE  /\ question[x] # None => Live(question[x])
             /\ answer[x] # None => Live(answer[x])
             /\ marks[x].row # None => answer[x] # None
    BY IdsAssumption DEF Init, Live, Convs, Exchanges
<1>4. ASSUME NEW r \in Requests PROVE Sound(r, req[r])
  <2>1. /\ req[r].pc = "idle" /\ req[r].kind = None /\ req[r].outcome = None /\ req[r].since = 0
        /\ r \in Exchanges /\ r \in Convs /\ r \notin OldAnswers /\ r \notin OldConvs
      BY IdsAssumption DEF Init, NoRequest, Exchanges, Convs
  <2>2. conv[r] = "absent" /\ question[r] = None /\ answer[r] = None /\ removals = 0
      BY <2>1 DEF Init
  <2>3. SoundAsk(r, req[r])
      BY <1>1, <2>1, <2>2 DEF SoundAsk, Asking, Outcomes
  <2>4. SoundChange(req[r]) /\ SoundMark(req[r])
      BY <1>1, <2>1, <2>2 DEF SoundChange, SoundMark, Outcomes
  <2> QED BY <1>1, <2>1, <2>2, <2>3, <2>4 DEF Sound, Outcomes
<1> QED BY <1>2, <1>3, <1>4 DEF IInv, RowsSound

LEMMA NextKeepsIInv == IInv /\ [Next]_vars => IInv'
<1> SUFFICES ASSUME IInv, [Next]_vars PROVE IInv'
    OBVIOUS
<1>1. CASE UNCHANGED vars
    BY <1>1 DEF vars, IInv, TypeOK, RowsSound, Sound, SoundAsk, SoundChange, SoundMark, Stored,
                Goal, Overtaken, Live
<1>2. ASSUME NEW r \in Requests,
             \/ AskArrives(r) \/ Answered(r) \/ Recheck(r) \/ Record(r) \/ RefreshExchange(r)
             \/ CreateConversation(r) \/ LoadConversation(r) \/ DeleteConversation(r)
             \/ Rename(r) \/ ConversationDetail(r)
      PROVE  IInv'
    BY <1>2, AskArrivesKeepsIInv, AnsweredKeepsIInv, RecheckKeepsIInv, RecordKeepsIInv,
       RefreshExchangeKeepsIInv, CreateKeepsIInv, LoadKeepsIInv, DeleteKeepsIInv, RenameKeepsIInv,
       DetailKeepsIInv
<1>3. ASSUME NEW r \in Requests,
             \/ PutArrives(r) \/ PutLookup(r) \/ PutInsert(r) \/ PutReread(r) \/ PutUpdate(r)
             \/ RefreshMark(r) \/ UnmarkArrives(r) \/ Unmark(r)
             \/ ListArrives(r) \/ ListMessages(r) \/ ListConversations(r)
             \/ Fail(r)
      PROVE  IInv'
    BY <1>3, PutArrivesKeepsIInv, PutLookupKeepsIInv, PutInsertKeepsIInv, PutRereadKeepsIInv,
       PutUpdateKeepsIInv, RefreshMarkKeepsIInv, UnmarkArrivesKeepsIInv, UnmarkKeepsIInv,
       ListArrivesKeepsIInv, ListKeepsIInv, FailKeepsIInv
<1> QED BY <1>1, <1>2, <1>3 DEF Next

\* The invariant the theorems below rest on
THEOREM Invariance == Spec => []IInv
BY InitEstablishesIInv, NextKeepsIInv, PTL DEF Spec

\* Rows and requests stay well formed; messages and bookmarks refer to rows that are there.
THEOREM TypeCorrect == Spec => []TypeOK
<1>1. IInv => TypeOK
    BY DEF IInv
<1> QED BY <1>1, Invariance, PTL

\* history_saved = true is the truth, however many asks, renames and deletions interleave.
THEOREM SavedIsStored == Spec => []SavedMeansStored
<1>1. IInv => SavedMeansStored
  <2> SUFFICES ASSUME IInv, NEW r \in Requests, req[r].outcome = "saved"
               PROVE  \/ question[r] = TargetOf(r) /\ answer[r] = TargetOf(r)
                      \/ conv[TargetOf(r)] = "gone"
      BY DEF SavedMeansStored
  <2>1. TargetOf(r) = Goal(r, req[r])
      BY DEF TargetOf, Goal
  <2> QED BY <2>1 DEF IInv, Sound, SoundAsk, Stored
<1> QED BY <1>1, Invariance, PTL

\* A title a rename has set is never lost to an ask that had loaded the conversation before.
THEOREM TitlesStand == Spec => []RenameStands
<1>1. IInv => RenameStands
    BY DEF IInv, Sound, SoundChange, RenameStands
<1> QED BY <1>1, Invariance, PTL

\* A request fails only because the database did, or because something was deleted under it: the
\* unique constraint of bookmarks, the foreign keys and the reads of rows that may be gone never
\* fail any number of concurrent requests otherwise.
THEOREM FailuresExplained == Spec => []FailuresHaveACause
<1>1. IInv => FailuresHaveACause
    BY DEF IInv, Sound, Overtaken, FailuresHaveACause
<1> QED BY <1>1, Invariance, PTL

\* The answers that carry a bookmark
Marked == {x \in Exchanges : marks[x].row # None}

\* Each statement that writes is one event of the history promised, or writes nothing.
LEMMA StepIsAnEvent ==
    ASSUME IInv, NEW r \in Requests,
           \/ Record(r) \/ CreateConversation(r) \/ DeleteConversation(r)
           \/ PutInsert(r) \/ PutUpdate(r) \/ Unmark(r)
    PROVE  [History!Next]_(History!vars)
<1>1. /\ Sound(r, req[r]) /\ req[r] \in ReqRecords /\ r \in Convs /\ r \in Exchanges
      /\ conv \in [Convs -> {"absent", "live", "gone"}] /\ marks \in [Exchanges -> Marks]
      /\ question \in [Exchanges -> Convs \cup {None}] /\ answer \in [Exchanges -> Convs \cup {None}]
      /\ None \notin Convs /\ None \notin Exchanges
    BY IdsAssumption DEF IInv, TypeOK, Convs, Exchanges
<1>2. CASE Record(r)
  <2>1. CASE Lost(r)
      BY <1>2, <2>1 DEF Record, rows, History!vars
  <2>2. CASE ~Lost(r)
    <3>1. PICK g : g = TargetOf(r)
        OBVIOUS
    <3>2. g \in Convs /\ conv[g] # "gone" /\ answer[r] = None
        BY <1>1, <1>2, <2>2, <3>1
        DEF Record, TargetOf, Lost, Live, Sound, SoundAsk, Asking, ReqRecords
    <3>3. conv' = [conv EXCEPT ![g] = "live"] /\ answer' = [answer EXCEPT ![r] = g] /\ marks' = marks
        BY <1>2, <2>2, <3>1 DEF Record, AnswerStored
    <3>4. History!Record(r, g)
        BY <3>2, <3>3 DEF History!Record
    <3> QED BY <1>1, <3>2, <3>4 DEF History!Next
  <2> QED BY <2>1, <2>2
<1>3. CASE CreateConversation(r)
  <2>1. History!Create(r)
      BY <1>1, <1>3 DEF CreateConversation, Sound, SoundAsk, History!Create
  <2> QED BY <1>1, <2>1 DEF History!Next
<1>4. CASE DeleteConversation(r)
  <2>1. PICK c : c = req[r].conv
      OBVIOUS
  <2>2. /\ c \in Convs /\ conv[c] \in {"live", "gone"}
        /\ conv' = [conv EXCEPT ![c] = "gone"]
        /\ answer' = [x \in Exchanges |-> IF answer[x] = c THEN None ELSE answer[x]]
        /\ marks' = [x \in Exchanges |-> IF answer[x] = c THEN NoMark ELSE marks[x]]
      BY <1>1, <1>4, <2>1 DEF DeleteConversation, MarksAfterDelete, Sound, SoundChange, Live
  <2>3. CASE conv[c] = "live"
    <3>1. Marked' = {x \in Marked : answer[x] # c}
        BY <1>1, <2>2 DEF Marked, NoMark
    <3>2. History!Delete(c)
        BY <1>1, <2>2, <2>3, <3>1 DEF History!Delete, Marked
    <3> QED BY <2>2, <3>2 DEF History!Next
  <2>4. CASE conv[c] = "gone"
    <3>1. \A x \in Exchanges : answer[x] # c
        BY <1>1, <2>2, <2>4 DEF IInv, RowsSound, Live
    <3>2. conv' = conv /\ answer' = answer /\ marks' = marks
        BY <1>1, <2>2, <2>4, <3>1
    <3> QED BY <3>2 DEF History!vars
  <2> QED BY <2>2, <2>3, <2>4
<1>5. CASE PutInsert(r)
  <2>1. PICK x : x = req[r].answer
      OBVIOUS
  <2>2. x \in Exchanges /\ conv' = conv /\ answer' = answer
      BY <1>1, <1>5, <2>1 DEF PutInsert, Sound, SoundMark
  <2>3. CASE answer[x] = None \/ marks[x].row # None
      BY <1>5, <2>1, <2>2, <2>3 DEF PutInsert, History!vars
  <2>4. CASE ~(answer[x] = None \/ marks[x].row # None)
    <3>1. PICK mark : mark = [row |-> r, note |-> req[r].note]
        OBVIOUS
    <3>2. marks' = [marks EXCEPT ![x] = mark]
        BY <1>5, <2>1, <2>4, <3>1 DEF PutInsert
    <3>3. mark.row = r /\ r # None
        BY <1>1, <3>1
    <3>4. Marked' = Marked \cup {x}
        BY <1>1, <2>2, <3>2, <3>3 DEF Marked
    <3>5. History!Mark(x)
        BY <2>2, <2>4, <3>4 DEF History!Mark, Marked
    <3> QED BY <2>2, <3>5 DEF History!Next
  <2> QED BY <2>3, <2>4
<1>6. CASE PutUpdate(r)
  <2>1. PICK x : x = req[r].answer
      OBVIOUS
  <2>2. x \in Exchanges /\ conv' = conv /\ answer' = answer
      BY <1>1, <1>6, <2>1 DEF PutUpdate, Sound, SoundMark
  <2>3. marks' = marks \/ marks' = [marks EXCEPT ![x].note = req[r].note]
      BY <1>6, <2>1 DEF PutUpdate
  <2>4. \A y \in Exchanges : marks'[y].row = marks[y].row
      BY <1>1, <2>3 DEF Marks
  <2>5. Marked' = Marked
      BY <2>4 DEF Marked
  <2> QED BY <2>2, <2>5 DEF History!vars, Marked
<1>7. CASE Unmark(r)
  <2>1. PICK x : x = req[r].answer
      OBVIOUS
  <2>2. x \in Exchanges /\ conv' = conv /\ answer' = answer
      BY <1>1, <1>7, <2>1 DEF Unmark, Sound, SoundMark
  <2>3. CASE marks' = marks
      BY <2>2, <2>3 DEF History!vars
  <2>4. CASE marks' = [marks EXCEPT ![x] = NoMark]
    <3>1. Marked' = Marked \ {x}
        BY <1>1, <2>2, <2>4 DEF Marked, NoMark
    <3>2. History!Unmark(x)
        BY <2>2, <3>1 DEF History!Unmark, Marked
    <3> QED BY <2>2, <3>2 DEF History!Next
  <2> QED BY <1>7, <2>1, <2>3, <2>4 DEF Unmark
<1> QED BY <1>2, <1>3, <1>4, <1>5, <1>6, <1>7

\* However requests interleave and wherever one fails, the committed rows go through a history of
\* whole exchanges, single bookmarks and deletions that take everything along and last.
THEOREM HistoryRefinement == Spec => HistoryKept
<1>1. Init => History!Init
  <2> SUFFICES ASSUME Init PROVE History!Init
      OBVIOUS
  <2>1. \A x \in Exchanges : answer[x] = None \/ (answer[x] \in Convs /\ conv[answer[x]] = "live")
      BY IdsAssumption DEF Init, Convs
  <2>2. answer \in [Exchanges -> {c \in Convs : conv[c] = "live"} \cup {None}]
      BY <2>1 DEF Init, Convs
  <2>3. conv \in [Convs -> {"absent", "live"}]
      BY DEF Init
  <2>4. \A x \in Exchanges : marks[x].row # None => answer[x] # None
      BY InitEstablishesIInv DEF IInv, RowsSound
  <2> QED BY <2>2, <2>3, <2>4 DEF History!Init
<1>2. ASSUME IInv, [Next]_vars PROVE [History!Next]_(History!vars)
  <2>1. CASE UNCHANGED <<conv, answer, marks>>
      BY <2>1 DEF History!vars
  <2>2. ASSUME NEW r \in Requests,
               \/ Record(r) \/ CreateConversation(r) \/ DeleteConversation(r)
               \/ PutInsert(r) \/ PutUpdate(r) \/ Unmark(r)
        PROVE  [History!Next]_(History!vars)
      BY <1>2, <2>2, StepIsAnEvent
  <2>3. ASSUME NEW r \in Requests,
               \/ AskArrives(r) \/ Answered(r) \/ Recheck(r) \/ RefreshExchange(r)
               \/ LoadConversation(r) \/ Rename(r) \/ ConversationDetail(r)
               \/ PutArrives(r) \/ PutLookup(r) \/ PutReread(r) \/ RefreshMark(r)
               \/ UnmarkArrives(r) \/ ListArrives(r) \/ ListMessages(r) \/ ListConversations(r)
               \/ Fail(r)
        PROVE  UNCHANGED <<conv, answer, marks>>
      BY <2>3 DEF AskArrives, Answered, Recheck, RefreshExchange, LoadConversation, Rename,
           ConversationDetail, PutArrives, PutLookup, PutReread, RefreshMark, UnmarkArrives, ListArrives,
           ListMessages, ListConversations, Fail, rows
  <2> QED BY <1>2, <2>1, <2>2, <2>3 DEF Next, vars
<1> QED BY <1>1, <1>2, Invariance, PTL DEF Spec, HistoryKept, History!Spec

====================================================================================
