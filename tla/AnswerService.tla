---------------------------- MODULE AnswerService ----------------------------
(***************************************************************************)
(* One call of RAGService.ask: retrieve, sanitise the hits into numbered   *)
(* sources, then at most two attempts at a language model whose replies    *)
(* are exposed only if the citation guardrail accepts them, within a total *)
(* deadline. Requests share nothing that changes but the generator, so one *)
(* request is the whole state.                                             *)
(***************************************************************************)
EXTENDS Integers, Sequences, FiniteSets

CONSTANTS
    Chunks,         \* legal chunks of the corpus
    MaxHits,        \* settings.generation_context_k, the `top_k' of the service
    Durations,      \* how long an awaited call may take, for model checking
    Deadline,       \* the 120 s of total_deadline
    CallTimeout,    \* settings.openrouter_timeout_seconds
    RetryFloor,     \* no retry with less time left than this (0.5 s)
    ShortSleep,     \* pause before a retry (0.5 s)
    RateLimitSleep, \* pause after HTTP 429 (2.5 s)
    Margin,         \* what a pause leaves of the remaining time (0.1 s)
    Unparsable,     \* a reply without the JSON object asked for
    None            \* Python's None

ASSUME TimesAssumption ==
    /\ {Deadline, CallTimeout, RetryFloor, ShortSleep, RateLimitSleep, Margin} \subseteq Nat
    /\ Durations \subseteq Nat
    /\ 0 < Margin /\ Margin < RetryFloor
ASSUME HitsAssumption == MaxHits \in Nat

\* A retrieved hit; `usable' stands for a non-blank id, content and citation label
Hits == [chunk: Chunks, usable: BOOLEAN]

\* Source ids a model may name: those of a full context and one it never saw
SourceIds == 1..(MaxHits + 1)

Statuses == {"answerable", "out_of_scope", "insufficient_evidence"}

\* The JSON object asked of the model, told apart by its status, the ids it
\* declares and the ids in its text
Replies == [status: Statuses, declared: SUBSET SourceIds, inline: SUBSET SourceIds]

\* fallback_reason of every GenerationProviderError the chain can raise
ProviderErrors ==
    {"provider_timeout", "provider_http_error", "provider_http_429",
     "provider_http_5xx", "provider_http_4xx", "provider_invalid_response",
     "provider_empty_content", "provider_finish_reason_length"}

RetryableReasons ==
    {"provider_timeout", "provider_http_429", "provider_http_5xx",
     "provider_empty_content", "provider_invalid_response",
     "generation_parse_error", "citation_parse_error",
     "citation_guardrail_rejected", "provider_finish_reason_length"}

\* What fallback_reason may say of a request that shows no model's answer
Reasons ==
    ProviderErrors \cup RetryableReasons
        \cup {"retrieval_context_empty", "insufficient_supported_claims"}

\* What the client may get
Responses ==
    [kind : {"grounded", "out_of_scope", "insufficient", "failed", "error"},
     cited : SUBSET Chunks,
     fallback : Reasons \cup {"scope_classifier_out_of_scope", None,
                              "http_500", "http_501", "http_502", "http_503"},
     failed : BOOLEAN, model : Nat, attempt : Nat]

\* Values that stand for nothing are none of the others.
ASSUME ValuesAssumption ==
    /\ Unparsable \notin Replies
    /\ None \notin Replies \cup {Unparsable} \cup Reasons \cup Responses

\* Mutant: connection errors are forgotten among the provider failures.
ReportedWithoutConnectionErrors(reason) ==
    reason \in ProviderErrors \ {"provider_http_error"}

\* The reasons ask() reports as generation_failed, with the answer "cannot
\* confirm an answer now" instead of "not enough evidence"
ReportedAsProviderFailure(reason) ==
    reason \in {"provider_timeout", "provider_http_429", "provider_http_5xx",
                "provider_http_4xx", "provider_http_error",
                "provider_empty_content", "provider_finish_reason_length",
                "provider_invalid_response"}

MaxAttempts == 2

VARIABLES
    phase,      \* "retrieving", "deciding", "calling", "sleeping", "settled" or "answered"
    clock,      \* perf_counter() - started
    sources,    \* the sanitised chunks; the source with id i is sources[i]
    attempt,    \* the loop variable
    callStart,  \* when the running or last model call started
    timeout,    \* the limit handed to httpx for it
    reply,      \* `guarded': the reply the guardrail accepted, or None
    reason,     \* fallback_reason, or None
    model,      \* the attempt whose GenerationResult `result' holds, or 0
    records,    \* attempt_records, by their fallback_reason
    response    \* what the client gets, or None

vars == <<phase, clock, sources, attempt, callStart, timeout, reply, reason,
          model, records, response>>

Init ==
    /\ phase = "retrieving"
    /\ clock = 0
    /\ sources = <<>>
    /\ attempt = 1
    /\ callStart = 0
    /\ timeout = 0
    /\ reply = None
    /\ reason = None
    /\ model = 0
    /\ records = <<>>
    /\ response = None

Remaining == Deadline - clock

-----------------------------------------------------------------------------
(* Retrieval *)

\* Mutant: a chunk that two searches found is kept twice.
UsableHits(hits) == {i \in DOMAIN hits : hits[i].usable}

\* sanitize_sources keeps the first usable hit of every chunk.
FirstHits(hits) ==
    {i \in DOMAIN hits :
        /\ hits[i].usable
        /\ \A j \in 1..(i - 1) : hits[j].usable => hits[j].chunk # hits[i].chunk}

\* The listing of some hits in rank order
InRankOrder(S) ==
    {f \in [1..Cardinality(S) -> S] : \A m, n \in DOMAIN f : m < n => f[m] < f[n]}

\* The retriever ran on the executor and returned its hits.
Retrieve ==
    /\ phase = "retrieving"
    /\ \E n \in 0..MaxHits : \E hits \in [1..n -> Hits] :
        \E kept \in InRankOrder(FirstHits(hits)) :
            sources' = [i \in DOMAIN kept |-> hits[kept[i]].chunk]
    /\ \E d \in Durations : clock' = clock + d
    /\ IF sources' = <<>>
       THEN phase' = "settled" /\ reason' = "retrieval_context_empty"
       ELSE phase' = "deciding" /\ UNCHANGED reason
    /\ UNCHANGED <<attempt, callStart, timeout, reply, model, records, response>>

ServerError(status) ==
    [kind |-> "error", cited |-> {}, fallback |-> status,
     failed |-> FALSE, model |-> 0, attempt |-> 0]

\* The retriever or the generator factory raised: ask_question turns it into
\* 501, 502 or 503, and a blank question's ValueError is nobody's (500).
RaiseHttpError ==
    /\ phase = "retrieving"
    /\ \E d \in Durations : clock' = clock + d
    /\ \E status \in {"http_500", "http_501", "http_502", "http_503"} :
        response' = ServerError(status)
    /\ phase' = "answered"
    /\ UNCHANGED <<sources, attempt, callStart, timeout, reply, reason, model, records>>

-----------------------------------------------------------------------------
(* The attempts *)

\* Mutant: a retry keeps the client's own timeout.
TimeoutOfAnyCall == CallTimeout

\* The first call runs with the client's timeout, a retry with what is left.
\* httpx applies it to connecting, to sending and to every gap in the reply,
\* each by itself: it does not bound how long the call takes.
TimeoutOfCall == IF attempt > 1 THEN Remaining ELSE CallTimeout

\* Top of the loop: call the model, or give up when the time is over.
BeginAttempt ==
    /\ phase = "deciding"
    /\ IF Remaining <= 0
       THEN /\ phase' = "settled"
            /\ reason' = "provider_timeout"
            /\ records' = Append(records, "provider_timeout")
            /\ UNCHANGED <<callStart, timeout>>
       ELSE /\ phase' = "calling"
            /\ callStart' = clock
            /\ timeout' = TimeoutOfCall
            /\ UNCHANGED <<reason, records>>
    /\ UNCHANGED <<clock, sources, attempt, reply, model, response>>

\* After a failed attempt at time `clock'': is there another one?
WorthRetrying(why) ==
    /\ attempt < MaxAttempts
    /\ why \in RetryableReasons
    /\ Deadline - clock' > RetryFloor

FailAttempt(why) ==
    /\ reason' = why
    /\ phase' = IF WorthRetrying(why) THEN "sleeping" ELSE "settled"

\* parse_and_validate_guarded_answer: None, or why the reply is not exposed
Rejection(r) ==
    IF r = Unparsable THEN "generation_parse_error"
    ELSE IF r.status = "answerable"
    THEN CASE r.declared = {} -> "insufficient_supported_claims"
           [] r.declared # {} /\ ~(r.declared \subseteq 1..Len(sources)) ->
                "citation_guardrail_rejected"
           [] r.declared # {} /\ r.declared \subseteq 1..Len(sources)
              /\ r.inline # r.declared -> "citation_parse_error"
           [] OTHER -> None
    ELSE IF r.declared \cup r.inline # {} THEN "citation_guardrail_rejected"
    ELSE None

\* A completion arrives, however long its body took: it is validated and
\* accepted, or rejected; a rejected one leaves no attempt record.
ReplyArrives ==
    /\ phase = "calling"
    /\ \E d \in Durations : clock' = clock + d
    /\ model' = attempt
    /\ \E r \in Replies \cup {Unparsable} :
        IF Rejection(r) = None
        THEN /\ reply' = r
             /\ reason' = None
             /\ records' = Append(records, None)
             /\ phase' = "settled"
        ELSE /\ FailAttempt(Rejection(r))
             /\ UNCHANGED <<reply, records>>
    /\ UNCHANGED <<sources, attempt, callStart, timeout, response>>

\* The provider fails: refused, unreachable, a malformed or cut-off completion
\* at any time, or silence for as long as the timeout.
ProviderFails ==
    /\ phase = "calling"
    /\ \E why \in ProviderErrors :
        /\ \E d \in Durations \cup {timeout} :
            /\ why = "provider_timeout" => d >= timeout
            /\ clock' = clock + d
        /\ FailAttempt(why)
        /\ records' = Append(records, why)
    /\ UNCHANGED <<sources, attempt, callStart, timeout, reply, model, response>>

\* A completion whose choice is no object raises an AttributeError, which no
\* handler of ask or ask_question knows: the client gets a 500.
CallRaises ==
    /\ phase = "calling"
    /\ \E d \in Durations : clock' = clock + d
    /\ response' = ServerError("http_500")
    /\ phase' = "answered"
    /\ UNCHANGED <<sources, attempt, callStart, timeout, reply, reason, model, records>>

Lower(a, b) == IF a < b THEN a ELSE b
Higher(a, b) == IF a > b THEN a ELSE b

\* asyncio.sleep before the retry
Pause ==
    Lower(IF reason = "provider_http_429" THEN RateLimitSleep ELSE ShortSleep,
          Higher(Margin, Remaining - Margin))

\* The event loop wakes the request when the pause is over, or later.
WakeUp ==
    /\ phase = "sleeping"
    /\ \E late \in Durations \cup {0} : clock' = clock + Pause + late
    /\ attempt' = attempt + 1
    /\ phase' = "deciding"
    /\ UNCHANGED <<sources, callStart, timeout, reply, reason, model, records, response>>

-----------------------------------------------------------------------------
(* The response *)

KindOf(r) ==
    CASE r = None -> IF ReportedAsProviderFailure(reason) THEN "failed" ELSE "insufficient"
      [] r # None /\ r.status = "answerable" -> "grounded"
      [] r # None /\ r.status = "out_of_scope" -> "out_of_scope"
      [] r # None /\ r.status = "insufficient_evidence" -> "insufficient"

FallbackOf(r) ==
    CASE r = None -> reason
      [] r # None /\ r.status = "answerable" -> None
      [] r # None /\ r.status = "out_of_scope" -> "scope_classifier_out_of_scope"
      [] r # None /\ r.status = "insufficient_evidence" -> "insufficient_supported_claims"

\* Mutant: every response shows the whole context.
CitedContext(r) == {sources[i] : i \in 1..Len(sources)}

\* Only a grounded answer shows sources, the ones it declares.
CitedBy(r) ==
    IF KindOf(r) = "grounded" THEN {sources[i] : i \in r.declared} ELSE {}

Respond ==
    /\ phase = "settled"
    /\ response' =
        [kind     |-> KindOf(reply),
         cited    |-> CitedBy(reply),
         fallback |-> FallbackOf(reply),
         failed   |-> KindOf(reply) = "failed",
         model    |-> model,
         attempt  |-> IF records = <<>> THEN 1 ELSE Len(records)]
    /\ phase' = "answered"
    /\ UNCHANGED <<clock, sources, attempt, callStart, timeout, reply, reason, model, records>>

Next ==
    \/ Retrieve
    \/ RaiseHttpError
    \/ BeginAttempt
    \/ ReplyArrives
    \/ ProviderFails
    \/ CallRaises
    \/ WakeUp
    \/ Respond

\* Every awaited call ends: the retriever's, the sleep's, and the model's,
\* because its reply is finite and no gap in it is longer than the timeout.
Spec == Init /\ [][Next]_vars /\ WF_vars(Next)

-----------------------------------------------------------------------------
TypeOK ==
    /\ phase \in {"retrieving", "deciding", "calling", "sleeping", "settled", "answered"}
    /\ clock \in Nat
    /\ sources \in Seq(Chunks)
    /\ attempt \in 1..MaxAttempts
    /\ callStart \in Nat
    /\ timeout \in Nat
    /\ reply \in Replies \cup {None}
    /\ reason \in Reasons \cup {None}
    /\ model \in 0..MaxAttempts
    /\ records \in Seq(ProviderErrors \cup {None})
    /\ response \in Responses \cup {None}
    /\ response = None <=> phase # "answered"

\* An answer shown as grounded says in its text exactly what it declares, every
\* [Sn] in it stands for one retrieved chunk, and no two stand for the same.
\* The code relies on a chain of checks in three files (sanitize_sources,
\* validate_guarded_answer and the source_map lookup of ask).
GroundedTextMatchesSources ==
    reply # None /\ reply.status = "answerable" =>
        /\ reply.inline # {}
        /\ reply.inline = reply.declared
        /\ \A i \in reply.inline :
              i <= Len(sources) /\ \A j \in 1..Len(sources) :
                  sources[i] = sources[j] => i = j

\* generation_failed tells an outage of the provider (or of the deadline) from
\* a lack of evidence: it is set exactly when the last attempt ended in one.
\* The set that decides it (rag_service.py:367) is written out by hand, apart
\* from the eight places of the chain that raise those reasons.
OutageReported ==
    response # None /\ response.kind # "error" =>
        (response.failed <=> reason \in ProviderErrors)

\* When the wait of this moment is over, if it lasts as long as was asked for
AwaitedUntil == IF phase = "sleeping" THEN clock + Pause ELSE callStart + timeout

\* The total deadline: no call and no pause begins after it, and from the
\* decision to retry on, whatever the retrieval and the first call used up, an
\* ask runs past it only by a wait that outlasts what the code asked for, a
\* late wake-up or a reply that keeps arriving in pieces. (The first call may
\* end CallTimeout after a late retrieval without any of that.)
RetryPlannedWithinDeadline ==
    [][/\ phase' \in {"calling", "sleeping"} => clock' < Deadline
       /\ (phase = "sleeping" \/ attempt > 1) /\ clock' # clock /\ clock' > Deadline =>
              clock' > AwaitedUntil]_vars

\* RAGService.ask implements AnswerPromise: exactly one outcome, grounded in
\* the evidence of this question or showing no source at all, and there is one.
Evidence == {sources[i] : i \in 1..Len(sources)}
Outcome == IF response = None THEN [kind |-> "pending", cited |-> {}]
           ELSE [kind |-> response.kind, cited |-> response.cited]
Promise == INSTANCE AnswerPromise WITH evidence <- Evidence, outcome <- Outcome

PromiseKept == Promise!Spec
=============================================================================
