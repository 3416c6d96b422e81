----------------------------- MODULE RuntimeGate -----------------------------
(***************************************************************************)
(* The readiness gate of the question-answering runtime and what it        *)
(* protects.                                                               *)
(*                                                                         *)
(* Every POST /ask and every GET /ready runs `evaluate_cached_runtime_gate' *)
(* on a worker thread of its own: under `_CACHE_LOCK' it either hands out  *)
(* the cached report or probes the runtime, which builds the sparse        *)
(* retriever (segmenting the whole corpus with the Java-backed VnCoreNLP   *)
(* segmenter), runs one smoke query through it and warms the dense model.  *)
(* An ask that the gate lets through later queues its retrieval on         *)
(* `_RETRIEVAL_EXECUTOR', whose worker calls the very same cached          *)
(* retrievers, without the lock.                                           *)
(*                                                                         *)
(* Nothing but this protocol keeps two threads out of the segmenter.       *)
(***************************************************************************)
EXTENDS Naturals, Sequences, FiniteSets

CONSTANTS
    Asks,           \* POST /ask requests
    ReadyProbes,    \* GET /ready requests
    Queries,        \* question texts, as the analysis cache tells them apart
    SmokeQuery,     \* settings.runtime_smoke_query
    Nil,            \* Python's None
    ReadyTTL,       \* settings.runtime_readiness_ttl_seconds
    FailureTTL,     \* settings.runtime_readiness_failure_ttl_seconds
    MaxClock        \* bound on time.monotonic(), for model checking

Requests == Asks \cup ReadyProbes

\* Mutant: a retrieval executor with a second worker.
MaxWorkersTwo == 2

\* ThreadPoolExecutor(max_workers=1, thread_name_prefix="legal-retrieval")
MaxWorkers == 1
Workers == 1..MaxWorkers

Threads == Requests \cup Workers

ASSUME ThreadsAssumption ==
    /\ Asks \cap ReadyProbes = {}
    /\ Requests \cap Workers = {}
    /\ Nil \notin Threads
    /\ Nil # "ready" /\ Nil # "not_ready"
ASSUME QueriesAssumption == SmokeQuery \in Queries
ASSUME LifetimesAssumption ==
    /\ ReadyTTL \in Nat
    /\ FailureTTL \in Nat
    /\ MaxClock \in Nat

Methods == {"sparse", "dense", "hybrid"}

\* One retrieval handed to the executor: the closure `retrieve' of RAGService.ask
Jobs == [request: Asks, query: Queries, method: Methods]

ASSUME JobsAssumption == Nil \notin Jobs

VARIABLES
    monotonic,  \* time.monotonic()
    pc,         \* where each thread is
    cacheLock,  \* owner of _CACHE_LOCK, or Nil
    report,     \* _CACHED_REPORT: Nil, "ready" or "not_ready"
    expiresAt,  \* _CACHE_EXPIRES_AT
    now,        \* the local `now' of the gate call that holds the lock
    failed,     \* the local `errors' of the running probe is not empty
    verdict,    \* the status each request's gate call returned
    sparse,     \* the lru_cache of _default_sparse_retriever is filled
    analysed,   \* keys of that retriever's _analysis_cache
    denseModel, \* the dense retriever's _embedding_model is loaded
    queue,      \* work queue of _RETRIEVAL_EXECUTOR
    job         \* the job each executor worker runs, or Nil

gateVars == <<monotonic, pc, cacheLock, report, expiresAt, now, failed, verdict,
          sparse, analysed, denseModel, queue, job>>

cacheVars == <<cacheLock, report, expiresAt, now, verdict>>
executorVars == <<queue, job>>
retrieverVars == <<sparse, analysed, denseModel>>

\* Program points inside a retriever call, shared by probes and by the worker
CallSteps == {"provide", "building", "analyse", "segmenting", "dense", "loading"}
\* Program points between BeginProbe and StoreReport, where the lock is held
ProbeSteps == CallSteps \cup {"java", "store"}
RequestSteps == ProbeSteps \cup
    {"start", "checked", "admitted", "queued", "retrieved", "failed",
     "refused", "done"}

\* Threads executing Java code of the VnCoreNLP segmenter
InSegmenter == {t \in Threads : pc[t] \in {"building", "segmenting"}}

-----------------------------------------------------------------------------
GateInit ==
    /\ monotonic = 0
    /\ pc = [t \in Threads |-> IF t \in Requests THEN "start" ELSE "idle"]
    /\ cacheLock = Nil
    /\ report = Nil
    /\ expiresAt = 0
    /\ now = 0
    /\ failed = FALSE
    /\ verdict = [r \in Requests |-> Nil]
    /\ sparse = FALSE
    /\ analysed = {}
    /\ denseModel = FALSE
    /\ queue = <<>>
    /\ job = [w \in Workers |-> Nil]

Goto(t, step) == pc' = [pc EXCEPT ![t] = step]

\* The monotonic clock advances at any time, bounded by MaxClock.
Tick ==
    /\ monotonic < MaxClock
    /\ monotonic' = monotonic + 1
    /\ UNCHANGED <<pc, failed, cacheVars, retrieverVars, executorVars>>

-----------------------------------------------------------------------------
(* evaluate_cached_runtime_gate *)

CacheLockFree == cacheLock = Nil

CacheFresh == report # Nil /\ monotonic < expiresAt

\* The cached report is fresh: take the lock, copy the report, release it.
ServeCachedReport(r) ==
    /\ pc[r] = "start"
    /\ CacheLockFree
    /\ CacheFresh
    /\ verdict' = [verdict EXCEPT ![r] = report]
    /\ Goto(r, "checked")
    /\ UNCHANGED <<monotonic, cacheLock, report, expiresAt, now, failed,
                   retrieverVars, executorVars>>

\* No fresh report: keep the lock, remember the time and start to probe.
BeginProbe(r) ==
    /\ pc[r] = "start"
    /\ CacheLockFree
    /\ ~CacheFresh
    /\ cacheLock' = r
    /\ now' = monotonic
    /\ failed' = FALSE
    /\ Goto(r, "java")
    /\ UNCHANGED <<monotonic, report, expiresAt, verdict, retrieverVars, executorVars>>

\* `java -version' and the VnCoreNLP files; on any error the sparse probe is
\* skipped, which is an error of the report too.
ProbeJavaAndAssets(r) ==
    /\ pc[r] = "java"
    /\ \E ok \in BOOLEAN :
        /\ failed' = ~ok
        /\ Goto(r, IF ok THEN "provide" ELSE "dense")
    /\ UNCHANGED <<monotonic, cacheVars, retrieverVars, executorVars>>

\* The lifetime of a report starts when its probe started.
Expiry(status) == now + (IF status = "ready" THEN ReadyTTL ELSE FailureTTL)

\* Mutant: the lock is not released when the report has been stored.
StoreReportKeepingLock(r) ==
    /\ pc[r] = "store"
    /\ \E status \in {"ready", "not_ready"} :
        /\ status = "ready" => ~failed
        /\ report' = status
        /\ expiresAt' = Expiry(status)
        /\ verdict' = [verdict EXCEPT ![r] = status]
    /\ Goto(r, "checked")
    /\ UNCHANGED <<monotonic, cacheLock, now, failed, retrieverVars, executorVars>>

\* The generation factory is tried last, then the report is cached and the
\* lock released.
StoreReport(r) ==
    /\ pc[r] = "store"
    /\ \E generation \in BOOLEAN :
        LET status == IF failed \/ ~generation THEN "not_ready" ELSE "ready" IN
        /\ report' = status
        /\ expiresAt' = Expiry(status)
        /\ verdict' = [verdict EXCEPT ![r] = status]
    /\ cacheLock' = Nil
    /\ Goto(r, "checked")
    /\ UNCHANGED <<monotonic, now, failed, retrieverVars, executorVars>>

-----------------------------------------------------------------------------
(* A retriever call, by a probe (under the lock) or by an executor worker *)

IsProbe(t) == t \in Requests

\* The query and the method of the call thread t is making
QueryOf(t) == IF IsProbe(t) THEN SmokeQuery ELSE job[t].query
UsesDense(t) == IsProbe(t) \/ job[t].method # "sparse"

\* Thread t leaves its retriever call. A probe goes on to store its report; a
\* worker completes the future the ask awaits and becomes idle.
EndCall(t, ok) ==
    IF IsProbe(t)
    THEN /\ Goto(t, "store")
         /\ failed' = (failed \/ ~ok)
         /\ job' = job
    ELSE /\ pc' = [pc EXCEPT ![t] = "idle",
                             ![job[t].request] = IF ok THEN "retrieved" ELSE "failed"]
         /\ failed' = failed
         /\ job' = [job EXCEPT ![t] = Nil]

\* The sparse call failed: a probe notes the error and goes on with the dense
\* retriever, a worker's call is over.
SparseFailed(t) ==
    IF IsProbe(t)
    THEN /\ Goto(t, "dense")
         /\ failed' = TRUE
         /\ job' = job
    ELSE EndCall(t, FALSE)

\* The sparse retriever answered.
SparseAnswered(t) ==
    IF UsesDense(t)
    THEN /\ Goto(t, "dense")
         /\ UNCHANGED <<failed, job>>
    ELSE EndCall(t, TRUE)

\* The analysed query is scored; the smoke query may find nothing, which a
\* probe reports as an error, while an ask goes on with the hits it has.
SparseScored(t) ==
    \/ SparseAnswered(t)
    \/ IsProbe(t) /\ SparseFailed(t)

\* _default_sparse_retriever(): lru_cache hit, or start to build the index.
ProvideSparse(t) ==
    /\ pc[t] = "provide"
    /\ Goto(t, IF sparse THEN "analyse" ELSE "building")
    /\ UNCHANGED <<monotonic, failed, cacheVars, retrieverVars, executorVars>>

\* from_documents segmented every chunk. lru_cache keeps the first result and
\* never an exception.
BuildSparse(t) ==
    /\ pc[t] = "building"
    /\ \/ /\ sparse' = TRUE
          /\ analysed' = IF sparse THEN analysed ELSE {}
          /\ Goto(t, "analyse")
          /\ UNCHANGED <<failed, job>>
       \/ /\ SparseFailed(t)
          /\ UNCHANGED <<sparse, analysed>>
    /\ UNCHANGED <<monotonic, cacheVars, denseModel, queue>>

\* A query analysed before never enters the segmenter again.
AnalysisCached(t) == QueryOf(t) \in analysed

\* analyze(): answer from the analysis cache, or call the segmenter.
AnalyseQuery(t) ==
    /\ pc[t] = "analyse"
    /\ \/ /\ AnalysisCached(t)
          /\ SparseScored(t)
       \/ /\ ~AnalysisCached(t)
          /\ Goto(t, "segmenting")
          /\ UNCHANGED <<failed, job>>
    /\ UNCHANGED <<monotonic, cacheVars, retrieverVars, queue>>

\* The segmenter returned, and its tokens are cached before scoring, or it raised.
SegmentQuery(t) ==
    /\ pc[t] = "segmenting"
    /\ \/ /\ analysed' = analysed \cup {QueryOf(t)}
          /\ SparseScored(t)
       \/ /\ SparseFailed(t)
          /\ UNCHANGED analysed
    /\ UNCHANGED <<monotonic, cacheVars, sparse, denseModel, queue>>

\* warmup() or retrieve() of the dense component: embed (and query Qdrant)
\* with the loaded model, which may fail, or load the model first.
CallDense(t) ==
    /\ pc[t] = "dense"
    /\ IF denseModel
       THEN \E ok \in BOOLEAN : EndCall(t, ok)
       ELSE /\ Goto(t, "loading")
            /\ UNCHANGED <<failed, job>>
    /\ UNCHANGED <<monotonic, cacheVars, retrieverVars, queue>>

LoadDenseModel(t) ==
    /\ pc[t] = "loading"
    /\ \/ /\ denseModel' = TRUE
          /\ Goto(t, "dense")
          /\ UNCHANGED <<failed, job>>
       \/ /\ EndCall(t, FALSE)
          /\ UNCHANGED denseModel
    /\ UNCHANGED <<monotonic, cacheVars, sparse, analysed, queue>>

RetrieverCall(t) ==
    \/ ProvideSparse(t)
    \/ BuildSparse(t)
    \/ AnalyseQuery(t)
    \/ SegmentQuery(t)
    \/ CallDense(t)
    \/ LoadDenseModel(t)

-----------------------------------------------------------------------------
(* The endpoints behind the gate, and the executor *)

\* Mutant: an ask is let through without the runtime report.
AuthorisedWithoutRuntime(a, othersReady) == othersReady

\* GET /ready answers with the report; an ask needs the release files and the
\* Qdrant index (`othersReady') to be ready too, or is refused with 503.
Authorised(a, othersReady) == verdict[a] = "ready" /\ othersReady

AnswerReadyProbe(r) ==
    /\ r \in ReadyProbes
    /\ pc[r] = "checked"
    /\ Goto(r, "done")
    /\ UNCHANGED <<monotonic, failed, cacheVars, retrieverVars, executorVars>>

AuthoriseAsk(a) ==
    /\ a \in Asks
    /\ pc[a] = "checked"
    /\ \E othersReady \in BOOLEAN :
        Goto(a, IF Authorised(a, othersReady) THEN "admitted" ELSE "refused")
    /\ UNCHANGED <<monotonic, failed, cacheVars, retrieverVars, executorVars>>

\* loop.run_in_executor(_RETRIEVAL_EXECUTOR, retrieve)
SubmitRetrieval(a) ==
    /\ a \in Asks
    /\ pc[a] = "admitted"
    /\ \E q \in Queries, m \in Methods :
        queue' = Append(queue, [request |-> a, query |-> q, method |-> m])
    /\ Goto(a, "queued")
    /\ UNCHANGED <<monotonic, failed, cacheVars, retrieverVars, job>>

StartJob(w) ==
    /\ w \in Workers
    /\ pc[w] = "idle"
    /\ queue # <<>>
    /\ job' = [job EXCEPT ![w] = Head(queue)]
    /\ queue' = Tail(queue)
    /\ Goto(w, IF Head(queue).method = "dense" THEN "dense" ELSE "provide")
    /\ UNCHANGED <<monotonic, failed, cacheVars, retrieverVars>>

Step(t) ==
    \/ ServeCachedReport(t)
    \/ BeginProbe(t)
    \/ ProbeJavaAndAssets(t)
    \/ StoreReport(t)
    \/ RetrieverCall(t)
    \/ AnswerReadyProbe(t)
    \/ AuthoriseAsk(t)
    \/ SubmitRetrieval(t)
    \/ StartJob(t)

GateNext == Tick \/ \E t \in Threads : Step(t)

\* Every thread keeps running: the operating system schedules the pool's
\* threads, and each external call ends (subprocess.run and the Qdrant client
\* have timeouts; segmenting and embedding terminate). Time need not advance.
GateSpec == GateInit /\ [][GateNext]_gateVars /\ \A t \in Threads : WF_gateVars(Step(t))

-----------------------------------------------------------------------------
GateTypeOK ==
    /\ monotonic \in Nat
    /\ pc \in [Threads -> RequestSteps \cup {"idle"}]
    /\ cacheLock \in Requests \cup {Nil}
    /\ report \in {Nil, "ready", "not_ready"}
    /\ expiresAt \in Nat
    /\ now \in Nat
    /\ failed \in BOOLEAN
    /\ verdict \in [Requests -> {Nil, "ready", "not_ready"}]
    /\ sparse \in BOOLEAN
    /\ analysed \in SUBSET Queries
    /\ denseModel \in BOOLEAN
    /\ queue \in Seq(Jobs)
    /\ job \in [Workers -> Jobs \cup {Nil}]

\* No two threads are in the Java segmenter at once. The executor's comment
\* (rag_service.py:40) claims it of the request threads; it has to hold against
\* the gate's own threads too, which use the same retriever outside the executor.
SegmenterExclusive ==
    \A t, u \in InSegmenter : t = u

\* An executor worker never pays a cold start: by the time an ask is admitted
\* the index is built and the embedding model loaded, so only probes, under
\* the lock, ever build or load, and neither is built or loaded a second time.
OnlyProbesWarmUp ==
    /\ \A w \in Workers : pc[w] \notin {"building", "loading"}
    /\ \A t \in Threads : pc[t] = "building" => ~sparse
    /\ \A t \in Threads : pc[t] = "loading" => ~denseModel

\* Every request gets its answer: no ask or /ready call is left waiting for
\* the cache lock, in the executor's queue or for its retrieval.
EveryRequestAnswered ==
    \A r \in Requests :
        <>(pc[r] \in {"refused", "retrieved", "failed", "done"})

=============================================================================
