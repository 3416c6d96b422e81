-------------------------- MODULE AnsweringProofs --------------------------
(***************************************************************************)
(* Proofs about how a question is answered: by the runtime that retrieves  *)
(* for it (RuntimeGate) and by the service that answers (AnswerService).   *)
(*                                                                         *)
(* RuntimeGate, for any number of requests, any queries, any readiness     *)
(* lifetimes and without the bound on the clock playing a part.            *)
(* SegmenterExclusive is not inductive: nothing in it says why a probe and *)
(* the executor's worker stay apart. They do because of what a ready       *)
(* report means (ReadyMeansWarm): work reaches the executor only after     *)
(* some probe built the retriever and analysed the smoke query, and from   *)
(* then on every later probe finds both in the caches.                     *)
(*                                                                         *)
(* AnswerService, for any corpus, any size of the context, any durations   *)
(* of the awaited calls and any deadline, timeouts and pauses. Each        *)
(* property speaks of one moment, and each holds because of something an   *)
(* earlier step established and the rest of the request leaves alone: what *)
(* the guardrail let through (AcceptedReply), which error ended the last   *)
(* attempt (ReasonOfReply), and how much time a retry was given            *)
(* (TimeLeft).                                                             *)
(***************************************************************************)
EXTENDS RuntimeGate, AnswerService, FiniteSetTheorems, TLAPS

-----------------------------------------------------------------------------
(* The gate: its invariant                                                 *)

\* What a successful probe leaves behind, for the life of the process
Warm == sparse /\ SmokeQuery \in analysed /\ denseModel

\* The thread in the middle of a probe is the one that holds the lock.
LockHeldByProbe ==
    \A r \in Requests : pc[r] \in ProbeSteps <=> cacheLock = r

\* A ready report, and everything that follows from one, means warm caches.
ReadyMeansWarm ==
    /\ report = "ready" => Warm
    /\ \A r \in Requests : verdict[r] = "ready" => Warm
    /\ \A a \in Requests : pc[a] \in {"admitted", "queued"} => Warm
    /\ queue # <<>> => Warm
    /\ \A w \in Workers : job[w] # Nil => Warm

\* What a probe without errors has achieved so far
ProbeProgress ==
    \A r \in Requests :
        /\ pc[r] \in {"dense", "loading", "store"} /\ ~failed =>
               sparse /\ SmokeQuery \in analysed
        /\ pc[r] = "store" /\ ~failed => denseModel
        /\ pc[r] = "segmenting" => SmokeQuery \notin analysed

\* What a retriever call knows of the caches
CallProgress ==
    \A t \in Threads :
        /\ pc[t] \in {"analyse", "segmenting"} => sparse
        /\ pc[t] = "building" => ~sparse
        /\ pc[t] = "loading" => ~denseModel

\* A worker is idle or runs a job; only workers are ever idle.
WorkerShape ==
    /\ \A r \in Requests : pc[r] # "idle"
    /\ \A w \in Workers : /\ pc[w] \in CallSteps \cup {"idle"}
                          /\ job[w] = Nil <=> pc[w] = "idle"

\* The ask a job was submitted for is waiting for it, or has been answered.
JobsAwaited ==
    LET Awaiting(a) == pc[a] \in {"queued", "retrieved", "failed"} IN
    /\ \A i \in 1..Len(queue) : Awaiting(queue[i].request)
    /\ \A w \in Workers : job[w] # Nil => Awaiting(job[w].request)

GateInv ==
    /\ GateTypeOK
    /\ LockHeldByProbe
    /\ ReadyMeansWarm
    /\ ProbeProgress
    /\ CallProgress
    /\ WorkerShape
    /\ JobsAwaited

-----------------------------------------------------------------------------
\* The one worker of the executor
LEMMA OneWorker == Workers = {1}
BY DEF Workers, MaxWorkers

\* The invariant holds when the process starts.
LEMMA GateInitHolds == GateInit => GateInv
<1> SUFFICES ASSUME GateInit PROVE GateInv
    OBVIOUS
<1> USE ThreadsAssumption, QueriesAssumption, LifetimesAssumption DEF GateInit, Threads
<1>1. GateTypeOK
  <2>1. pc \in [Threads -> RequestSteps \cup {"idle"}]
      BY DEF RequestSteps
  <2>2. queue \in Seq(Jobs)
      OBVIOUS
  <2> QED BY <2>1, <2>2 DEF GateTypeOK
<1>2. LockHeldByProbe
    BY DEF LockHeldByProbe, ProbeSteps, CallSteps
<1>3. ReadyMeansWarm
    BY DEF ReadyMeansWarm
<1>4. ProbeProgress /\ CallProgress
    BY DEF ProbeProgress, CallProgress
<1>5. WorkerShape
    BY DEF WorkerShape, CallSteps
<1>6. JobsAwaited
    BY DEF JobsAwaited
<1> QED BY <1>1, <1>2, <1>3, <1>4, <1>5, <1>6 DEF GateInv

USE DEF Threads, RequestSteps, ProbeSteps, CallSteps

\* Time passing disturbs nothing.
LEMMA TickKeeps == GateInv /\ Tick => GateInv'
<1> SUFFICES ASSUME GateInv, Tick PROVE GateInv'
    OBVIOUS
<1>1. GateTypeOK'
    BY DEF GateInv, GateTypeOK, Tick, cacheVars, retrieverVars, executorVars
<1>2. (LockHeldByProbe /\ ReadyMeansWarm /\ ProbeProgress /\ CallProgress)'
    BY DEF GateInv, LockHeldByProbe, ReadyMeansWarm, ProbeProgress, CallProgress,
           Warm, Tick, cacheVars, retrieverVars, executorVars
<1>3. (WorkerShape /\ JobsAwaited)'
    BY DEF GateInv, WorkerShape, JobsAwaited, Tick, retrieverVars, executorVars
<1> QED BY <1>1, <1>2, <1>3 DEF GateInv

\* Steps of a request outside retriever calls
LEMMA GateStepKeeps ==
    ASSUME GateInv, NEW r \in Requests,
           \/ ServeCachedReport(r)
           \/ BeginProbe(r)
           \/ ProbeJavaAndAssets(r)
           \/ StoreReport(r)
    PROVE  GateInv'
<1> USE ThreadsAssumption, QueriesAssumption, LifetimesAssumption
<1>1. CASE ServeCachedReport(r)
  <2> USE <1>1 DEF ServeCachedReport, CacheLockFree, CacheFresh, Goto, retrieverVars, executorVars
  <2>1. GateTypeOK'
      BY DEF GateInv, GateTypeOK
  <2>2. LockHeldByProbe'
      BY DEF GateInv, GateTypeOK, LockHeldByProbe
  <2>3. ReadyMeansWarm'
      BY DEF GateInv, GateTypeOK, ReadyMeansWarm, Warm
  <2>4. ProbeProgress' /\ CallProgress'
      BY DEF GateInv, GateTypeOK, ProbeProgress, CallProgress
  <2>5. WorkerShape' /\ JobsAwaited'
      BY DEF GateInv, GateTypeOK, WorkerShape, JobsAwaited
  <2> QED BY <2>1, <2>2, <2>3, <2>4, <2>5 DEF GateInv
<1>2. CASE BeginProbe(r)
  <2> USE <1>2 DEF BeginProbe, CacheLockFree, CacheFresh, Goto, retrieverVars, executorVars
  <2>1. GateTypeOK'
      BY DEF GateInv, GateTypeOK
  <2>2. LockHeldByProbe'
      BY DEF GateInv, GateTypeOK, LockHeldByProbe
  <2>3. ReadyMeansWarm'
      BY DEF GateInv, GateTypeOK, ReadyMeansWarm, Warm
  <2>4. ProbeProgress' /\ CallProgress'
      BY DEF GateInv, GateTypeOK, ProbeProgress, CallProgress, LockHeldByProbe
  <2>5. WorkerShape' /\ JobsAwaited'
      BY DEF GateInv, GateTypeOK, WorkerShape, JobsAwaited
  <2> QED BY <2>1, <2>2, <2>3, <2>4, <2>5 DEF GateInv
<1>3. CASE ProbeJavaAndAssets(r)
  <2> USE <1>3 DEF ProbeJavaAndAssets, Goto, cacheVars, retrieverVars, executorVars
  <2>1. GateTypeOK'
      BY DEF GateInv, GateTypeOK
  <2>2. LockHeldByProbe'
      BY DEF GateInv, GateTypeOK, LockHeldByProbe
  <2>3. ReadyMeansWarm'
      BY DEF GateInv, GateTypeOK, ReadyMeansWarm, Warm
  <2>4. ProbeProgress' /\ CallProgress'
      BY ZenonT(30) DEF GateInv, GateTypeOK, ProbeProgress, CallProgress, LockHeldByProbe
  <2>5. WorkerShape' /\ JobsAwaited'
      BY DEF GateInv, GateTypeOK, WorkerShape, JobsAwaited
  <2> QED BY <2>1, <2>2, <2>3, <2>4, <2>5 DEF GateInv
<1>4. CASE StoreReport(r)
  <2> USE <1>4 DEF StoreReport, Expiry, Goto, retrieverVars, executorVars
  <2>1. GateTypeOK'
      BY DEF GateInv, GateTypeOK
  <2>2. LockHeldByProbe'
      BY DEF GateInv, GateTypeOK, LockHeldByProbe
  <2>3. ReadyMeansWarm'
      BY DEF GateInv, GateTypeOK, ReadyMeansWarm, ProbeProgress, Warm
  <2>4. ProbeProgress' /\ CallProgress'
      BY DEF GateInv, GateTypeOK, ProbeProgress, CallProgress, LockHeldByProbe
  <2>5. WorkerShape' /\ JobsAwaited'
      BY DEF GateInv, GateTypeOK, WorkerShape, JobsAwaited
  <2> QED BY <2>1, <2>2, <2>3, <2>4, <2>5 DEF GateInv
<1> QED BY <1>1, <1>2, <1>3, <1>4

\* Every queued job names an ask.
LEMMA QueuedJobs ==
    ASSUME queue \in Seq(Jobs), NEW i \in 1..Len(queue)
    PROVE  queue[i].request \in Asks
<1>1. queue[i] \in Jobs
    OBVIOUS
<1> QED BY <1>1 DEF Jobs

\* However a step of a retriever call ends, types survive, jobs are only ever
\* taken off the worker, and nobody who awaits one is sent elsewhere.
LEMMA CallStepEffect ==
    ASSUME GateInv, NEW t \in Threads, pc[t] \in CallSteps,
           \/ EndCall(t, TRUE)
           \/ EndCall(t, FALSE)
           \/ SparseFailed(t)
           \/ SparseAnswered(t)
           \/ \E step \in CallSteps : Goto(t, step) /\ UNCHANGED <<failed, job>>
    PROVE  /\ pc' \in [Threads -> RequestSteps \cup {"idle"}]
           /\ failed' \in BOOLEAN
           /\ job' \in [Workers -> Jobs \cup {Nil}]
           /\ \A w \in Workers : job'[w] \in {job[w], Nil}
           /\ \A a \in Asks : pc[a] \in {"queued", "retrieved", "failed"}
                           => pc'[a] \in {"queued", "retrieved", "failed"}
<1> USE ThreadsAssumption, OneWorker
<1>1. /\ pc \in [Threads -> RequestSteps \cup {"idle"}]
      /\ job \in [Workers -> Jobs \cup {Nil}]
      /\ failed \in BOOLEAN
    BY DEF GateInv, GateTypeOK
<1>2. CASE t \in Requests
  <2>1. /\ \E step \in CallSteps \cup {"store"} : Goto(t, step)
        /\ job' = job
      BY <1>2 DEF EndCall, SparseFailed, SparseAnswered, UsesDense, IsProbe
  <2>2. failed' \in BOOLEAN
      BY <1>1, <1>2 DEF EndCall, SparseFailed, SparseAnswered, UsesDense, IsProbe
  <2> QED BY <1>1, <2>1, <2>2 DEF Goto
<1>3. CASE t \in Workers
  <2>1. job[t] \in Jobs /\ job[t].request \in Asks /\ t \notin Requests
      BY <1>1, <1>3 DEF GateInv, WorkerShape, Jobs
  <2>2. \/ \E step \in CallSteps : Goto(t, step) /\ UNCHANGED <<failed, job>>
        \/ EndCall(t, TRUE)
        \/ EndCall(t, FALSE)
      BY <2>1 DEF SparseFailed, SparseAnswered, IsProbe
  <2>3. CASE \E step \in CallSteps : Goto(t, step) /\ UNCHANGED <<failed, job>>
      BY <1>1, <1>3, <2>3, <2>1 DEF Goto, Requests
  <2>4. ASSUME NEW ok \in BOOLEAN, EndCall(t, ok)
        PROVE  /\ pc' = [pc EXCEPT ![t] = "idle",
                                   ![job[t].request] = IF ok THEN "retrieved" ELSE "failed"]
               /\ failed' = failed
               /\ job' = [job EXCEPT ![t] = Nil]
      BY <2>1, <2>4 DEF EndCall, IsProbe
  <2>5. CASE EndCall(t, TRUE) \/ EndCall(t, FALSE)
      BY ZenonT(30), <1>1, <1>3, <2>1, <2>4, <2>5 DEF Requests
  <2> QED BY <2>2, <2>3, <2>5
<1> QED BY <1>2, <1>3

\* Steps of a retriever call, made by a probe or by the worker
LEMMA RetrieverCallKeeps ==
    ASSUME GateInv, NEW t \in Threads, RetrieverCall(t)
    PROVE  GateInv'
<1> USE ThreadsAssumption, QueriesAssumption, OneWorker
<1>1. CASE ProvideSparse(t)
  <2> USE <1>1 DEF ProvideSparse, EndCall, SparseFailed, SparseAnswered, IsProbe, UsesDense, QueryOf, Goto, Jobs, cacheVars, retrieverVars, executorVars
  <2>0. /\ pc' \in [Threads -> RequestSteps \cup {"idle"}]
        /\ failed' \in BOOLEAN
        /\ job' \in [Workers -> Jobs \cup {Nil}]
        /\ \A w \in Workers : job'[w] \in {job[w], Nil}
        /\ \A a \in Asks : pc[a] \in {"queued", "retrieved", "failed"}
                        => pc'[a] \in {"queued", "retrieved", "failed"}
      BY CallStepEffect
  <2>1. GateTypeOK'
      BY <2>0 DEF GateInv, GateTypeOK, WorkerShape
  <2>2. LockHeldByProbe'
      BY DEF GateInv, GateTypeOK, LockHeldByProbe, WorkerShape, JobsAwaited
  <2>3. ReadyMeansWarm'
      BY DEF GateInv, GateTypeOK, ReadyMeansWarm, Warm, WorkerShape
  <2>4. ProbeProgress'
      BY DEF GateInv, GateTypeOK, LockHeldByProbe, ProbeProgress, CallProgress, WorkerShape, ReadyMeansWarm, Warm, JobsAwaited
  <2>5. CallProgress'
      BY DEF GateInv, GateTypeOK, CallProgress, LockHeldByProbe, ReadyMeansWarm, Warm, WorkerShape
  <2>6. WorkerShape'
      BY DEF GateInv, GateTypeOK, WorkerShape, JobsAwaited
  <2>7. JobsAwaited'
      BY <2>0, QueuedJobs DEF GateInv, GateTypeOK, JobsAwaited
  <2> QED BY <2>1, <2>2, <2>3, <2>4, <2>5, <2>6, <2>7 DEF GateInv
<1>2. CASE BuildSparse(t)
  <2> USE <1>2 DEF BuildSparse, EndCall, SparseFailed, SparseAnswered, IsProbe, UsesDense, QueryOf, Goto, Jobs, cacheVars, retrieverVars, executorVars
  <2>0. /\ pc' \in [Threads -> RequestSteps \cup {"idle"}]
        /\ failed' \in BOOLEAN
        /\ job' \in [Workers -> Jobs \cup {Nil}]
        /\ \A w \in Workers : job'[w] \in {job[w], Nil}
        /\ \A a \in Asks : pc[a] \in {"queued", "retrieved", "failed"}
                        => pc'[a] \in {"queued", "retrieved", "failed"}
      BY CallStepEffect
  <2>1. GateTypeOK'
      BY <2>0 DEF GateInv, GateTypeOK, WorkerShape
  <2>2. LockHeldByProbe'
      BY DEF GateInv, GateTypeOK, LockHeldByProbe, WorkerShape, JobsAwaited
  <2>3. ReadyMeansWarm'
      BY DEF GateInv, GateTypeOK, ReadyMeansWarm, Warm, WorkerShape
  <2>4. ProbeProgress'
      BY DEF GateInv, GateTypeOK, LockHeldByProbe, ProbeProgress, CallProgress, WorkerShape, ReadyMeansWarm, Warm, JobsAwaited
  <2>5. CallProgress'
      BY DEF GateInv, GateTypeOK, CallProgress, LockHeldByProbe, ReadyMeansWarm, Warm, WorkerShape
  <2>6. WorkerShape'
      BY DEF GateInv, GateTypeOK, WorkerShape, JobsAwaited
  <2>7. JobsAwaited'
      BY <2>0, QueuedJobs DEF GateInv, GateTypeOK, JobsAwaited
  <2> QED BY <2>1, <2>2, <2>3, <2>4, <2>5, <2>6, <2>7 DEF GateInv
<1>3. CASE AnalyseQuery(t)
  <2> USE <1>3 DEF AnalyseQuery, AnalysisCached, SparseScored, EndCall, SparseFailed, SparseAnswered, IsProbe, UsesDense, QueryOf, Goto, Jobs, cacheVars, retrieverVars, executorVars
  <2>0. /\ pc' \in [Threads -> RequestSteps \cup {"idle"}]
        /\ failed' \in BOOLEAN
        /\ job' \in [Workers -> Jobs \cup {Nil}]
        /\ \A w \in Workers : job'[w] \in {job[w], Nil}
        /\ \A a \in Asks : pc[a] \in {"queued", "retrieved", "failed"}
                        => pc'[a] \in {"queued", "retrieved", "failed"}
      BY CallStepEffect
  <2>1. GateTypeOK'
      BY <2>0 DEF GateInv, GateTypeOK, WorkerShape
  <2>2. LockHeldByProbe'
      BY DEF GateInv, GateTypeOK, LockHeldByProbe, WorkerShape, JobsAwaited
  <2>3. ReadyMeansWarm'
      BY DEF GateInv, GateTypeOK, ReadyMeansWarm, Warm, WorkerShape
  <2>4. ProbeProgress'
      BY DEF GateInv, GateTypeOK, LockHeldByProbe, ProbeProgress, CallProgress, WorkerShape, ReadyMeansWarm, Warm, JobsAwaited
  <2>5. CallProgress'
      BY DEF GateInv, GateTypeOK, CallProgress, LockHeldByProbe, ReadyMeansWarm, Warm, WorkerShape
  <2>6. WorkerShape'
      BY DEF GateInv, GateTypeOK, WorkerShape, JobsAwaited
  <2>7. JobsAwaited'
      BY <2>0, QueuedJobs DEF GateInv, GateTypeOK, JobsAwaited
  <2> QED BY <2>1, <2>2, <2>3, <2>4, <2>5, <2>6, <2>7 DEF GateInv
<1>4. CASE SegmentQuery(t)
  <2> USE <1>4 DEF SegmentQuery, SparseScored, EndCall, SparseFailed, SparseAnswered, IsProbe, UsesDense, QueryOf, Goto, Jobs, cacheVars, retrieverVars, executorVars
  <2>0. /\ pc' \in [Threads -> RequestSteps \cup {"idle"}]
        /\ failed' \in BOOLEAN
        /\ job' \in [Workers -> Jobs \cup {Nil}]
        /\ \A w \in Workers : job'[w] \in {job[w], Nil}
        /\ \A a \in Asks : pc[a] \in {"queued", "retrieved", "failed"}
                        => pc'[a] \in {"queued", "retrieved", "failed"}
      BY CallStepEffect
  <2>1. GateTypeOK'
      BY <2>0 DEF GateInv, GateTypeOK, WorkerShape
  <2>2. LockHeldByProbe'
      BY DEF GateInv, GateTypeOK, LockHeldByProbe, WorkerShape, JobsAwaited
  <2>3. ReadyMeansWarm'
      BY DEF GateInv, GateTypeOK, ReadyMeansWarm, Warm, WorkerShape
  <2>4. ProbeProgress'
      BY DEF GateInv, GateTypeOK, LockHeldByProbe, ProbeProgress, CallProgress, WorkerShape, ReadyMeansWarm, Warm, JobsAwaited
  <2>5. CallProgress'
      BY DEF GateInv, GateTypeOK, CallProgress, LockHeldByProbe, ReadyMeansWarm, Warm, WorkerShape
  <2>6. WorkerShape'
      BY DEF GateInv, GateTypeOK, WorkerShape, JobsAwaited
  <2>7. JobsAwaited'
      BY <2>0, QueuedJobs DEF GateInv, GateTypeOK, JobsAwaited
  <2> QED BY <2>1, <2>2, <2>3, <2>4, <2>5, <2>6, <2>7 DEF GateInv
<1>5. CASE CallDense(t)
  <2> USE <1>5 DEF CallDense, EndCall, SparseFailed, SparseAnswered, IsProbe, UsesDense, QueryOf, Goto, Jobs, cacheVars, retrieverVars, executorVars
  <2>0. /\ pc' \in [Threads -> RequestSteps \cup {"idle"}]
        /\ failed' \in BOOLEAN
        /\ job' \in [Workers -> Jobs \cup {Nil}]
        /\ \A w \in Workers : job'[w] \in {job[w], Nil}
        /\ \A a \in Asks : pc[a] \in {"queued", "retrieved", "failed"}
                        => pc'[a] \in {"queued", "retrieved", "failed"}
      BY CallStepEffect
  <2>1. GateTypeOK'
      BY <2>0 DEF GateInv, GateTypeOK, WorkerShape
  <2>2. LockHeldByProbe'
      BY DEF GateInv, GateTypeOK, LockHeldByProbe, WorkerShape, JobsAwaited
  <2>3. ReadyMeansWarm'
      BY DEF GateInv, GateTypeOK, ReadyMeansWarm, Warm, WorkerShape
  <2>4. ProbeProgress'
      BY DEF GateInv, GateTypeOK, LockHeldByProbe, ProbeProgress, CallProgress, WorkerShape, ReadyMeansWarm, Warm, JobsAwaited
  <2>5. CallProgress'
      BY DEF GateInv, GateTypeOK, CallProgress, LockHeldByProbe, ReadyMeansWarm, Warm, WorkerShape
  <2>6. WorkerShape'
      BY DEF GateInv, GateTypeOK, WorkerShape, JobsAwaited
  <2>7. JobsAwaited'
      BY <2>0, QueuedJobs DEF GateInv, GateTypeOK, JobsAwaited
  <2> QED BY <2>1, <2>2, <2>3, <2>4, <2>5, <2>6, <2>7 DEF GateInv
<1>6. CASE LoadDenseModel(t)
  <2> USE <1>6 DEF LoadDenseModel, EndCall, SparseFailed, SparseAnswered, IsProbe, UsesDense, QueryOf, Goto, Jobs, cacheVars, retrieverVars, executorVars
  <2>0. /\ pc' \in [Threads -> RequestSteps \cup {"idle"}]
        /\ failed' \in BOOLEAN
        /\ job' \in [Workers -> Jobs \cup {Nil}]
        /\ \A w \in Workers : job'[w] \in {job[w], Nil}
        /\ \A a \in Asks : pc[a] \in {"queued", "retrieved", "failed"}
                        => pc'[a] \in {"queued", "retrieved", "failed"}
      BY CallStepEffect
  <2>1. GateTypeOK'
      BY <2>0 DEF GateInv, GateTypeOK, WorkerShape
  <2>2. LockHeldByProbe'
      BY DEF GateInv, GateTypeOK, LockHeldByProbe, WorkerShape, JobsAwaited
  <2>3. ReadyMeansWarm'
      BY DEF GateInv, GateTypeOK, ReadyMeansWarm, Warm, WorkerShape
  <2>4. ProbeProgress'
      BY DEF GateInv, GateTypeOK, LockHeldByProbe, ProbeProgress, CallProgress, WorkerShape, ReadyMeansWarm, Warm, JobsAwaited
  <2>5. CallProgress'
      BY DEF GateInv, GateTypeOK, CallProgress, LockHeldByProbe, ReadyMeansWarm, Warm, WorkerShape
  <2>6. WorkerShape'
      BY DEF GateInv, GateTypeOK, WorkerShape, JobsAwaited
  <2>7. JobsAwaited'
      BY <2>0, QueuedJobs DEF GateInv, GateTypeOK, JobsAwaited
  <2> QED BY <2>1, <2>2, <2>3, <2>4, <2>5, <2>6, <2>7 DEF GateInv
<1> QED BY <1>1, <1>2, <1>3, <1>4, <1>5, <1>6 DEF RetrieverCall

\* Steps of the endpoints and the executor
LEMMA EndpointStepKeeps ==
    ASSUME GateInv, NEW t \in Threads,
           \/ AnswerReadyProbe(t)
           \/ AuthoriseAsk(t)
           \/ SubmitRetrieval(t)
           \/ StartJob(t)
    PROVE  GateInv'
<1> USE ThreadsAssumption, QueriesAssumption, OneWorker
<1>1. CASE AnswerReadyProbe(t)
  <2> USE <1>1 DEF AnswerReadyProbe, Goto, Methods, cacheVars, retrieverVars, executorVars
  <2>1. GateTypeOK'
      BY DEF GateInv, GateTypeOK, WorkerShape
  <2>2. LockHeldByProbe'
      BY DEF GateInv, GateTypeOK, LockHeldByProbe, WorkerShape, JobsAwaited
  <2>3. ReadyMeansWarm'
      BY DEF GateInv, GateTypeOK, ReadyMeansWarm, Warm, WorkerShape
  <2>4. ProbeProgress'
      BY DEF GateInv, GateTypeOK, LockHeldByProbe, ProbeProgress, CallProgress, WorkerShape, ReadyMeansWarm, Warm, JobsAwaited
  <2>5. CallProgress'
      BY DEF GateInv, GateTypeOK, CallProgress, LockHeldByProbe, ReadyMeansWarm, Warm, WorkerShape
  <2>6. WorkerShape'
      BY DEF GateInv, GateTypeOK, WorkerShape, JobsAwaited
  <2>7. JobsAwaited'
      BY DEF GateInv, GateTypeOK, JobsAwaited, WorkerShape
  <2> QED BY <2>1, <2>2, <2>3, <2>4, <2>5, <2>6, <2>7 DEF GateInv
<1>2. CASE AuthoriseAsk(t)
  <2> USE <1>2 DEF AuthoriseAsk, Authorised, Goto, Methods, cacheVars, retrieverVars, executorVars
  <2>1. GateTypeOK'
      BY DEF GateInv, GateTypeOK, WorkerShape
  <2>2. LockHeldByProbe'
      BY DEF GateInv, GateTypeOK, LockHeldByProbe, WorkerShape, JobsAwaited
  <2>3. ReadyMeansWarm'
      BY DEF GateInv, GateTypeOK, ReadyMeansWarm, Warm, WorkerShape
  <2>4. ProbeProgress'
      BY DEF GateInv, GateTypeOK, LockHeldByProbe, ProbeProgress, CallProgress, WorkerShape, ReadyMeansWarm, Warm, JobsAwaited
  <2>5. CallProgress'
      BY DEF GateInv, GateTypeOK, CallProgress, LockHeldByProbe, ReadyMeansWarm, Warm, WorkerShape
  <2>6. WorkerShape'
      BY DEF GateInv, GateTypeOK, WorkerShape, JobsAwaited
  <2>7. JobsAwaited'
      BY DEF GateInv, GateTypeOK, JobsAwaited, WorkerShape
  <2> QED BY <2>1, <2>2, <2>3, <2>4, <2>5, <2>6, <2>7 DEF GateInv
<1>3. CASE SubmitRetrieval(t)
  <2> USE <1>3 DEF SubmitRetrieval, Goto, Methods, cacheVars, retrieverVars, executorVars
  <2>1. GateTypeOK'
    <3>1. PICK q \in Queries, m \in Methods :
              queue' = Append(queue, [request |-> t, query |-> q, method |-> m])
        OBVIOUS
    <3>2. [request |-> t, query |-> q, method |-> m] \in Jobs
        BY DEF Jobs
    <3>3. queue' \in Seq(Jobs)
        BY <3>1, <3>2 DEF GateInv, GateTypeOK
    <3> QED BY <3>3 DEF GateInv, GateTypeOK
  <2>2. LockHeldByProbe'
      BY DEF GateInv, GateTypeOK, LockHeldByProbe, WorkerShape, JobsAwaited
  <2>3. ReadyMeansWarm'
      BY DEF GateInv, GateTypeOK, ReadyMeansWarm, Warm, WorkerShape
  <2>4. ProbeProgress'
      BY DEF GateInv, GateTypeOK, LockHeldByProbe, ProbeProgress, CallProgress, WorkerShape, ReadyMeansWarm, Warm, JobsAwaited
  <2>5. CallProgress'
      BY DEF GateInv, GateTypeOK, CallProgress, LockHeldByProbe, ReadyMeansWarm, Warm, WorkerShape
  <2>6. WorkerShape'
      BY DEF GateInv, GateTypeOK, WorkerShape, JobsAwaited
  <2>7. JobsAwaited'
      BY DEF GateInv, GateTypeOK, JobsAwaited, WorkerShape
  <2> QED BY <2>1, <2>2, <2>3, <2>4, <2>5, <2>6, <2>7 DEF GateInv
<1>4. CASE StartJob(t)
  <2> USE <1>4 DEF StartJob, Goto, Methods, cacheVars, retrieverVars, executorVars
  <2>0. Head(queue) \in Jobs /\ queue \in Seq(Jobs) /\ queue # <<>>
      BY DEF GateInv, GateTypeOK
  <2>1. GateTypeOK'
      BY <2>0 DEF GateInv, GateTypeOK
  <2>2. LockHeldByProbe'
      BY DEF GateInv, GateTypeOK, LockHeldByProbe, WorkerShape, JobsAwaited
  <2>3. ReadyMeansWarm'
      BY DEF GateInv, GateTypeOK, ReadyMeansWarm, Warm, WorkerShape
  <2>4. ProbeProgress'
      BY DEF GateInv, GateTypeOK, LockHeldByProbe, ProbeProgress, CallProgress, WorkerShape, ReadyMeansWarm, Warm, JobsAwaited
  <2>5. CallProgress'
      BY DEF GateInv, GateTypeOK, CallProgress, LockHeldByProbe, ReadyMeansWarm, Warm, WorkerShape
  <2>6. WorkerShape'
      BY <2>0, JobsAssumption DEF GateInv, GateTypeOK, WorkerShape, JobsAwaited
  <2>7. JobsAwaited'
      BY DEF GateInv, GateTypeOK, JobsAwaited, WorkerShape
  <2> QED BY <2>1, <2>2, <2>3, <2>4, <2>5, <2>6, <2>7 DEF GateInv
<1> QED BY <1>1, <1>2, <1>3, <1>4

\* Every step of the system keeps the invariant.
LEMMA GateNextKeeps == GateInv /\ [GateNext]_gateVars => GateInv'
<1> SUFFICES ASSUME GateInv, [GateNext]_gateVars PROVE GateInv'
    OBVIOUS
<1>1. CASE Tick
    BY <1>1, TickKeeps
<1>2. ASSUME NEW t \in Threads, Step(t) PROVE GateInv'
  <2>1. CASE \/ ServeCachedReport(t) \/ BeginProbe(t)
             \/ ProbeJavaAndAssets(t) \/ StoreReport(t)
    <3>1. t \in Requests
        BY <2>1, ThreadsAssumption, OneWorker
           DEF GateInv, GateTypeOK, WorkerShape, ServeCachedReport, BeginProbe,
               ProbeJavaAndAssets, StoreReport
    <3> QED BY <2>1, <3>1, GateStepKeeps
  <2>2. CASE RetrieverCall(t)
      BY <2>2, RetrieverCallKeeps
  <2>3. CASE \/ AnswerReadyProbe(t) \/ AuthoriseAsk(t)
             \/ SubmitRetrieval(t) \/ StartJob(t)
      BY <2>3, EndpointStepKeeps
  <2> QED BY <1>2, <2>1, <2>2, <2>3 DEF Step
<1>3. CASE UNCHANGED gateVars
    BY <1>3 DEF gateVars, GateInv, GateTypeOK, LockHeldByProbe, ReadyMeansWarm, Warm,
                ProbeProgress, CallProgress, WorkerShape, JobsAwaited
<1> QED BY <1>1, <1>2, <1>3 DEF GateNext

\* The inductive invariant holds in every state of every behaviour.
THEOREM GateInvariance == GateSpec => []GateInv
<1>1. GateInit => GateInv
    BY GateInitHolds
<1>2. GateInv /\ [GateNext]_gateVars => GateInv'
    BY GateNextKeeps
<1> QED BY <1>1, <1>2, PTL DEF GateSpec

\* Type correctness of the gate, the caches and the executor.
THEOREM GateTypeCorrect == GateSpec => []GateTypeOK
<1>1. GateInv => GateTypeOK
    BY DEF GateInv
<1> QED BY <1>1, GateInvariance, PTL

\* The Java segmenter is never entered by two threads at once.
THEOREM MutualExclusion == GateSpec => []SegmenterExclusive
<1>1. GateInv => SegmenterExclusive
  <2> SUFFICES ASSUME GateInv, NEW t \in InSegmenter, NEW u \in InSegmenter
               PROVE  t = u
      BY DEF SegmenterExclusive
  <2> USE ThreadsAssumption DEF InSegmenter, GateInv
  <2>1. CASE t \in Requests /\ u \in Requests
      BY <2>1 DEF LockHeldByProbe
  <2>2. CASE t \in Workers /\ u \in Workers
      BY <2>2, OneWorker
  <2>3. ASSUME NEW r \in Requests, NEW w \in Workers,
               r \in InSegmenter, w \in InSegmenter
        PROVE  FALSE
    <3>1. job[w] # Nil
        BY <2>3 DEF WorkerShape
    <3>2. Warm
        BY <3>1 DEF ReadyMeansWarm
    <3>3. ~sparse \/ SmokeQuery \notin analysed
        BY <2>3 DEF CallProgress, ProbeProgress
    <3> QED BY <3>2, <3>3 DEF Warm
  <2> QED BY <2>1, <2>2, <2>3
<1> QED BY <1>1, GateInvariance, PTL

\* Only probes ever build the index or load the model, and only once.
THEOREM WorkersStayWarm == GateSpec => []OnlyProbesWarmUp
<1>1. GateInv => OnlyProbesWarmUp
  <2> SUFFICES ASSUME GateInv, NEW w \in Workers
               PROVE  pc[w] \notin {"building", "loading"}
      BY DEF GateInv, CallProgress, OnlyProbesWarmUp
  <2>1. pc[w] # "idle" => Warm
      BY DEF GateInv, WorkerShape, ReadyMeansWarm
  <2> QED BY <2>1 DEF GateInv, CallProgress, Warm
<1> QED BY <1>1, GateInvariance, PTL

-----------------------------------------------------------------------------
(* The answer service: its invariant                                       *)

\* The numbered sources are distinct chunks, and they are there before the first attempt.
SourcesDistinct ==
    /\ \A i, j \in 1..Len(sources) : sources[i] = sources[j] => i = j
    /\ phase = "retrieving" => sources = <<>>

\* A reply is kept only when the guardrail accepted it, and ends the loop.
AcceptedReply ==
    reply # None =>
        /\ Rejection(reply) = None
        /\ reason = None
        /\ phase \in {"settled", "answered"}

\* Without an accepted reply the loop ends with a reason.
ReasonOfReply ==
    /\ phase = "settled" /\ reply = None => reason # None
    /\ response # None /\ response.kind # "error" =>
          (response.failed <=> reason \in ProviderErrors)

\* The time a call was given, and the time a pause leaves
TimeLeft ==
    /\ phase = "retrieving" => attempt = 1
    /\ phase = "sleeping" => attempt < MaxAttempts /\ Deadline - clock > RetryFloor
    /\ phase = "calling" => clock = callStart /\ callStart < Deadline
    /\ phase = "calling" /\ attempt > 1 => timeout = Deadline - callStart

IInv == TypeOK /\ SourcesDistinct /\ AcceptedReply /\ ReasonOfReply /\ TimeLeft

-----------------------------------------------------------------------------
(* The answer service: what the operators guarantee                        *)

\* The set written out by hand in ask() is the set the chain raises.
LEMMA ReportedSet == \A why : ReportedAsProviderFailure(why) <=> why \in ProviderErrors
BY DEF ReportedAsProviderFailure, ProviderErrors

\* sanitize_sources numbers distinct chunks of the corpus.
LEMMA SanitizedSources ==
    ASSUME NEW n \in Nat, NEW hits \in [1..n -> Hits], NEW kept \in InRankOrder(FirstHits(hits)),
           NEW s, s = [i \in DOMAIN kept |-> hits[kept[i]].chunk]
    PROVE  /\ s \in Seq(Chunks)
           /\ \A i, j \in 1..Len(s) : s[i] = s[j] => i = j
<1> DEFINE S == FirstHits(hits)
<1>1. S \subseteq 1..n
    BY DEF FirstHits
<1>2. Cardinality(S) \in Nat
  <2> HIDE DEF S
  <2>1. IsFiniteSet(1..n)
      BY FS_Interval
  <2>2. IsFiniteSet(S)
      BY <1>1, <2>1, FS_Subset
  <2> QED BY <2>2, FS_CardinalityType
<1>3. kept \in [1..Cardinality(S) -> S] /\ \A i, j \in DOMAIN kept : i < j => kept[i] < kept[j]
    BY DEF InRankOrder
<1> PICK c \in Nat : c = Cardinality(S)
    BY <1>2
<1>4. kept \in [1..c -> S] /\ \A i, j \in 1..c : i < j => kept[i] < kept[j]
    BY <1>3
<1>5. \A i \in 1..c : kept[i] \in 1..n /\ hits[kept[i]].chunk \in Chunks
    BY <1>1, <1>4 DEF Hits
<1>6. s \in [1..c -> Chunks] /\ \A i \in 1..c : s[i] = hits[kept[i]].chunk
    BY <1>4, <1>5
<1>7. s \in Seq(Chunks) /\ Len(s) = c
    BY <1>6
<1>8. ASSUME NEW i \in 1..c, NEW j \in 1..c, i < j PROVE s[i] # s[j]
  <2>1. kept[i] \in S /\ kept[j] \in S /\ kept[i] < kept[j] /\ kept[i] \in Nat /\ kept[i] \in 1..n /\ kept[j] \in 1..n
      BY <1>4, <1>5, <1>8
  <2>2. kept[i] \in 1..(kept[j] - 1)
      BY <2>1
  <2> QED BY <1>6, <2>1, <2>2 DEF FirstHits
<1>9. ASSUME NEW i \in 1..c, NEW j \in 1..c, s[i] = s[j] PROVE i = j
  <2>1. i < j \/ j < i \/ i = j
      OBVIOUS
  <2> QED BY <1>8, <1>9, <2>1
<1> QED BY <1>7, <1>9

\* What an accepted answer says and declares
LEMMA AcceptedMeansGrounded ==
    ASSUME NEW r \in Replies, Rejection(r) = None, r.status = "answerable"
    PROVE  r.declared # {} /\ r.declared \subseteq 1..Len(sources) /\ r.inline = r.declared
<1>1. /\ r # Unparsable
      /\ None \notin {"insufficient_supported_claims", "citation_guardrail_rejected", "citation_parse_error"}
    BY ValuesAssumption DEF Reasons, RetryableReasons
<1> QED BY <1>1 DEF Rejection

\* A rejection has a reason, and the retry policy knows it.
LEMMA RejectionHasReason ==
    \A r \in Replies \cup {Unparsable} : Rejection(r) \in Reasons \cup {None}
BY DEF Rejection, Reasons, RetryableReasons

\* A pause before a retry leaves time for it.
LEMMA PauseLeavesTime ==
    ASSUME clock \in Nat, Remaining > RetryFloor
    PROVE  Pause \in Nat /\ clock + Pause < Deadline
BY TimesAssumption DEF Remaining, Pause, Lower, Higher

-----------------------------------------------------------------------------
(* The answer service: its steps                                           *)

LEMMA InitEstablishesIInv == Init => IInv
<1> SUFFICES ASSUME Init PROVE IInv
    OBVIOUS
<1>1. TypeOK
    BY DEF Init, TypeOK, MaxAttempts
<1>2. SourcesDistinct /\ AcceptedReply /\ ReasonOfReply /\ TimeLeft
    BY DEF Init, SourcesDistinct, AcceptedReply, ReasonOfReply, TimeLeft
<1> QED BY <1>1, <1>2 DEF IInv

LEMMA RetrieveKeepsIInv == IInv /\ Retrieve => IInv'
<1> SUFFICES ASSUME IInv, Retrieve PROVE IInv'
    OBVIOUS
<1>1. PICK n \in 0..MaxHits : \E hits \in [1..n -> Hits] :
          \E kept \in InRankOrder(FirstHits(hits)) :
              sources' = [i \in DOMAIN kept |-> hits[kept[i]].chunk]
    BY DEF Retrieve
<1>2. n \in Nat
    BY HitsAssumption
<1>3. sources' \in Seq(Chunks) /\ \A i, j \in 1..Len(sources') : sources'[i] = sources'[j] => i = j
  <2>1. PICK hits \in [1..n -> Hits] :
            \E kept \in InRankOrder(FirstHits(hits)) :
                sources' = [i \in DOMAIN kept |-> hits[kept[i]].chunk]
      BY <1>1
  <2>0. PICK kept \in InRankOrder(FirstHits(hits)) :
            sources' = [i \in DOMAIN kept |-> hits[kept[i]].chunk]
      BY <2>1
  <2>2. PICK found : found = [i \in DOMAIN kept |-> hits[kept[i]].chunk]
      OBVIOUS
  <2>3. found \in Seq(Chunks) /\ \A i, j \in 1..Len(found) : found[i] = found[j] => i = j
      BY SMTT(30), <1>2, <2>2, SanitizedSources
  <2>4. sources' = found
      BY <2>0, <2>2
  <2> QED BY <2>3, <2>4
<1>4. clock' \in Nat
    BY TimesAssumption DEF Retrieve, IInv, TypeOK
<1>5. TypeOK'
    BY <1>3, <1>4 DEF Retrieve, IInv, TypeOK, Reasons
<1>6. SourcesDistinct'
    BY <1>3 DEF Retrieve, IInv, SourcesDistinct
<1>7. AcceptedReply' /\ ReasonOfReply'
    BY ValuesAssumption DEF Retrieve, IInv, AcceptedReply, ReasonOfReply, TypeOK, Reasons
<1>8. TimeLeft'
    BY DEF Retrieve, IInv, TimeLeft
<1> QED BY <1>5, <1>6, <1>7, <1>8 DEF IInv

\* A server error is a response without sources.
LEMMA ServerErrorShape ==
    ASSUME NEW status \in {"http_500", "http_501", "http_502", "http_503"}
    PROVE  /\ ServerError(status) \in Responses /\ ServerError(status) # None
           /\ ServerError(status).kind = "error" /\ ServerError(status).cited = {}
<1>1. ServerError(status) \in Responses
    BY DEF ServerError, Responses
<1> QED BY <1>1, ValuesAssumption DEF ServerError

LEMMA RaiseKeepsIInv == IInv /\ RaiseHttpError => IInv'
<1> SUFFICES ASSUME IInv, RaiseHttpError PROVE IInv'
    OBVIOUS
<1>1. PICK status \in {"http_500", "http_501", "http_502", "http_503"} :
          response' = ServerError(status)
    BY DEF RaiseHttpError
<1>2. response' \in Responses /\ response' # None /\ response'.kind = "error"
    BY <1>1, ServerErrorShape
<1>3. clock' \in Nat
    BY TimesAssumption DEF RaiseHttpError, IInv, TypeOK
<1>4. TypeOK'
    BY <1>2, <1>3 DEF RaiseHttpError, IInv, TypeOK
<1>5. SourcesDistinct' /\ AcceptedReply' /\ ReasonOfReply'
    BY <1>2 DEF RaiseHttpError, IInv, SourcesDistinct, AcceptedReply, ReasonOfReply, Rejection
<1>6. TimeLeft'
    BY DEF RaiseHttpError, IInv, TimeLeft
<1> QED BY <1>4, <1>5, <1>6 DEF IInv

LEMMA BeginKeepsIInv == IInv /\ BeginAttempt => IInv'
<1> SUFFICES ASSUME IInv, BeginAttempt PROVE IInv'
    OBVIOUS
<1> USE TimesAssumption DEF BeginAttempt, IInv
<1>1. TypeOK'
  <2>1. timeout' \in Nat /\ callStart' \in Nat
    <3>1. clock \in Nat /\ Deadline \in Nat /\ CallTimeout \in Nat /\ timeout \in Nat /\ callStart \in Nat
        BY DEF TypeOK
    <3>2. CASE Remaining <= 0
        BY <3>1, <3>2
    <3>3. CASE ~(Remaining <= 0)
      <4>1. Remaining \in Nat
          BY <3>1, <3>3 DEF Remaining
      <4>2. timeout' = TimeoutOfCall /\ callStart' = clock
          BY <3>3
      <4> QED BY <3>1, <4>1, <4>2 DEF TimeoutOfCall
    <3> QED BY <3>2, <3>3
  <2>2. records' \in Seq(ProviderErrors \cup {None})
    <3>1. records \in Seq(ProviderErrors \cup {None}) /\ "provider_timeout" \in ProviderErrors \cup {None}
        BY DEF TypeOK, ProviderErrors
    <3>2. records' = records \/ records' = Append(records, "provider_timeout")
        OBVIOUS
    <3> HIDE DEF IInv, BeginAttempt
    <3> QED BY <3>1, <3>2
  <2> QED BY <2>1, <2>2 DEF TypeOK, Reasons, ProviderErrors
<1>2. SourcesDistinct' /\ AcceptedReply'
    BY DEF SourcesDistinct, AcceptedReply, Rejection
<1>3. ReasonOfReply'
  <2>1. "provider_timeout" # None
      BY ValuesAssumption DEF Reasons, ProviderErrors
  <2> QED BY <2>1 DEF ReasonOfReply, TypeOK
<1>4. TimeLeft'
    BY SMTT(30) DEF TimeLeft, TypeOK, TimeoutOfCall, Remaining, MaxAttempts
<1> QED BY <1>1, <1>2, <1>3, <1>4

\* What a failed attempt does to the request
LEMMA FailKeepsIInv ==
    ASSUME IInv, phase = "calling", NEW why \in Reasons, FailAttempt(why),
           NEW d \in Nat, clock' = clock + d,
           model' \in 0..MaxAttempts, records' \in Seq(ProviderErrors \cup {None}),
           UNCHANGED <<sources, attempt, callStart, timeout, reply, response>>
    PROVE  IInv'
<1> USE TimesAssumption DEF IInv
<1>1. TypeOK'
    BY DEF TypeOK, FailAttempt
<1>2. SourcesDistinct'
    BY SMTT(30) DEF SourcesDistinct, FailAttempt
<1>3. AcceptedReply' /\ ReasonOfReply'
    BY ValuesAssumption DEF AcceptedReply, ReasonOfReply, FailAttempt, TypeOK
<1>4. TimeLeft'
    BY DEF TimeLeft, TypeOK, FailAttempt, WorthRetrying, MaxAttempts
<1> QED BY <1>1, <1>2, <1>3, <1>4

LEMMA ReplyKeepsIInv == IInv /\ ReplyArrives => IInv'
<1> SUFFICES ASSUME IInv, ReplyArrives PROVE IInv'
    OBVIOUS
<1>1. PICK d \in Nat : clock' = clock + d
    BY TimesAssumption DEF ReplyArrives
<1>2. PICK r \in Replies \cup {Unparsable} :
          IF Rejection(r) = None
          THEN /\ reply' = r
               /\ reason' = None
               /\ records' = Append(records, None)
               /\ phase' = "settled"
          ELSE FailAttempt(Rejection(r)) /\ UNCHANGED <<reply, records>>
    BY DEF ReplyArrives
<1>3. /\ phase = "calling" /\ model' = attempt
      /\ UNCHANGED <<sources, attempt, callStart, timeout, response>>
    BY DEF ReplyArrives
<1>4. CASE Rejection(r) # None
  <2>1. Rejection(r) \in Reasons
      BY <1>4, RejectionHasReason
  <2>2. FailAttempt(Rejection(r)) /\ UNCHANGED <<reply, records>>
      BY <1>2, <1>4
  <2>3. model' \in 0..MaxAttempts /\ records' \in Seq(ProviderErrors \cup {None})
      BY <1>3, <2>2 DEF IInv, TypeOK, MaxAttempts
  <2> QED BY <1>1, <1>3, <2>1, <2>2, <2>3, FailKeepsIInv
<1>5. CASE Rejection(r) = None
  <2>1. r # Unparsable
    <3>1. "generation_parse_error" # None
        BY ValuesAssumption DEF Reasons, RetryableReasons
    <3> QED BY <1>5, <3>1 DEF Rejection
  <2>2. /\ reply' = r /\ r \in Replies /\ reason' = None /\ phase' = "settled"
        /\ records' = Append(records, None)
      BY <1>2, <1>5, <2>1
  <2>3. reply' # None
      BY <2>2, ValuesAssumption
  <2>4. TypeOK'
      BY <1>1, <1>3, <2>2 DEF IInv, TypeOK, MaxAttempts
  <2>5. SourcesDistinct'
      BY <1>3, <2>2 DEF IInv, SourcesDistinct
  <2>6. AcceptedReply'
      BY <1>3, <1>5, <2>2 DEF AcceptedReply, Rejection
  <2>7. ReasonOfReply'
      BY <1>3, <2>2, <2>3 DEF IInv, TypeOK, ReasonOfReply
  <2>8. TimeLeft'
      BY SMTT(30), <1>1, <1>3, <2>2, TimesAssumption DEF IInv, TypeOK, TimeLeft
  <2> QED BY <2>4, <2>5, <2>6, <2>7, <2>8 DEF IInv
<1> QED BY <1>4, <1>5

LEMMA FailureKeepsIInv == IInv /\ ProviderFails => IInv'
<1> SUFFICES ASSUME IInv, ProviderFails PROVE IInv'
    OBVIOUS
<1>1. PICK why \in ProviderErrors :
          /\ \E d \in Durations \cup {timeout} : clock' = clock + d
          /\ FailAttempt(why)
          /\ records' = Append(records, why)
    BY DEF ProviderFails
<1>2. PICK d \in Nat : clock' = clock + d
    BY <1>1, TimesAssumption DEF IInv, TypeOK
<1>3. /\ phase = "calling" /\ why \in Reasons
      /\ records' \in Seq(ProviderErrors \cup {None})
      /\ model' \in 0..MaxAttempts
      /\ UNCHANGED <<sources, attempt, callStart, timeout, reply, response>>
    BY <1>1 DEF ProviderFails, Reasons, IInv, TypeOK
<1> QED BY <1>1, <1>2, <1>3, FailKeepsIInv

LEMMA CallRaisesKeepsIInv == IInv /\ CallRaises => IInv'
<1> SUFFICES ASSUME IInv, CallRaises PROVE IInv'
    OBVIOUS
<1>1. response' \in Responses /\ response' # None /\ response'.kind = "error"
    BY ServerErrorShape DEF CallRaises
<1>2. clock' \in Nat
    BY TimesAssumption DEF CallRaises, IInv, TypeOK
<1>3. TypeOK'
    BY <1>1, <1>2 DEF CallRaises, IInv, TypeOK
<1>4. SourcesDistinct' /\ AcceptedReply' /\ ReasonOfReply'
    BY <1>1 DEF CallRaises, IInv, SourcesDistinct, AcceptedReply, ReasonOfReply, Rejection
<1>5. TimeLeft'
    BY DEF CallRaises, IInv, TimeLeft
<1> QED BY <1>3, <1>4, <1>5 DEF IInv

LEMMA WakeUpKeepsIInv == IInv /\ WakeUp => IInv'
<1> SUFFICES ASSUME IInv, WakeUp PROVE IInv'
    OBVIOUS
<1>1. /\ phase = "sleeping" /\ phase' = "deciding" /\ attempt \in 1..MaxAttempts
      /\ \E late \in Durations \cup {0} : clock' = clock + Pause + late
      /\ attempt' = attempt + 1 /\ clock \in Nat
      /\ UNCHANGED <<sources, callStart, timeout, reply, reason, model, records, response>>
    BY DEF WakeUp, IInv, TypeOK
<1>2. attempt < MaxAttempts /\ Remaining > RetryFloor
    BY <1>1 DEF IInv, TimeLeft, Remaining
<1>3. clock' \in Nat
    BY <1>1, <1>2, PauseLeavesTime, TimesAssumption
<1>4. TypeOK'
    BY <1>1, <1>2, <1>3 DEF IInv, TypeOK, MaxAttempts
<1>5. SourcesDistinct' /\ AcceptedReply' /\ ReasonOfReply'
    BY <1>1 DEF IInv, SourcesDistinct, AcceptedReply, ReasonOfReply, Rejection
<1>6. TimeLeft'
    BY <1>1 DEF TimeLeft
<1> QED BY <1>4, <1>5, <1>6 DEF IInv

\* The response: its kind follows the accepted reply, or the reason when there is none.
LEMMA RespondKeepsIInv == IInv /\ Respond => IInv'
<1> SUFFICES ASSUME IInv, Respond PROVE IInv'
    OBVIOUS
<1>1. /\ phase = "settled" /\ phase' = "answered"
      /\ UNCHANGED <<clock, sources, attempt, callStart, timeout, reply, reason, model, records>>
    BY DEF Respond
<1> PICK n : n = IF records = <<>> THEN 1 ELSE Len(records)
    OBVIOUS
<1> PICK refused \in BOOLEAN : refused <=> KindOf(reply) = "failed"
    OBVIOUS
<1>2. response' = [kind |-> KindOf(reply), cited |-> CitedBy(reply),
                   fallback |-> FallbackOf(reply), failed |-> refused,
                   model |-> model, attempt |-> n]
    BY DEF Respond
<1>3. reply # None =>
          /\ reply \in Replies /\ reason = None
          /\ Rejection(reply) = None
    BY DEF IInv, AcceptedReply, TypeOK
<1>4. KindOf(reply) \in {"grounded", "out_of_scope", "insufficient", "failed"}
    BY <1>3 DEF KindOf, Replies, Statuses
<1>5. CitedBy(reply) \in SUBSET Chunks
  <2>1. CASE KindOf(reply) = "grounded"
    <3>1. reply # None /\ reply.status = "answerable"
        BY <1>3, <2>1 DEF KindOf, Replies, Statuses
    <3>2. reply.declared \subseteq 1..Len(sources)
        BY <1>3, <3>1, AcceptedMeansGrounded
    <3> QED BY <3>2 DEF CitedBy, IInv, TypeOK
  <2>2. CASE KindOf(reply) # "grounded"
      BY <2>2 DEF CitedBy
  <2> QED BY <2>1, <2>2
<1>6. FallbackOf(reply) \in Reasons \cup {"scope_classifier_out_of_scope", None}
    BY <1>3 DEF FallbackOf, Replies, Statuses, Reasons, IInv, TypeOK
<1>7. n \in Nat /\ model \in Nat
    BY DEF IInv, TypeOK
<1>8. response' \in Responses /\ response' # None
  <2>1. response' \in Responses
      BY <1>2, <1>4, <1>5, <1>6, <1>7 DEF Responses
  <2> QED BY <2>1, ValuesAssumption
<1>9. response'.failed <=> reason \in ProviderErrors
  <2>1. response'.failed <=> KindOf(reply) = "failed"
      BY <1>2
  <2>2. KindOf(reply) = "failed" <=> reason \in ProviderErrors
    <3>1. CASE reply = None
        BY <3>1, ReportedSet DEF KindOf
    <3>2. CASE reply # None
        BY <1>3, <3>2, ValuesAssumption DEF KindOf, Replies, Statuses, Reasons
    <3> QED BY <3>1, <3>2
  <2> QED BY <2>1, <2>2
<1>10. TypeOK'
    BY <1>1, <1>8 DEF IInv, TypeOK
<1>11. SourcesDistinct' /\ AcceptedReply'
    BY <1>1 DEF IInv, SourcesDistinct, AcceptedReply, Rejection
<1>12. ReasonOfReply'
    BY <1>1, <1>9 DEF ReasonOfReply
<1>13. TimeLeft'
    BY <1>1 DEF IInv, TimeLeft
<1> QED BY <1>10, <1>11, <1>12, <1>13 DEF IInv

LEMMA NextKeepsIInv == IInv /\ [Next]_vars => IInv'
<1> SUFFICES ASSUME IInv, [Next]_vars PROVE IInv'
    OBVIOUS
<1>1. CASE UNCHANGED vars
    BY <1>1 DEF vars, IInv, TypeOK, SourcesDistinct, AcceptedReply, ReasonOfReply, TimeLeft, Rejection
<1> QED BY <1>1, RetrieveKeepsIInv, RaiseKeepsIInv, BeginKeepsIInv, ReplyKeepsIInv,
           FailureKeepsIInv, CallRaisesKeepsIInv, WakeUpKeepsIInv, RespondKeepsIInv DEF Next

-----------------------------------------------------------------------------
(* The answer service: the theorems                                        *)

\* The invariant the theorems below rest on
THEOREM Invariance == Spec => []IInv
BY InitEstablishesIInv, NextKeepsIInv, PTL DEF Spec

\* Every reason, record and response of an ask is one the code can produce.
THEOREM TypeCorrect == Spec => []TypeOK
<1>1. IInv => TypeOK
    BY DEF IInv
<1> QED BY <1>1, Invariance, PTL

\* An answer shown as grounded names in its text the sources it declares, each of them one
\* distinct chunk retrieved for the question.
THEOREM GroundedIsSourced == Spec => []GroundedTextMatchesSources
<1>1. IInv => GroundedTextMatchesSources
  <2> SUFFICES ASSUME IInv, reply # None, reply.status = "answerable"
               PROVE  /\ reply.inline # {}
                      /\ reply.inline = reply.declared
                      /\ \A i \in reply.inline :
                            i <= Len(sources) /\ \A j \in 1..Len(sources) :
                                sources[i] = sources[j] => i = j
      BY DEF GroundedTextMatchesSources
  <2>1. reply \in Replies /\ Rejection(reply) = None
      BY DEF IInv, TypeOK, AcceptedReply
  <2>2. reply.declared # {} /\ reply.declared \subseteq 1..Len(sources) /\ reply.inline = reply.declared
      BY <2>1, AcceptedMeansGrounded
  <2>3. Len(sources) \in Nat /\ \A i, j \in 1..Len(sources) : sources[i] = sources[j] => i = j
      BY DEF IInv, SourcesDistinct, TypeOK
  <2> QED BY <2>2, <2>3
<1> QED BY <1>1, Invariance, PTL

\* generation_failed is set exactly when an error of the provider ended the last attempt.
THEOREM OutagesAreReported == Spec => []OutageReported
<1>1. IInv => OutageReported
    BY DEF IInv, ReasonOfReply, OutageReported
<1> QED BY <1>1, Invariance, PTL

\* No call and no pause begins after the deadline, and an ask that retries runs past it only by
\* a wait that outlasts what the code asked for, however long the awaited calls take.
THEOREM RetriesPlannedWithinDeadline == Spec => RetryPlannedWithinDeadline
<1> DEFINE Begun == phase' \in {"calling", "sleeping"} => clock' < Deadline
           Overrun == (phase = "sleeping" \/ attempt > 1) /\ clock' # clock /\ clock' > Deadline =>
                          clock' > AwaitedUntil
<1>1. IInv' => Begun
    BY TimesAssumption DEF IInv, TimeLeft, TypeOK
<1>2. IInv /\ [Next]_vars => Begun
    BY <1>1, NextKeepsIInv
<1>3. IInv /\ [Next]_vars => Overrun
  <2> SUFFICES ASSUME IInv, [Next]_vars, phase = "sleeping" \/ attempt > 1,
                      clock' # clock, clock' > Deadline
               PROVE  clock' > AwaitedUntil
      OBVIOUS
  <2>1. clock \in Nat /\ clock' \in Nat /\ Deadline \in Nat
      BY NextKeepsIInv, TimesAssumption DEF IInv, TypeOK
  <2>2. CASE phase = "sleeping"
    <3>1. Pause \in Nat /\ clock + Pause < Deadline
        BY <2>1, <2>2, PauseLeavesTime DEF IInv, TimeLeft, Remaining
    <3> QED BY <2>1, <2>2, <3>1 DEF AwaitedUntil
  <2>3. CASE phase # "sleeping"
    <3>1. phase = "calling"
        BY <2>3 DEF IInv, TimeLeft, Next, vars, Retrieve, RaiseHttpError, BeginAttempt, ReplyArrives,
           ProviderFails, CallRaises, WakeUp, Respond
    <3>2. callStart \in Nat /\ timeout = Deadline - callStart
        BY <2>3, <3>1 DEF IInv, TimeLeft, TypeOK
    <3> QED BY <2>1, <2>3, <3>2 DEF AwaitedUntil
  <2> QED BY <2>2, <2>3
<1>4. IInv /\ [Next]_vars => [Begun /\ Overrun]_vars
    BY <1>2, <1>3
<1> QED BY <1>4, Invariance, PTL DEF Spec, RetryPlannedWithinDeadline

\* Every step of an ask is one its promise allows, or shows the client nothing.
LEMMA StepsRefine == IInv /\ [Next]_vars => [Promise!Next]_<<Evidence, Outcome>>
<1> SUFFICES ASSUME IInv, [Next]_vars PROVE [Promise!Next]_<<Evidence, Outcome>>
    OBVIOUS
<1>1. phase # "answered" => Outcome = Promise!Pending
    BY DEF IInv, TypeOK, Outcome, Promise!Pending
<1>2. CASE Retrieve
  <2>1. /\ phase = "retrieving" /\ response' = response
        /\ \A i \in 1..Len(sources') : sources'[i] \in Chunks
    <3>1. sources' \in Seq(Chunks)
        BY <1>2, RetrieveKeepsIInv DEF IInv, TypeOK
    <3> QED BY <3>1, <1>2 DEF Retrieve
  <2>2. Evidence = {}
      BY <2>1 DEF IInv, SourcesDistinct, Evidence
  <2>3. Evidence' \in SUBSET Chunks
      BY <2>1 DEF Evidence
  <2>4. Outcome' = Outcome
      BY <2>1 DEF Outcome
  <2> QED BY <1>1, <2>1, <2>2, <2>3, <2>4 DEF Promise!Next, Promise!Gather
<1>3. CASE RaiseHttpError \/ CallRaises
  <2>1. Outcome = Promise!Pending /\ Evidence' = Evidence
      BY <1>1, <1>3 DEF RaiseHttpError, CallRaises, Evidence
  <2>2. response' # None /\ response'.kind = "error" /\ response'.cited = {}
      BY <1>3, ServerErrorShape DEF RaiseHttpError, CallRaises
  <2>3. Outcome' = [kind |-> "error", cited |-> {}]
      BY <2>2 DEF Outcome
  <2> QED BY <2>1, <2>3 DEF Promise!Next, Promise!Decline
<1>4. CASE Respond
  <2>1. Outcome = Promise!Pending /\ Evidence' = Evidence
      BY <1>1, <1>4 DEF Respond, Evidence
  <2>2. response' # None /\ response'.kind = KindOf(reply) /\ response'.cited = CitedBy(reply)
    <3>1. response' # None
        BY <1>4, RespondKeepsIInv DEF Respond, IInv, TypeOK
    <3> QED BY <3>1, <1>4 DEF Respond
  <2>3. Outcome' = [kind |-> KindOf(reply), cited |-> CitedBy(reply)]
      BY <2>2 DEF Outcome
  <2>4. reply # None => reply \in Replies /\ Rejection(reply) = None
      BY DEF IInv, TypeOK, AcceptedReply
  <2>5. CASE KindOf(reply) = "grounded"
    <3>1. reply # None /\ reply.status = "answerable"
        BY <2>4, <2>5 DEF KindOf, Replies, Statuses
    <3>2. reply.declared # {} /\ reply.declared \subseteq 1..Len(sources)
        BY <2>4, <3>1, AcceptedMeansGrounded
    <3>3. CitedBy(reply) \in SUBSET Evidence /\ CitedBy(reply) # {}
        BY <2>5, <3>2 DEF CitedBy, Evidence
    <3> QED BY <2>1, <2>3, <2>5, <3>3 DEF Promise!Next, Promise!Ground
  <2>6. CASE KindOf(reply) # "grounded"
    <3>1. KindOf(reply) \in {"out_of_scope", "insufficient", "failed"}
        BY <2>4, <2>6 DEF KindOf, Replies, Statuses
    <3>2. CitedBy(reply) = {}
        BY <2>6 DEF CitedBy
    <3> QED BY <2>1, <2>3, <3>1, <3>2 DEF Promise!Next, Promise!Decline
  <2> QED BY <2>5, <2>6
<1>5. CASE BeginAttempt \/ ReplyArrives \/ ProviderFails \/ WakeUp \/ UNCHANGED vars
    BY <1>5 DEF BeginAttempt, ReplyArrives, ProviderFails, WakeUp, vars, Evidence, Outcome
<1> QED BY <1>2, <1>3, <1>4, <1>5 DEF Next

\* Whatever the retrievers, the model and the clock do, the client gets one outcome, grounded in
\* evidence of this question or without any source: the safety part of PromiseKept.
THEOREM AskKeepsPromise == Spec => Promise!Safety
<1>1. Init => Promise!Init
    BY DEF Init, Promise!Init, Promise!Pending, Evidence, Outcome
<1> QED BY <1>1, Invariance, StepsRefine, PTL DEF Spec, Promise!Safety, Promise!vars

=============================================================================
