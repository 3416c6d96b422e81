------------------------- MODULE ReleaseServingProofs -------------------------
(***************************************************************************)
(* Proofs about what is served from a release.                              *)
(*                                                                         *)
(* QdrantRelease, for any operators, collections, corpora and batch sizes,  *)
(* when operators run one indexer at a time (OneIndexer): the run of        *)
(* QdrantReleaseRace.cfg shows what happens otherwise.                      *)
(*                                                                         *)
(* What a job reports is not inductive: a verification of three points says *)
(* something of the whole collection only because a collection never mixes  *)
(* corpora (Unmixed), and it never does because of what an indexer knows    *)
(* when it reaches its first upsert (Founded).                              *)
(*                                                                         *)
(* DocumentLibrary, for any files, pages and requests: a request that is    *)
(* not aborted asks for what its page asks for now (FetchSound), however    *)
(* many build a catalogue at once and whatever is replaced meanwhile. What  *)
(* it is answered is what the articles file says: the k-th of a sorted list *)
(* is the member with k - 1 others before it (RankOfPlace), and a list of   *)
(* codes in order is a list of entries in order (CodesListEntries).         *)
(***************************************************************************)
EXTENDS QdrantRelease, DocumentLibrary, FiniteSetTheorems, FunctionTheorems, TLAPS

\* A collection holds chunks of one corpus only, each one of that corpus.
Unmixed ==
    \A x \in Collections : \A k, l \in Stored(x) :
        points[x][k] = points[x][l] /\ k \in ToSet(Content[points[x][k]])

\* Operators run one indexer at a time.
OneWriter == \A i, j \in Jobs : Indexing(i) /\ Indexing(j) => i = j

Writing == {"recheck", "create", "write"}
Only(x, c) == \A k \in Stored(x) : points[x][k] = c

\* What a process knows of the collection at each of its steps
Founded(r) ==
    /\ r.pc \in {"exists", "count", "sample"} \union Writing => r.kind = "index"
    /\ r.pc \in Steps \union Reports => r.corpus \in Corpora /\ r.coll \in Collections
    /\ r.pc = "sample" => Stored(r.coll) # {}
    /\ r.pc \in Writing => Only(r.coll, r.corpus)
    /\ r.pc = "create" => r.step = 1
    /\ r.pc = "write" => r.coll \in colls
    /\ r.pc = "retrieve" => \/ Complete(r.coll, r.corpus)
                            \/ \E k \in Stored(r.coll) : points[r.coll][k] # r.corpus
    /\ r.pc = "retrieve" => r.step \in 1 .. 3
    /\ r.pc \in {"aliases", "switch", "confirm"} \union Reports => Complete(r.coll, r.corpus)
    /\ r.pc \in {"gate_alias", "gate_total", "gate_fingerprints", "ready"} =>
           r.coll = Release.coll /\ r.corpus = Release.corpus

IInv == TypeOK /\ Unmixed /\ OneWriter /\ \A j \in Jobs : Founded(job[j])

-----------------------------------------------------------------------------
(* Corpora and their batches                                                 *)

\* A corpus has as many chunk ids as chunks: ids are unique in it.
LEMMA CorpusIds ==
    ASSUME NEW c \in Corpora
    PROVE  /\ Size(c) \in Nat \ {0}
           /\ ToSet(Content[c]) \subseteq Chunks
           /\ IsFiniteSet(ToSet(Content[c]))
           /\ Cardinality(ToSet(Content[c])) = Size(c)
<1> DEFINE f == Content[c]  T == ToSet(f)
<1>1. /\ f \in Seq(T) /\ IsInjective(f) /\ Len(f) > 0
    BY ContentAssumption
<1> HIDE DEF f
<1>2. /\ Len(f) \in Nat /\ DOMAIN f = 1 .. Len(f) /\ f \in [1 .. Len(f) -> T]
    BY <1>1
<1>3. f \in Bijection(1 .. Len(f), T)
  <2>1. \A a, b \in 1 .. Len(f) : f[a] = f[b] => a = b
      BY <1>1, <1>2 DEF IsInjective
  <2>2. \A t \in T : \E a \in 1 .. Len(f) : f[a] = t
      BY <1>2 DEF ToSet
  <2> QED BY <1>2, <2>1, <2>2, Fun_IsInj, Fun_IsSurj DEF Bijection
<1>4. ExistsBijection(1 .. Len(f), T)
    BY <1>3, Fun_ExistsBij
<1>5. IsFiniteSet(T) /\ Cardinality(T) = Len(f)
  <2>1. IsFiniteSet(1 .. Len(f)) /\ Cardinality(1 .. Len(f)) = Len(f)
      BY <1>1, <1>2, FS_Interval
  <2> QED BY <1>4, <2>1, FS_Bijection
<1>6. T \subseteq Chunks
    BY DEF Chunks, f
<1> QED BY <1>1, <1>2, <1>5, <1>6 DEF f, Size

\* As many chunks of a corpus as it has are all of its chunks.
LEMMA FullCount ==
    ASSUME NEW c \in Corpora, NEW S, S \subseteq ToSet(Content[c])
    PROVE  /\ IsFiniteSet(S) /\ Cardinality(S) \in Nat
           /\ Cardinality(S) = Size(c) => S = ToSet(Content[c])
BY CorpusIds, FS_Subset, FS_CardinalityType

\* A corpus is written in at least one batch.
LEMMA SomeBatch ==
    ASSUME NEW c \in Corpora
    PROVE  Batches(c) \in Nat \ {0}
<1> DEFINE n == Size(c)
<1>1. n \in Nat /\ n > 0 /\ BatchSize \in Nat /\ BatchSize > 0
    BY CorpusIds, SizeAssumption
<1> HIDE DEF n
<1>2. (n + BatchSize - 1) \div BatchSize \in Nat \ {0}
    BY <1>1
<1> QED BY <1>2 DEF Batches, n

\* Every batch is a part of the corpus.
LEMMA BatchInCorpus ==
    ASSUME NEW c \in Corpora, NEW b \in Nat \ {0}
    PROVE  BatchOf(c, b) \subseteq ToSet(Content[c])
<1>1. /\ Size(c) \in Nat /\ DOMAIN Content[c] = 1 .. Size(c)
    BY CorpusIds, ContentAssumption DEF Size
<1>2. b * BatchSize \in Nat /\ (b - 1) * BatchSize \in Nat
    BY SizeAssumption
<1>3. Min({b * BatchSize, Size(c)}) \in Nat /\ Min({b * BatchSize, Size(c)}) <= Size(c)
  <2> DEFINE m == b * BatchSize  n == Size(c)
  <2>1. m \in Nat /\ n \in Nat
      BY <1>1, <1>2
  <2> HIDE DEF m, n
  <2>2. \E x \in {m, n} : \A y \in {m, n} : x <= y
      BY <2>1
  <2>3. Min({m, n}) \in {m, n} /\ \A y \in {m, n} : Min({m, n}) <= y
      BY <2>2 DEF Min
  <2> QED BY <2>1, <2>3 DEF m, n
<1> SUFFICES ASSUME NEW i \in ((b - 1) * BatchSize + 1) .. Min({b * BatchSize, Size(c)})
             PROVE  i \in DOMAIN Content[c]
    BY DEF BatchOf, ToSet
<1> QED BY <1>1, <1>2, <1>3

-----------------------------------------------------------------------------
(* Collections                                                               *)

\* A point stored as c in a collection that does not mix makes it a part of c.
LEMMA PartOfCorpus ==
    ASSUME TypeOK, Unmixed, NEW x \in Collections, NEW c \in Corpora, Only(x, c)
    PROVE  /\ Stored(x) \subseteq ToSet(Content[c])
           /\ Count(x) \in Nat
           /\ Count(x) = 0 <=> Stored(x) = {}
           /\ Count(x) = Size(c) => Complete(x, c)
<1>1. Stored(x) \subseteq ToSet(Content[c])
    BY DEF Unmixed, Only
<1>2. /\ IsFiniteSet(Stored(x)) /\ Count(x) \in Nat
      /\ Count(x) = Size(c) => Stored(x) = ToSet(Content[c])
    BY <1>1, FullCount DEF Count
<1>3. Count(x) = 0 <=> Stored(x) = {}
    BY <1>2, FS_EmptySet DEF Count
<1>4. ASSUME Stored(x) = ToSet(Content[c]) PROVE Complete(x, c)
  <2>1. \A k \in Chunks : points[x][k] = IF k \in ToSet(Content[c]) THEN c ELSE None
      BY <1>4 DEF Stored, Only
  <2>2. ToSet(Content[c]) # {}
      BY CorpusIds, FS_EmptySet
  <2>3. x \in colls
      BY <1>4, <2>2 DEF TypeOK
  <2> QED BY <2>1, <2>3 DEF Complete
<1> QED BY <1>1, <1>2, <1>3, <1>4

\* The points of a collection are counted, and none means it is empty.
LEMMA CountIsNat ==
    ASSUME TypeOK, Unmixed, NEW x \in Collections
    PROVE  Count(x) \in Nat /\ (Count(x) = 0 <=> Stored(x) = {})
<1>1. CASE Stored(x) = {}
    BY <1>1, FS_EmptySet DEF Count
<1>2. CASE Stored(x) # {}
  <2> PICK k \in Stored(x) : TRUE
      BY <1>2
  <2>1. points[x][k] \in Corpora /\ Only(x, points[x][k])
      BY DEF TypeOK, Stored, Unmixed, Only
  <2> QED BY <2>1, PartOfCorpus
<1> QED BY <1>1, <1>2

\* The count of a corpus' fingerprints tells whether all of it is there, and nothing else.
LEMMA CountedIsComplete ==
    ASSUME TypeOK, Unmixed, NEW x \in Collections, NEW c \in Corpora, CountOf(x, c) = Size(c)
    PROVE  Complete(x, c)
<1> DEFINE S == {k \in Chunks : points[x][k] = c}
<1>1. S \subseteq Stored(x) /\ S # {}
  <2>1. c # None
      BY NameAssumption
  <2>2. Cardinality(S) # 0
      BY CorpusIds DEF CountOf
  <2> QED BY <2>1, <2>2, FS_EmptySet DEF Stored
<1>2. Only(x, c)
    BY <1>1 DEF Unmixed, Only
<1>3. Stored(x) = S
    BY <1>1, <1>2 DEF Only, Stored
<1> QED BY <1>2, <1>3, PartOfCorpus DEF Count, CountOf

\* A whole corpus and nothing else.
LEMMA CompleteIsOnly ==
    ASSUME NEW x, NEW c, Complete(x, c)
    PROVE  Only(x, c)
BY DEF Complete, Only, Stored

-----------------------------------------------------------------------------
(* Steps that leave Qdrant alone                                             *)

\* A request that leaves the collections as they are keeps the invariant when the process
\* knows, at its next step, what that step needs, and does not become a second indexer.
LEMMA MoveKeepsIInv ==
    ASSUME IInv, NEW j \in Jobs, NEW r \in JobRecords,
           job' = [job EXCEPT ![j] = r],
           UNCHANGED <<colls, points>>, alias' \in colls \union {None},
           Founded(r),
           r.pc = "write" => r.step \in 1 .. Batches(r.corpus),
           r.kind = "index" /\ r.pc \notin Ended => \A i \in Jobs \ {j} : ~Indexing(i)
    PROVE  IInv'
<1>0. job \in [Jobs -> JobRecords]
    BY DEF IInv, TypeOK
<1>1. TypeOK'
    BY <1>0 DEF IInv, TypeOK, Stored
<1>2. Unmixed'
    BY DEF IInv, Unmixed, Stored
<1>3. OneWriter'
    BY <1>0 DEF IInv, OneWriter, Indexing
<1>4. \A i \in Jobs : Founded(job[i])'
  <2> SUFFICES ASSUME NEW i \in Jobs PROVE Founded(job[i])'
      OBVIOUS
  <2>1. job'[i] = IF i = j THEN r ELSE job[i]
      BY <1>0
  <2>2. Founded(job'[i])
      BY <2>1 DEF IInv
  <2> QED BY <2>2 DEF Founded, Only, Stored, Complete
<1> QED BY <1>1, <1>2, <1>3, <1>4 DEF IInv

\* The same for a process that goes on to a step, or ends and leaves its outcome
LEMMA GotoKeepsIInv ==
    ASSUME IInv, NEW j \in Jobs, NEW pc \in Steps \union Ended, NEW n \in Nat,
           job[j].pc \in Steps, GotoStep(j, pc, n), Idle,
           Founded([job[j] EXCEPT !.pc = pc, !.step = n]),
           pc = "write" => n \in 1 .. Batches(job[j].corpus)
    PROVE  IInv'
<1> DEFINE r == IF pc \in Ended THEN Leave(j, pc) ELSE [job[j] EXCEPT !.pc = pc, !.step = n]
<1>0. job[j] \in JobRecords /\ NoJob \in JobRecords
    BY DEF IInv, TypeOK, NoJob, JobRecords, Kinds, Ended
<1>1. job' = [job EXCEPT ![j] = r]
    BY DEF GotoStep
<1>2. r \in JobRecords
    BY <1>0 DEF Leave, JobRecords
<1>3. r.pc = pc
    BY <1>0 DEF Leave, JobRecords
<1>4. Founded(r)
  <2>1. CASE pc \in Ended \ Reports
    <3>1. r = [NoJob EXCEPT !.pc = pc]
        BY <2>1 DEF Leave
    <3> QED BY <2>1, <3>1, <1>0 DEF Founded, Writing, Steps, Reports, Ended, JobRecords
  <2>2. CASE pc \in Reports
    <3>1. r = [NoJob EXCEPT !.pc = pc, !.corpus = job[j].corpus, !.coll = job[j].coll]
        BY <2>2 DEF Leave, Ended
    <3>2. r.pc = pc /\ r.coll = job[j].coll /\ r.corpus = job[j].corpus
        BY <3>1, <1>0 DEF JobRecords
    <3> QED BY <2>2, <3>2, <1>0 DEF Founded, Writing, Reports, JobRecords
  <2>3. CASE pc \notin Ended
      BY <2>3
  <2> QED BY <2>1, <2>2, <2>3 DEF Ended
<1>5. r.pc = "write" => r.step \in 1 .. Batches(r.corpus)
    BY <1>0, <1>3 DEF Ended, Reports, JobRecords
<1>6. r.kind = "index" /\ r.pc \notin Ended => \A i \in Jobs \ {j} : ~Indexing(i)
    BY <1>0, <1>3 DEF IInv, OneWriter, Indexing, JobRecords, Steps, Ended, Reports
<1>7. UNCHANGED <<colls, points>> /\ alias' \in colls \union {None}
    BY DEF Idle, IInv, TypeOK
<1> HIDE DEF r
<1> QED BY <1>1, <1>2, <1>4, <1>5, <1>6, <1>7, MoveKeepsIInv

\* A process that starts knows nothing yet.
LEMMA StartKeepsIInv ==
    ASSUME IInv, NEW j \in Jobs, NEW kind \in Kinds, NEW pc \in {"exists", "schema", "names"},
           Start(j, kind, pc), pc = "exists" <=> kind = "index",
           kind = "index" => \A i \in Jobs : ~Indexing(i)
    PROVE  IInv'
<1>1. PICK c \in Corpora, x \in Collections, b \in BOOLEAN :
          job' = [job EXCEPT ![j] = [NoJob EXCEPT !.kind = kind, !.corpus = c, !.coll = x,
                                                  !.resume = b, !.pc = pc]]
    BY DEF Start
<1> DEFINE r == [NoJob EXCEPT !.kind = kind, !.corpus = c, !.coll = x, !.resume = b, !.pc = pc]
<1>2. r \in JobRecords /\ r.pc = pc /\ r.kind = kind /\ r.corpus = c /\ r.coll = x
    BY DEF NoJob, JobRecords, Steps, Ended
<1> HIDE DEF r
<1>3. Founded(r)
    BY <1>2 DEF Founded, Writing, Reports
<1>4. UNCHANGED <<colls, points>> /\ alias' \in colls \union {None}
    BY DEF Start, Idle, IInv, TypeOK
<1> QED BY <1>1, <1>2, <1>3, <1>4, MoveKeepsIInv DEF r

-----------------------------------------------------------------------------
(* The steps that fill collections                                           *)

\* A batch added to a collection that holds nothing of another corpus
LEMMA BatchAdded ==
    ASSUME TypeOK, Unmixed, NEW x \in colls, NEW c \in Corpora, Only(x, c),
           NEW B, B \subseteq ToSet(Content[c]), colls' = colls,
           points' = [points EXCEPT ![x] = [k \in Chunks |-> IF k \in B THEN c ELSE @[k]]]
    PROVE  /\ points' \in [Collections -> [Chunks -> Corpora \union {None}]]
           /\ \A y \in Collections \ {x} : points'[y] = points[y] /\ Stored(y)' = Stored(y)
           /\ Stored(x)' = Stored(x) \union B
           /\ Only(x, c)'
           /\ Unmixed'
           /\ \A y \in Collections, d \in Corpora : Complete(y, d) => Complete(y, d)'
<1>1. /\ points \in [Collections -> [Chunks -> Corpora \union {None}]]
      /\ x \in Collections /\ c # None /\ B \subseteq Chunks
    BY CorpusIds, NameAssumption DEF TypeOK
<1>2. points' \in [Collections -> [Chunks -> Corpora \union {None}]]
    BY <1>1
<1>3. \A y \in Collections \ {x} : points'[y] = points[y] /\ Stored(y)' = Stored(y)
    BY <1>1 DEF Stored
<1>4. \A k \in Chunks : points'[x][k] = IF k \in B THEN c ELSE points[x][k]
    BY <1>1
<1>5. Stored(x)' = Stored(x) \union B
    BY <1>1, <1>4 DEF Stored
<1>6. Only(x, c)'
    BY <1>1, <1>4, <1>5 DEF Only, Stored
<1>7. Stored(x) \subseteq ToSet(Content[c])
    BY <1>1, PartOfCorpus
<1>8. Unmixed'
  <2> SUFFICES ASSUME NEW y \in Collections, NEW k \in Stored(y)', NEW l \in Stored(y)'
               PROVE  points'[y][k] = points'[y][l] /\ k \in ToSet(Content[points'[y][k]])
      BY DEF Unmixed
  <2>1. CASE y = x
      BY <2>1, <1>5, <1>6, <1>7 DEF Only
  <2>2. CASE y # x
      BY <2>2, <1>3 DEF Unmixed
  <2> QED BY <2>1, <2>2
<1>9. ASSUME NEW y \in Collections, NEW d \in Corpora, Complete(y, d) PROVE Complete(y, d)'
  <2>1. CASE y # x
      BY <2>1, <1>3, <1>9 DEF Complete
  <2>2. CASE y = x
    <3>1. PICK k \in ToSet(Content[d]) : k \in Chunks
        BY CorpusIds, FS_EmptySet
    <3>2. d = c
        BY <3>1, <2>2, <1>9, NameAssumption DEF Complete, Stored, Only
    <3> QED BY <3>2, <2>2, <1>4, <1>9 DEF Complete
  <2> QED BY <2>1, <2>2
<1> QED BY <1>2, <1>3, <1>5, <1>6, <1>8, <1>9

\* What an upsert does to the collections
LEMMA UpsertEffect ==
    ASSUME IInv, NEW j \in Jobs, Upsert(j),
           NEW x, NEW c, NEW b, x = job[j].coll, c = job[j].corpus, b = job[j].step
    PROVE  /\ x \in colls /\ x \in Collections /\ c \in Corpora /\ Only(x, c)
           /\ Batches(c) \in Nat /\ b \in 1 .. Batches(c)
           /\ BatchOf(c, b) \subseteq ToSet(Content[c])
           /\ points' \in [Collections -> [Chunks -> Corpora \union {None}]]
           /\ \A y \in Collections \ {x} : points'[y] = points[y] /\ Stored(y)' = Stored(y)
           /\ Stored(x)' = Stored(x) \union BatchOf(c, b)
           /\ Only(x, c)'
           /\ Unmixed'
           /\ \A y \in Collections, d \in Corpora : Complete(y, d) => Complete(y, d)'
<1>0. /\ x \in colls /\ x \in Collections /\ c \in Corpora /\ Only(x, c) /\ b \in 1 .. Batches(c)
    BY DEF Upsert, IInv, TypeOK, Founded, Writing, Steps
<1>1. Batches(c) \in Nat /\ BatchOf(c, b) \subseteq ToSet(Content[c])
  <2>1. Batches(c) \in Nat
      BY <1>0, SomeBatch
  <2>2. b \in Nat \ {0}
      BY <1>0, <2>1
  <2> QED BY <1>0, <2>1, <2>2, BatchInCorpus
<1>2. /\ colls' = colls
      /\ points' = [points EXCEPT ![x] = [k \in Chunks |-> IF k \in BatchOf(c, b) THEN c ELSE @[k]]]
    BY DEF Upsert
<1>3. /\ points' \in [Collections -> [Chunks -> Corpora \union {None}]]
      /\ \A y \in Collections \ {x} : points'[y] = points[y] /\ Stored(y)' = Stored(y)
      /\ Stored(x)' = Stored(x) \union BatchOf(c, b)
      /\ Only(x, c)'
      /\ Unmixed'
      /\ \A y \in Collections, d \in Corpora : Complete(y, d) => Complete(y, d)'
    BY <1>0, <1>1, <1>2, BatchAdded DEF IInv
<1> QED BY <1>0, <1>1, <1>3

\* An upsert of the only indexer
LEMMA UpsertKeepsIInv ==
    ASSUME IInv, NEW j \in Jobs, Upsert(j)
    PROVE  IInv'
<1> PICK x, c, b : x = job[j].coll /\ c = job[j].corpus /\ b = job[j].step
    OBVIOUS
<1>0. /\ job \in [Jobs -> JobRecords] /\ job[j] \in JobRecords /\ job[j].pc = "write"
      /\ job[j].kind = "index"
    BY DEF Upsert, IInv, TypeOK, Founded, Writing
<1>1. /\ x \in colls /\ x \in Collections /\ c \in Corpora /\ Only(x, c)
      /\ Batches(c) \in Nat /\ b \in 1 .. Batches(c)
    BY UpsertEffect
<1>2. colls' = colls /\ alias' = alias
    BY DEF Upsert
<1>3. PICK pc \in {"write", "verify"}, n \in Nat :
          /\ job' = [job EXCEPT ![j] = [job[j] EXCEPT !.pc = pc, !.step = n]]
          /\ pc = "write" => n \in 1 .. Batches(c)
  <2>1. CASE LastBatch(b, c)
      BY <2>1 DEF Upsert, GotoStep, Ended, Reports
  <2>2. CASE ~LastBatch(b, c)
    <3>1. b + 1 \in 1 .. Batches(c)
        BY <2>2, <1>0, <1>1 DEF LastBatch
    <3>2. job' = [job EXCEPT ![j] = [job[j] EXCEPT !.pc = "write", !.step = b + 1]]
        BY <2>2 DEF Upsert, GotoStep, Ended, Reports
    <3>3. b + 1 \in Nat
        BY <1>1
    <3> QED BY <3>1, <3>2, <3>3
  <2> QED BY <2>1, <2>2
<1>4. /\ points' \in [Collections -> [Chunks -> Corpora \union {None}]]
      /\ \A y \in Collections \ {x} : points'[y] = points[y] /\ Stored(y)' = Stored(y)
      /\ Stored(x)' = Stored(x) \union BatchOf(c, b)
      /\ Only(x, c)'
      /\ Unmixed'
      /\ \A y \in Collections, d \in Corpora : Complete(y, d) => Complete(y, d)'
    BY UpsertEffect
<1> DEFINE r == [job[j] EXCEPT !.pc = pc, !.step = n]
<1>5. r \in JobRecords /\ r.pc = pc /\ r.step = n /\ r.coll = x /\ r.corpus = c /\ r.kind = "index"
    BY <1>0 DEF JobRecords, Steps
<1> HIDE DEF r
<1>6. job' = [job EXCEPT ![j] = r]
    BY <1>3 DEF r
<1>7. TypeOK'
    BY <1>0, <1>1, <1>2, <1>3, <1>4, <1>5, <1>6 DEF IInv, TypeOK
<1>8. OneWriter'
    BY <1>0, <1>5, <1>6 DEF IInv, OneWriter, Indexing, Ended, Reports
<1>9. ASSUME NEW i \in Jobs PROVE Founded(job[i])'
  <2>1. CASE i = j
      BY <2>1, <1>0, <1>1, <1>2, <1>4, <1>5, <1>6 DEF Founded, Writing, Reports
  <2>2. CASE i # j
    <3>1. job'[i] = job[i] /\ Founded(job[i]) /\ job[i] \in JobRecords
        BY <2>2, <1>0, <1>6 DEF IInv
    <3>2. job[i].pc \notin {"exists", "count", "sample"} \union Writing
        BY <2>2, <3>1, <1>0 DEF IInv, OneWriter, Indexing, Founded, Writing, Ended, Reports
    <3>3. ASSUME job[i].pc = "retrieve", NEW k \in Stored(job[i].coll),
                 points[job[i].coll][k] # job[i].corpus
          PROVE  k \in Stored(job[i].coll)' /\ points'[job[i].coll][k] # job[i].corpus
        BY <3>1, <3>3, <1>0, <1>1, <1>4 DEF Founded, Steps, Only
    <3> QED BY <3>1, <3>2, <3>3, <1>0, <1>1, <1>2, <1>4 DEF Founded, Writing, Steps
  <2> QED BY <2>1, <2>2
<1> QED BY <1>4, <1>7, <1>8, <1>9 DEF IInv

\* A collection that is created holds nothing, and whoever creates it writes into it.
LEMMA CreateKeepsIInv ==
    ASSUME IInv, NEW j \in Jobs, Create(j)
    PROVE  IInv'
<1> PICK x, c : x = job[j].coll /\ c = job[j].corpus
    OBVIOUS
<1>0. /\ job \in [Jobs -> JobRecords] /\ job[j] \in JobRecords /\ job[j].pc = "create"
      /\ x \in Collections /\ c \in Corpora /\ Only(x, c) /\ job[j].kind = "index"
      /\ job[j].step = 1
    BY DEF Create, IInv, TypeOK, Founded, Writing, Steps
<1>1. CASE x \in colls
  <2>1. colls' = colls /\ GotoStep(j, "stopped", job[j].step) /\ Idle
      BY <1>0, <1>1 DEF Create, Goto, Idle
  <2>2. Founded([job[j] EXCEPT !.pc = "stopped", !.step = job[j].step])
      BY <1>0 DEF IInv, Founded, JobRecords, Writing, Steps, Reports
  <2> QED BY <1>0, <2>1, <2>2, GotoKeepsIInv DEF Ended, Steps
<1>2. CASE x \notin colls
  <2> DEFINE r == [job[j] EXCEPT !.pc = "write", !.step = 1]
  <2>1. /\ colls' = colls \union {x} /\ points' = points /\ alias' = alias
        /\ job' = [job EXCEPT ![j] = r]
      BY <1>0, <1>2 DEF Create, Goto, GotoStep, Ended, Reports
  <2>2. r \in JobRecords /\ r.pc = "write" /\ r.step = 1 /\ r.coll = x /\ r.corpus = c /\ r.kind = "index"
      BY <1>0 DEF JobRecords, Steps
  <2> HIDE DEF r
  <2>3. 1 \in 1 .. Batches(c)
    <3>1. Batches(c) \in Nat \ {0}
        BY <1>0, SomeBatch
    <3> QED BY <3>1
  <2>4. TypeOK'
      BY <1>0, <2>1, <2>2, <2>3 DEF IInv, TypeOK, Stored
  <2>5. Unmixed'
      BY <2>1 DEF IInv, Unmixed, Stored
  <2>6. OneWriter'
      BY <1>0, <2>1, <2>2 DEF IInv, OneWriter, Indexing, Ended, Reports
  <2>7. ASSUME NEW y, NEW d, Complete(y, d) PROVE Complete(y, d)'
      BY <2>1, <2>7 DEF Complete
  <2>8. ASSUME NEW i \in Jobs PROVE Founded(job[i])'
    <3>1. CASE i = j
        BY <3>1, <1>0, <2>1, <2>2 DEF Founded, Writing, Reports, Only, Stored
    <3>2. CASE i # j
      <4>1. job'[i] = job[i] /\ Founded(job[i])
          BY <3>2, <1>0, <2>1 DEF IInv
      <4> QED BY <4>1, <2>1, <2>7 DEF Founded, Only, Stored
    <3> QED BY <3>1, <3>2
  <2> QED BY <2>4, <2>5, <2>6, <2>8 DEF IInv
<1> QED BY <1>1, <1>2

\* The other steps of an indexer or a verifier
LEMMA IndexerKeepsIInv ==
    ASSUME OneIndexer, IInv, NEW j \in Jobs, IndexerStep(j)
    PROVE  IInv'
<1> USE DEF Steps, Ended, Reports
<1>0. /\ job[j] \in JobRecords /\ job[j].step \in Nat
      /\ Founded(job[j]) /\ TypeOK /\ Unmixed
    BY DEF IInv, TypeOK, JobRecords
<1>1. CASE StartIndexer(j)
    BY <1>1, StartKeepsIInv DEF StartIndexer, Kinds
<1>2. CASE StartVerifier(j)
    BY <1>2, StartKeepsIInv DEF StartVerifier, Kinds
<1>3. CASE CheckExists(j)
  <2> PICK pc : pc = IF job[j].coll \notin colls THEN "recheck"
                     ELSE IF job[j].resume THEN "count" ELSE "refused"
      OBVIOUS
  <2>1. /\ job[j].pc = "exists" /\ Idle
        /\ GotoStep(j, pc, job[j].step) /\ pc \in {"recheck", "count", "refused"}
      BY <1>3 DEF CheckExists, Goto
  <2>2. pc = "recheck" => Only(job[j].coll, job[j].corpus)
      BY <1>0, <2>1 DEF TypeOK, Only, Founded
  <2>3. Founded([job[j] EXCEPT !.pc = pc, !.step = job[j].step])
      BY <1>0, <2>1, <2>2 DEF Founded, JobRecords, Writing
  <2> QED BY <1>0, <2>1, <2>3, GotoKeepsIInv
<1>4. CASE ResumeCount(j)
  <2> PICK pc : pc = IF TooMany(Count(job[j].coll), job[j].corpus) THEN "refused"
                     ELSE IF Count(job[j].coll) = 0 THEN "recheck" ELSE "sample"
      OBVIOUS
  <2>1. /\ job[j].pc = "count" /\ Idle
        /\ GotoStep(j, pc, job[j].step) /\ pc \in {"recheck", "sample", "refused"}
      BY <1>4 DEF ResumeCount, Goto
  <2>2. /\ pc = "recheck" => Only(job[j].coll, job[j].corpus)
        /\ pc = "sample" => Stored(job[j].coll) # {}
    <3>1. job[j].coll \in Collections
        BY <1>0, <2>1 DEF Founded
    <3> QED BY <1>0, <3>1, CountIsNat DEF Only
  <2>3. Founded([job[j] EXCEPT !.pc = pc, !.step = job[j].step])
      BY <1>0, <2>1, <2>2 DEF Founded, JobRecords, Writing
  <2> QED BY <1>0, <2>1, <2>3, GotoKeepsIInv
<1>5. CASE ResumeSample(j)
  <2> DEFINE x == job[j].coll  c == job[j].corpus  n == Min({SampleSize, Count(x)})
  <2>1. PICK S \in kSubset(n, Stored(x)) :
            Goto(j, IF SampleMatches(S, x, c) THEN "recheck" ELSE "refused")
      BY <1>5 DEF ResumeSample
  <2> PICK pc : pc = IF SampleMatches(S, x, c) THEN "recheck" ELSE "refused"
      OBVIOUS
  <2>2. /\ job[j].pc = "sample" /\ Idle
        /\ GotoStep(j, pc, job[j].step) /\ pc \in {"recheck", "refused"}
      BY <1>5, <2>1 DEF ResumeSample, Goto
  <2>3. S \subseteq Stored(x) /\ S # {}
    <3>1. S \subseteq Stored(x) /\ Cardinality(S) = n
        BY DEF kSubset
    <3>2. Count(x) \in Nat \ {0}
        BY <1>0, <2>2, CountIsNat DEF Founded
    <3>3. n # 0
        BY <3>2, SizeAssumption DEF Min
    <3> QED BY <3>1, <3>3, FS_EmptySet
  <2>4. pc = "recheck" => Only(x, c)
    \* One point that matches speaks for the collection, because it does not mix.
    <3>1. SUFFICES ASSUME SampleMatches(S, x, c) PROVE Only(x, c)
        OBVIOUS
    <3>2. PICK k \in Stored(x) : points[x][k] = c
        BY <2>3, <3>1 DEF SampleMatches
    <3> QED BY <1>0, <2>2, <3>2 DEF Unmixed, Only, Founded
  <2>5. Founded([job[j] EXCEPT !.pc = pc, !.step = job[j].step])
      BY <1>0, <2>2, <2>4 DEF Founded, JobRecords, Writing
  <2> QED BY <1>0, <2>2, <2>5, GotoKeepsIInv
<1>6. CASE Recheck(j)
  <2> PICK pc : pc = IF job[j].coll \in colls THEN "write" ELSE "create"
      OBVIOUS
  <2>1. /\ job[j].pc = "recheck" /\ Idle
        /\ GotoStep(j, pc, 1) /\ pc \in {"write", "create"}
      BY <1>6 DEF Recheck
  <2>2. 1 \in 1 .. Batches(job[j].corpus)
    <3>1. Batches(job[j].corpus) \in Nat \ {0}
        BY <1>0, <2>1, SomeBatch DEF Founded
    <3> QED BY <3>1
  <2>3. Founded([job[j] EXCEPT !.pc = pc, !.step = 1])
      BY <1>0, <2>1 DEF Founded, JobRecords, Writing
  <2> QED BY <1>0, <2>1, <2>2, <2>3, GotoKeepsIInv
<1>7. CASE Create(j)
    BY <1>7, CreateKeepsIInv
<1>8. CASE Upsert(j)
    BY <1>8, UpsertKeepsIInv
<1>9. CASE VerifySchema(j)
  <2> PICK pc : pc = IF job[j].coll \in colls THEN "verify" ELSE "mismatch"
      OBVIOUS
  <2>1. /\ job[j].pc = "schema" /\ Idle
        /\ GotoStep(j, pc, job[j].step) /\ pc \in {"verify", "mismatch"}
      BY <1>9 DEF VerifySchema, Goto
  <2>2. Founded([job[j] EXCEPT !.pc = pc, !.step = job[j].step])
      BY <1>0, <2>1 DEF Founded, JobRecords, Writing
  <2> QED BY <1>0, <2>1, <2>2, GotoKeepsIInv
<1>10. CASE VerifyCount(j)
  <2> DEFINE x == job[j].coll  c == job[j].corpus
  <2> PICK pc : pc = IF Count(x) = Size(c) THEN "retrieve" ELSE "mismatch"
      OBVIOUS
  <2>1. /\ job[j].pc = "verify" /\ Idle /\ x \in Collections /\ c \in Corpora
        /\ GotoStep(j, pc, 1) /\ pc \in {"retrieve", "mismatch"}
      BY <1>0, <1>10 DEF VerifyCount, Founded
  <2>2. Count(x) = Size(c) => Complete(x, c) \/ \E k \in Stored(x) : points[x][k] # c
      BY <1>0, <2>1, PartOfCorpus DEF Only
  <2>3. Founded([job[j] EXCEPT !.pc = pc, !.step = 1])
      BY <1>0, <2>1, <2>2 DEF Founded, JobRecords, Writing
  <2> QED BY <1>0, <2>1, <2>3, GotoKeepsIInv
<1>11. CASE VerifyPoint(j)
  <2> DEFINE x == job[j].coll  c == job[j].corpus  i == job[j].step  k == Checked(c)[i]
             next == IF i < 3 THEN "retrieve"
                     ELSE IF job[j].kind = "index" THEN "completed" ELSE "verified"
  <2> PICK pc : pc = IF PointMatches(k, x, c) THEN next ELSE "mismatch"
      OBVIOUS
  <2>1. /\ job[j].pc = "retrieve" /\ Idle /\ x \in Collections /\ c \in Corpora /\ i \in 1 .. 3
        /\ GotoStep(j, pc, i + 1) /\ pc \in {"retrieve", "completed", "verified", "mismatch"}
      BY <1>0, <1>11 DEF VerifyPoint, Founded
  <2>2. pc # "mismatch" => Complete(x, c)
    \* The point that matches rules out a collection of some other corpus.
    <3>1. SUFFICES ASSUME PointMatches(k, x, c) PROVE Complete(x, c)
        OBVIOUS
    <3>2. k \in Chunks
      <4>1. Content[c] \in Seq(ToSet(Content[c])) /\ Size(c) \in Nat \ {0} /\ ToSet(Content[c]) \subseteq Chunks
          BY <2>1, ContentAssumption, CorpusIds
      <4>2. \A n \in Nat \ {0} : (n \div 2) + 1 \in 1 .. n
          OBVIOUS
      <4>3. {1, (Size(c) \div 2) + 1, Size(c)} \subseteq DOMAIN Content[c]
        <5>1. (Size(c) \div 2) + 1 \in 1 .. Size(c)
            BY <4>1, <4>2
        <5>2. 1 \in 1 .. Size(c) /\ Size(c) \in 1 .. Size(c)
            BY <4>1
        <5>3. DOMAIN Content[c] = 1 .. Size(c)
            BY <4>1 DEF Size
        <5> QED BY <5>1, <5>2, <5>3
      <4>4. PICK first, middle, last :
                /\ first = Content[c][1] /\ middle = Content[c][(Size(c) \div 2) + 1]
                /\ last = Content[c][Size(c)]
          OBVIOUS
      <4>5. first \in Chunks /\ middle \in Chunks /\ last \in Chunks
          BY <4>1, <4>3, <4>4
      <4>6. k = <<first, middle, last>>[i]
          BY <4>4 DEF Checked
      <4> QED BY <2>1, <4>5, <4>6
    <3>3. k \in Stored(x)
        BY <2>1, <3>1, <3>2, NameAssumption DEF PointMatches, Stored
    <3> QED BY <1>0, <2>1, <3>1, <3>3 DEF Founded, Unmixed, PointMatches
  <2>3. pc = "retrieve" => i + 1 \in 1 .. 3
      BY <2>1
  <2>4. Founded([job[j] EXCEPT !.pc = pc, !.step = i + 1])
    <3> HIDE DEF next, k
    <3> QED BY <1>0, <2>1, <2>2, <2>3 DEF Founded, JobRecords, Writing
  <2>5. i + 1 \in Nat /\ pc # "write" /\ pc \in Steps \union Ended /\ job[j].pc \in Steps
      BY <2>1
  <2> QED BY <1>0, <2>1, <2>4, <2>5, GotoKeepsIInv
<1> QED BY <1>1, <1>2, <1>3, <1>4, <1>5, <1>6, <1>7, <1>8, <1>9, <1>10, <1>11 DEF IndexerStep

-----------------------------------------------------------------------------
(* The activation of the alias, and the gate of the API                      *)

\* The steps of an activation
LEMMA ActivationKeepsIInv ==
    ASSUME IInv, NEW j \in Jobs, ActivationStep(j)
    PROVE  IInv'
<1> USE DEF Steps, Ended, Reports
<1>0. /\ job \in [Jobs -> JobRecords] /\ job[j] \in JobRecords /\ job[j].step \in Nat
      /\ Founded(job[j]) /\ TypeOK /\ Unmixed
    BY DEF IInv, TypeOK, JobRecords
<1> DEFINE x == job[j].coll  c == job[j].corpus
<1>1. CASE StartActivation(j)
    BY <1>1, StartKeepsIInv DEF StartActivation, Kinds
<1>2. CASE PhysicalNames(j)
  <2> PICK pc : pc = IF x \in colls THEN "total" ELSE "mismatch"
      OBVIOUS
  <2>1. /\ job[j].pc = "names" /\ Idle
        /\ GotoStep(j, pc, job[j].step) /\ pc \in {"total", "mismatch"}
      BY <1>2 DEF PhysicalNames, Goto
  <2>2. Founded([job[j] EXCEPT !.pc = pc, !.step = job[j].step])
      BY <1>0, <2>1 DEF Founded, JobRecords, Writing
  <2> QED BY <1>0, <2>1, <2>2, GotoKeepsIInv
<1>3. CASE TotalCount(j)
  <2> DEFINE r == [job[j] EXCEPT !.total = Count(x), !.pc = "fingerprints"]
  <2>1. job[j].pc = "total" /\ Idle /\ job' = [job EXCEPT ![j] = r] /\ x \in Collections
      BY <1>0, <1>3 DEF TotalCount, Founded, JobRecords
  <2>2. Count(x) \in Nat
      BY <1>0, <2>1, CountIsNat
  <2>3. r \in JobRecords /\ r.pc = "fingerprints" /\ r.coll = x /\ r.corpus = c /\ r.kind = job[j].kind
      BY <1>0, <2>2 DEF JobRecords
  <2> HIDE DEF r
  <2>4. Founded(r)
      BY <1>0, <2>1, <2>3 DEF Founded, Writing
  <2>5. r.kind = "index" => \A i \in Jobs \ {j} : ~Indexing(i)
      BY <2>1, <2>3 DEF IInv, OneWriter, Indexing
  <2> QED BY <1>0, <2>1, <2>3, <2>4, <2>5, MoveKeepsIInv DEF Idle, TypeOK
<1>4. CASE FingerprintCount(j)
  <2> PICK pc : pc = IF CountsMatch(job[j].total, CountOf(x, c), c) THEN "aliases" ELSE "mismatch"
      OBVIOUS
  <2>1. /\ job[j].pc = "fingerprints" /\ Idle /\ x \in Collections /\ c \in Corpora
        /\ GotoStep(j, pc, job[j].step) /\ pc \in {"aliases", "mismatch"}
      BY <1>0, <1>4 DEF FingerprintCount, Goto, Founded
  <2>2. pc = "aliases" => Complete(x, c)
      BY <1>0, <2>1, CountedIsComplete DEF CountsMatch
  <2>3. Founded([job[j] EXCEPT !.pc = pc, !.step = job[j].step])
      BY <1>0, <2>1, <2>2 DEF Founded, JobRecords, Writing
  <2> QED BY <1>0, <2>1, <2>3, GotoKeepsIInv
<1>5. CASE ReadAliases(j)
  <2> PICK pc : pc = IF alias = x THEN "confirm" ELSE IF job[j].resume THEN "mismatch" ELSE "switch"
      OBVIOUS
  <2>1. /\ job[j].pc = "aliases" /\ Idle
        /\ GotoStep(j, pc, job[j].step) /\ pc \in {"confirm", "mismatch", "switch"}
      BY <1>5 DEF ReadAliases, Goto
  <2>2. Founded([job[j] EXCEPT !.pc = pc, !.step = job[j].step])
      BY <1>0, <2>1 DEF Founded, JobRecords, Writing
  <2> QED BY <1>0, <2>1, <2>2, GotoKeepsIInv
<1>6. CASE SwitchAlias(j)
  <2> DEFINE r == [job[j] EXCEPT !.pc = "confirm", !.step = job[j].step]
  <2>1. /\ job[j].pc = "switch" /\ alias' = x /\ UNCHANGED <<colls, points>>
        /\ job' = [job EXCEPT ![j] = r] /\ Complete(x, c)
      BY <1>0, <1>6 DEF SwitchAlias, Goto, GotoStep, Founded
  <2>2. r \in JobRecords /\ r.pc = "confirm" /\ r.coll = x /\ r.corpus = c /\ r.kind = job[j].kind
      BY <1>0 DEF JobRecords
  <2> HIDE DEF r
  <2>3. Founded(r)
      BY <1>0, <2>1, <2>2 DEF Founded, Writing
  <2>4. alias' \in colls \union {None}
      BY <2>1 DEF Complete
  <2>5. r.kind = "index" => \A i \in Jobs \ {j} : ~Indexing(i)
      BY <2>1, <2>2 DEF IInv, OneWriter, Indexing
  <2> QED BY <2>1, <2>2, <2>3, <2>4, <2>5, MoveKeepsIInv
<1>7. CASE ConfirmAlias(j)
  <2> PICK pc : pc = IF alias = x THEN "active" ELSE "mismatch"
      OBVIOUS
  <2>1. /\ job[j].pc = "confirm" /\ Idle
        /\ GotoStep(j, pc, job[j].step) /\ pc \in {"active", "mismatch"}
      BY <1>7 DEF ConfirmAlias, Goto
  <2>2. Founded([job[j] EXCEPT !.pc = pc, !.step = job[j].step])
      BY <1>0, <2>1 DEF Founded, JobRecords, Writing
  <2> QED BY <1>0, <2>1, <2>2, GotoKeepsIInv
<1> QED BY <1>1, <1>2, <1>3, <1>4, <1>5, <1>6, <1>7 DEF ActivationStep

\* The steps of a probe
LEMMA GateKeepsIInv ==
    ASSUME IInv, NEW j \in Jobs, GateStep(j)
    PROVE  IInv'
<1> USE DEF Steps, Ended, Reports
<1>0. /\ job \in [Jobs -> JobRecords] /\ job[j] \in JobRecords /\ job[j].step \in Nat
      /\ Founded(job[j]) /\ TypeOK /\ Unmixed
      /\ Release.coll \in Collections /\ Release.corpus \in Corpora
    BY NameAssumption DEF IInv, TypeOK, JobRecords
<1>1. CASE Probe(j)
  <2> DEFINE r == [NoJob EXCEPT !.kind = "gate", !.corpus = Release.corpus,
                                !.coll = Release.coll, !.pc = "gate_alias"]
  <2>1. Idle /\ job' = [job EXCEPT ![j] = r]
      BY <1>1 DEF Probe
  <2>2. /\ r \in JobRecords /\ r.pc = "gate_alias" /\ r.kind = "gate"
        /\ r.coll = Release.coll /\ r.corpus = Release.corpus
      BY <1>0 DEF NoJob, JobRecords, Kinds
  <2> HIDE DEF r
  <2>3. Founded(r)
      BY <1>0, <2>2 DEF Founded, Writing
  <2> QED BY <1>0, <2>1, <2>2, <2>3, MoveKeepsIInv DEF Idle, TypeOK
<1>2. CASE GateAlias(j)
  <2> PICK pc : pc = IF alias = Release.coll THEN "gate_total" ELSE "not_ready"
      OBVIOUS
  <2>1. /\ job[j].pc = "gate_alias" /\ Idle
        /\ GotoStep(j, pc, job[j].step) /\ pc \in {"gate_total", "not_ready"}
      BY <1>2 DEF GateAlias, Goto
  <2>2. Founded([job[j] EXCEPT !.pc = pc, !.step = job[j].step])
      BY <1>0, <2>1 DEF Founded, JobRecords, Writing
  <2> QED BY <1>0, <2>1, <2>2, GotoKeepsIInv
<1>3. CASE GateTotal(j)
  <2> DEFINE r == [job[j] EXCEPT !.total = Count(Release.coll), !.pc = "gate_fingerprints"]
  <2>1. job[j].pc = "gate_total" /\ Idle /\ job' = [job EXCEPT ![j] = r]
      BY <1>0, <1>3 DEF GateTotal, JobRecords
  <2>2. Count(Release.coll) \in Nat
      BY <1>0, CountIsNat
  <2>3. /\ r \in JobRecords /\ r.pc = "gate_fingerprints" /\ r.kind = job[j].kind
        /\ r.coll = job[j].coll /\ r.corpus = job[j].corpus
      BY <1>0, <2>2 DEF JobRecords
  <2> HIDE DEF r
  <2>4. Founded(r)
      BY <1>0, <2>1, <2>3 DEF Founded, Writing
  <2>5. r.kind = "index" => \A i \in Jobs \ {j} : ~Indexing(i)
      BY <2>1, <2>3 DEF IInv, OneWriter, Indexing
  <2> QED BY <1>0, <2>1, <2>3, <2>4, <2>5, MoveKeepsIInv DEF Idle, TypeOK
<1>4. CASE GateVerdict(j)
  <2> DEFINE fp == CountOf(Release.coll, Release.corpus)
  <2>1. PICK green \in BOOLEAN :
            Goto(j, IF green /\ GateCountsMatch(job[j].total, fp) THEN "ready" ELSE "not_ready")
      BY <1>4 DEF GateVerdict
  <2> PICK pc : pc = IF green /\ GateCountsMatch(job[j].total, fp) THEN "ready" ELSE "not_ready"
      OBVIOUS
  <2>2. /\ job[j].pc = "gate_fingerprints" /\ Idle
        /\ GotoStep(j, pc, job[j].step) /\ pc \in {"ready", "not_ready"}
      BY <1>4, <2>1 DEF GateVerdict, Goto
  <2>3. pc = "ready" => Complete(Release.coll, Release.corpus)
      BY <1>0, CountedIsComplete DEF GateCountsMatch
  <2>4. Founded([job[j] EXCEPT !.pc = pc, !.step = job[j].step])
      BY <1>0, <2>2, <2>3 DEF Founded, JobRecords, Writing
  <2> QED BY <1>0, <2>2, <2>4, GotoKeepsIInv
<1> QED BY <1>1, <1>2, <1>3, <1>4 DEF GateStep

\* A process that stops, between any two requests, leaves nothing behind that matters.
LEMMA StopKeepsIInv ==
    ASSUME IInv, NEW j \in Jobs, Stop(j)
    PROVE  IInv'
<1>1. /\ job[j].pc \in Steps /\ job[j].step \in Nat /\ job[j] \in JobRecords /\ Founded(job[j])
      /\ GotoStep(j, "stopped", job[j].step) /\ Idle
    BY DEF Stop, Goto, IInv, TypeOK, JobRecords
<1>2. Founded([job[j] EXCEPT !.pc = "stopped", !.step = job[j].step])
    BY <1>1 DEF Founded, JobRecords, Writing, Steps, Reports
<1> QED BY <1>1, <1>2, GotoKeepsIInv DEF Ended, Steps

-----------------------------------------------------------------------------
(* The theorems                                                              *)

\* Nothing is stored, and nobody runs, when the service is first set up.
LEMMA InitEstablishesIInv == Init => IInv
<1> SUFFICES ASSUME Init PROVE IInv
    OBVIOUS
<1>1. TypeOK
  <2>1. NoJob \in JobRecords
      BY DEF NoJob, JobRecords, Kinds, Ended
  <2> QED BY <2>1 DEF Init, TypeOK, Stored, NoJob
<1>2. Unmixed /\ OneWriter
    BY DEF Init, Unmixed, Stored, OneWriter, Indexing, NoJob
<1>3. \A j \in Jobs : Founded(job[j])
    BY DEF Init, Founded, NoJob, Writing, Steps, Reports
<1> QED BY <1>1, <1>2, <1>3 DEF IInv

\* Every step of an operator's process or of a probe keeps the invariant.
LEMMA NextKeepsIInv == OneIndexer /\ IInv /\ [Next]_vars => IInv'
<1> SUFFICES ASSUME OneIndexer, IInv, [Next]_vars PROVE IInv'
    OBVIOUS
<1>1. ASSUME NEW j \in Jobs, IndexerStep(j) PROVE IInv'
    BY <1>1, IndexerKeepsIInv
<1>2. ASSUME NEW j \in Jobs, ActivationStep(j) PROVE IInv'
    BY <1>2, ActivationKeepsIInv
<1>3. ASSUME NEW j \in Jobs, GateStep(j) PROVE IInv'
    BY <1>3, GateKeepsIInv
<1>4. ASSUME NEW j \in Jobs, Stop(j) PROVE IInv'
    BY <1>4, StopKeepsIInv
<1>5. CASE UNCHANGED vars
    BY <1>5 DEF vars, IInv, TypeOK, Unmixed, OneWriter, Indexing, Founded, Only, Stored, Complete
<1> QED BY <1>1, <1>2, <1>3, <1>4, <1>5 DEF Next

\* The invariant the theorems below rest on
THEOREM Invariance == ASSUME OneIndexer PROVE Spec => []IInv
BY InitEstablishesIInv, NextKeepsIInv, PTL DEF Spec

\* Points lie in collections that exist, the alias names one that does, and an indexer is always
\* at one of its batches.
THEOREM TypeCorrect == ASSUME OneIndexer PROVE Spec => []TypeOK
<1>1. IInv => TypeOK
    BY DEF IInv
<1> QED BY <1>1, Invariance, PTL

\* A status of completed, verified or active stays true of the collection it is about.
THEOREM ReportsStayTrue == ASSUME OneIndexer PROVE Spec => []ReportsHold
<1>1. IInv => ReportsHold
    BY DEF IInv, ReportsHold, Founded, Reports
<1> QED BY <1>1, Invariance, PTL

\* The three requests of a probe are not atomic, and still ready means that the release is served.
THEOREM ReadyIsComplete == ASSUME OneIndexer PROVE Spec => []ReadyMeansComplete
<1>1. IInv => ReadyMeansComplete
  <2> SUFFICES ASSUME IInv, NEW j \in Jobs, job[j].pc = "ready"
               PROVE  Complete(Release.coll, Release.corpus)
      BY DEF ReadyMeansComplete
  <2> QED BY DEF IInv, Founded, Reports
<1> QED BY <1>1, Invariance, PTL

-----------------------------------------------------------------------------
(* The promise of ReleasePromise                                             *)

\* The promise's chunks of a corpus are the model's.
LEMMA PromisedChunks == \A c : Promise!Of(c) = ToSet(Content[c]) \X {c}
BY DEF Promise!Of, Promise!ToSet, ToSet

\* A collection that holds a corpus entirely, as the promise sees it
LEMMA CompleteIsWhole ==
    ASSUME NEW x \in Collections, NEW c \in Corpora, Complete(x, c)
    PROVE  Held[x] = Promise!Of(c)
<1>1. Stored(x) = ToSet(Content[c]) /\ \A k \in Stored(x) : points[x][k] = c
    BY CorpusIds, NameAssumption DEF Complete, Stored
<1> QED BY <1>1, PromisedChunks DEF Held

\* An upsert of the only indexer grows a collection by chunks of its own corpus.
LEMMA UpsertGrows ==
    ASSUME IInv, NEW j \in Jobs, Upsert(j)
    PROVE  \E x \in Collections : Promise!Grow(x)
<1> PICK x, c, b : x = job[j].coll /\ c = job[j].corpus /\ b = job[j].step
    OBVIOUS
<1>1. /\ x \in Collections /\ c \in Corpora /\ Only(x, c)
      /\ BatchOf(c, b) \subseteq ToSet(Content[c])
    BY UpsertEffect
<1>2. \A y \in Collections \ {x} : points'[y] = points[y] /\ Stored(y)' = Stored(y)
    BY UpsertEffect
<1>3. Stored(x)' = Stored(x) \union BatchOf(c, b)
    BY UpsertEffect
<1>4. Only(x, c)'
    BY UpsertEffect
<1> DEFINE B == BatchOf(c, b)
<1> HIDE DEF B
<1>5. Held[x] \subseteq Promise!Of(c)
  <2>1. Stored(x) \subseteq ToSet(Content[c])
      BY <1>1, PartOfCorpus DEF IInv
  <2> QED BY <1>1, <2>1, PromisedChunks DEF Held, Only
<1>6. B \X {c} \in SUBSET Promise!Of(c)
    BY <1>1, PromisedChunks DEF B
<1>7. Held' = [Held EXCEPT ![x] = @ \union (B \X {c})]
  <2>1. \A y \in Collections \ {x} : Held'[y] = Held[y]
      BY <1>2 DEF Held
  <2>2. Held'[x] = Held[x] \union (B \X {c})
      BY <1>1, <1>3, <1>4 DEF Held, Only, B
  <2> QED BY <1>1, <2>1, <2>2 DEF Held
<1>8. alias' = alias
    BY DEF Upsert
<1> QED BY <1>1, <1>5, <1>6, <1>7, <1>8 DEF Promise!Grow

\* The alias moves to a collection that one corpus fills.
LEMMA SwitchPromotes ==
    ASSUME IInv, NEW j \in Jobs, SwitchAlias(j)
    PROVE  \E x \in Collections : Promise!Promote(x)
<1>1. /\ job[j].coll \in Collections /\ job[j].corpus \in Corpora
      /\ Complete(job[j].coll, job[j].corpus)
    BY DEF SwitchAlias, IInv, Founded, Steps
<1>2. Held[job[j].coll] = Promise!Of(job[j].corpus)
    BY <1>1, CompleteIsWhole
<1>3. Held' = Held /\ alias' = job[j].coll
    BY DEF SwitchAlias, Held, Stored
<1> QED BY <1>1, <1>2, <1>3 DEF Promise!Promote

\* Every other step leaves what is promised alone.
LEMMA StepsRefine == IInv /\ [Next]_vars => [Promise!Next]_<<Held, alias>>
<1> SUFFICES ASSUME IInv, [Next]_vars PROVE [Promise!Next]_<<Held, alias>>
    OBVIOUS
<1>1. CASE UNCHANGED <<points, alias>>
    BY <1>1 DEF Held, Stored
<1>2. ASSUME NEW j \in Jobs, IndexerStep(j)
      PROVE  UNCHANGED <<points, alias>> \/ Promise!Next
  <2>1. CASE Upsert(j)
      BY <2>1, UpsertGrows DEF Promise!Next
  <2>2. CASE ~Upsert(j)
      BY <1>2, <2>2
         DEF IndexerStep, StartIndexer, CheckExists, ResumeCount, ResumeSample, Recheck, Create,
             StartVerifier, VerifySchema, VerifyCount, VerifyPoint, Start, Idle
  <2> QED BY <2>1, <2>2
<1>3. ASSUME NEW j \in Jobs, ActivationStep(j)
      PROVE  UNCHANGED <<points, alias>> \/ Promise!Next
  <2>1. CASE SwitchAlias(j)
      BY <2>1, SwitchPromotes DEF Promise!Next
  <2>2. CASE ~SwitchAlias(j)
      BY <1>3, <2>2
         DEF ActivationStep, StartActivation, PhysicalNames, TotalCount, FingerprintCount,
             ReadAliases, ConfirmAlias, Start, Idle
  <2> QED BY <2>1, <2>2
<1>4. ASSUME NEW j \in Jobs, GateStep(j) \/ Stop(j)
      PROVE  UNCHANGED <<points, alias>>
    BY <1>4 DEF GateStep, Probe, GateAlias, GateTotal, GateVerdict, Stop, Idle
<1>5. CASE UNCHANGED vars
    BY <1>1, <1>5 DEF vars
<1> QED BY <1>1, <1>2, <1>3, <1>4, <1>5 DEF Next

\* The three programs together implement the promise of a release: collections that never mix,
\* and an alias that only ever moves to one whole corpus.
THEOREM ReleaseRefinement == ASSUME OneIndexer PROVE Spec => ReleaseKept
<1>1. Init => Promise!Init
    BY DEF Init, Promise!Init, Held, Stored
<1> QED BY <1>1, Invariance, StepsRefine, PTL DEF Spec, ReleaseKept, Promise!Spec

-----------------------------------------------------------------------------
(* The document library: sorted lists                                         *)

StrictOrder(S, before) ==
    /\ \A x \in S : <<x, x>> \notin before
    /\ \A x, y \in S : x # y => <<x, y>> \in before \/ <<y, x>> \in before
    /\ \A x, y, z \in S : <<x, y>> \in before /\ <<y, z>> \in before => <<x, z>> \in before

Preceding(S, before, x) == {y \in S : <<y, x>> \in before}

Ascending(s, before) == \A i, j \in DOMAIN s : i < j => <<s[i], s[j]>> \in before

\* s lists the members of S in their order.
Lists(s, S, before) ==
    /\ s \in [1..Cardinality(S) -> S] /\ Ascending(s, before)
    /\ \A x \in S : \E i \in 1..Cardinality(S) : s[i] = x
    /\ \A i, j \in 1..Cardinality(S) : s[i] = s[j] => i = j

LEMMA KeysOrder ==
    ASSUME NEW S, NEW first \in [S -> Int], NEW second \in [S -> Int],
           \A x, y \in S : second[x] = second[y] => x = y
    PROVE  StrictOrder(S, ByKeys(S, first, second))
<1> DEFINE before == ByKeys(S, first, second)
<1>1. \A x, y \in S : <<x, y>> \in before <=> \/ first[x] < first[y]
                                              \/ first[x] = first[y] /\ second[x] < second[y]
    BY DEF ByKeys
<1> HIDE DEF before
<1>2. \A x \in S : first[x] \in Int /\ second[x] \in Int
    OBVIOUS
<1>3. \A x \in S : <<x, x>> \notin before
    BY <1>1, <1>2
<1>4. ASSUME NEW x \in S, NEW y \in S, x # y PROVE <<x, y>> \in before \/ <<y, x>> \in before
    BY <1>1, <1>2, <1>4
<1>5. ASSUME NEW x \in S, NEW y \in S, NEW z \in S, <<x, y>> \in before, <<y, z>> \in before
      PROVE  <<x, z>> \in before
    BY <1>1, <1>2, <1>5
<1> QED BY <1>3, <1>4, <1>5 DEF StrictOrder, before

LEMMA RanksDiffer ==
    ASSUME NEW S, IsFiniteSet(S), NEW before, StrictOrder(S, before), NEW x \in S
    PROVE  /\ Cardinality(Preceding(S, before, x)) \in 0..(Cardinality(S) - 1)
           /\ Cardinality(S) \in Nat
           /\ \A y \in S : <<x, y>> \in before =>
                  Cardinality(Preceding(S, before, x)) < Cardinality(Preceding(S, before, y))
<1>1. Cardinality(S) \in Nat
    BY FS_CardinalityType
<1>2. ASSUME NEW y \in S
      PROVE  /\ IsFiniteSet(Preceding(S, before, y)) /\ Cardinality(Preceding(S, before, y)) \in Nat
             /\ Cardinality(Preceding(S, before, y)) <= Cardinality(S)
  <2> PICK P : P = Preceding(S, before, y)
      OBVIOUS
  <2>1. P \in SUBSET S
      BY DEF Preceding
  <2>2. IsFiniteSet(P) /\ Cardinality(P) <= Cardinality(S)
      BY <2>1, FS_Subset
  <2> QED BY <2>2, FS_CardinalityType
<1>3. Preceding(S, before, x) # S /\ Preceding(S, before, x) \in SUBSET S
    BY DEF Preceding, StrictOrder
<1>4. Cardinality(Preceding(S, before, x)) # Cardinality(S)
  <2> PICK P : P = Preceding(S, before, x)
      OBVIOUS
  <2> QED BY <1>3, FS_Subset
<1>5. ASSUME NEW y \in S, <<x, y>> \in before
      PROVE  Cardinality(Preceding(S, before, x)) < Cardinality(Preceding(S, before, y))
  <2> PICK P, Q : P = Preceding(S, before, x) /\ Q = Preceding(S, before, y)
      OBVIOUS
  <2>1. P \in SUBSET Q /\ x \in Q /\ x \notin P
      BY <1>5 DEF Preceding, StrictOrder
  <2>2. IsFiniteSet(Q) /\ Cardinality(P) \in Nat /\ Cardinality(Q) \in Nat
      BY <1>2
  <2>3. Cardinality(P) <= Cardinality(Q) /\ (Cardinality(Q) = Cardinality(P) => Q = P)
      BY <2>1, <2>2, FS_Subset
  <2> QED BY <2>1, <2>2, <2>3
<1> QED BY <1>1, <1>2, <1>4, <1>5

\* The members of a finite set can be listed in order: each at its rank.
LEMMA ListExists ==
    ASSUME NEW S, IsFiniteSet(S), NEW before, StrictOrder(S, before)
    PROVE  \E s \in [1..Cardinality(S) -> S] : Ascending(s, before)
<1> PICK n : n = Cardinality(S)
    OBVIOUS
<1>1. n \in Nat
    BY FS_CardinalityType
<1> PICK rank : rank = [x \in S |-> Cardinality(Preceding(S, before, x)) + 1]
    OBVIOUS
<1>2. \A x \in S : rank[x] \in 1..n
  <2> TAKE x \in S
  <2>1. Cardinality(Preceding(S, before, x)) \in 0..(n - 1)
      BY RanksDiffer
  <2> QED BY <1>1, <2>1
<1>3. \A x, y \in S : <<x, y>> \in before => rank[x] < rank[y]
  <2> TAKE x, y \in S
  <2>1. <<x, y>> \in before => Cardinality(Preceding(S, before, x)) < Cardinality(Preceding(S, before, y))
      BY RanksDiffer
  <2>2. /\ Cardinality(Preceding(S, before, x)) \in 0..(n - 1)
        /\ Cardinality(Preceding(S, before, y)) \in 0..(n - 1)
      BY RanksDiffer
  <2> QED BY <1>1, <2>1, <2>2
<1>4. ASSUME NEW x \in S, NEW y \in S, rank[x] = rank[y], x # y PROVE FALSE
  <2>1. <<x, y>> \in before \/ <<y, x>> \in before
      BY <1>4 DEF StrictOrder
  <2>2. rank[x] \in Int /\ rank[y] \in Int /\ (rank[x] < rank[y] \/ rank[y] < rank[x])
      BY <1>2, <1>3, <2>1
  <2> QED BY <1>4, <2>2
<1>5. rank \in Injection(S, 1..n)
    BY <1>2, <1>4 DEF Injection, IsInjective
<1>6. IsFiniteSet(1..n) /\ Cardinality(1..n) = n
    BY <1>1, FS_Interval
<1>7. rank \in Surjection(S, 1..n)
    BY <1>5, <1>6, FS_Injection
<1>8. \A i \in 1..n : \E x \in S : rank[x] = i
    BY <1>7 DEF Surjection
<1> PICK s : s = [i \in 1..n |-> CHOOSE x \in S : rank[x] = i]
    OBVIOUS
<1>9. \A i \in 1..n : s[i] \in S /\ rank[s[i]] = i
    BY <1>8
<1>10. s \in [1..n -> S]
    BY <1>9
<1>11. ASSUME NEW i \in 1..n, NEW j \in 1..n, i < j PROVE <<s[i], s[j]>> \in before
  <2>1. s[i] \in S /\ s[j] \in S /\ rank[s[i]] = i /\ rank[s[j]] = j
      BY <1>9
  <2>2. s[i] # s[j] /\ ~(<<s[j], s[i]>> \in before)
      BY <1>1, <1>3, <1>11, <2>1
  <2> QED BY <2>1, <2>2 DEF StrictOrder
<1> QED BY <1>10, <1>11 DEF Ascending

\* An ascending list of a set has each member once.
LEMMA AscendingLists ==
    ASSUME NEW S, IsFiniteSet(S), NEW before, StrictOrder(S, before),
           NEW s \in [1..Cardinality(S) -> S], Ascending(s, before)
    PROVE  Lists(s, S, before)
<1> PICK n : n = Cardinality(S)
    OBVIOUS
<1>1. n \in Nat
    BY FS_CardinalityType
<1>2. \A i, j \in 1..n : s[i] = s[j] => i = j
  <2> SUFFICES ASSUME NEW i \in 1..n, NEW j \in 1..n, s[i] = s[j], i # j PROVE FALSE
      OBVIOUS
  <2>1. <<s[i], s[j]>> \in before \/ <<s[j], s[i]>> \in before
      BY <1>1 DEF Ascending
  <2> QED BY <2>1 DEF StrictOrder
<1>3. IsFiniteSet(1..n) /\ Cardinality(1..n) = n
    BY <1>1, FS_Interval
<1>4. s \in Injection(1..n, S)
    BY <1>2 DEF Injection, IsInjective
<1>5. s \in Surjection(1..n, S)
    BY <1>3, <1>4, FS_Injection
<1>6. \A x \in S : \E i \in 1..n : s[i] = x
    BY <1>5 DEF Surjection
<1> QED BY <1>2, <1>6 DEF Lists

LEMMA SortedLists ==
    ASSUME NEW S, IsFiniteSet(S), NEW before, StrictOrder(S, before)
    PROVE  Lists(Sorted(S, before), S, before)
<1>1. \E s \in [1..Cardinality(S) -> S] : Ascending(s, before)
    BY ListExists
<1>2. Sorted(S, before) = CHOOSE s \in [1..Cardinality(S) -> S] : Ascending(s, before)
    BY DEF Sorted, Ascending
<1>3. Sorted(S, before) \in [1..Cardinality(S) -> S] /\ Ascending(Sorted(S, before), before)
    BY <1>1, <1>2
<1> PICK s : s = Sorted(S, before)
    OBVIOUS
<1> QED BY <1>3, AscendingLists

-----------------------------------------------------------------------------
(* Pages of a sorted list                                                    *)

LEMMA RankOfPlace ==
    ASSUME NEW S, IsFiniteSet(S), NEW before, StrictOrder(S, before),
           NEW s, Lists(s, S, before), NEW k \in 1..Cardinality(S)
    PROVE  Cardinality(Preceding(S, before, s[k])) = k - 1
<1> PICK n : n = Cardinality(S)
    OBVIOUS
<1>1. n \in Nat /\ k \in 1..n /\ k - 1 \in Nat
    BY FS_CardinalityType
<1>2. /\ s \in [1..n -> S] /\ \A i, j \in 1..n : i < j => <<s[i], s[j]>> \in before
      /\ \A x \in S : \E i \in 1..n : s[i] = x
      /\ \A i, j \in 1..n : s[i] = s[j] => i = j
    BY DEF Lists, Ascending
<1> PICK P : P = Preceding(S, before, s[k])
    OBVIOUS
<1>3. ASSUME NEW j \in 1..n PROVE s[j] \in P <=> j < k
  <2>1. s[j] \in S /\ s[k] \in S
      BY <1>1, <1>2
  <2>2. s[j] \in P <=> <<s[j], s[k]>> \in before
      BY <2>1 DEF Preceding
  <2>3. j < k => <<s[j], s[k]>> \in before
      BY <1>1, <1>2
  <2>4. k < j => <<s[k], s[j]>> \in before
      BY <1>1, <1>2
  <2>5. ~(<<s[j], s[k]>> \in before /\ <<s[k], s[j]>> \in before) /\ <<s[k], s[k]>> \notin before
      BY <2>1 DEF StrictOrder
  <2>6. j < k \/ k < j \/ j = k
      BY <1>1
  <2> QED BY <1>1, <2>2, <2>3, <2>4, <2>5, <2>6
<1> PICK first : first = [j \in 1..(k - 1) |-> s[j]]
    OBVIOUS
<1>4. first \in [1..(k - 1) -> P]
    BY <1>1, <1>3
<1>5. \A i, j \in 1..(k - 1) : first[i] = first[j] => i = j
    BY <1>1, <1>2
<1>6. ASSUME NEW x \in P PROVE \E j \in 1..(k - 1) : first[j] = x
  <2>1. x \in S
      BY DEF Preceding
  <2>2. PICK i \in 1..n : s[i] = x
      BY <1>2, <2>1
  <2> QED BY <1>1, <1>3, <2>2
<1>7. first \in Bijection(1..(k - 1), P)
    BY <1>4, <1>5, <1>6 DEF Bijection, Injection, Surjection, IsInjective
<1> QED BY <1>1, <1>7, FS_CountingElements DEF ExistsBijection

LEMMA RankedMember ==
    ASSUME NEW S, IsFiniteSet(S), NEW before, StrictOrder(S, before),
           NEW s, Lists(s, S, before), NEW k \in 1..Cardinality(S), NEW r, r = k - 1
    PROVE  (CHOOSE x \in S : Cardinality({y \in S : <<y, x>> \in before}) = r) = s[k]
<1> PICK n : n = Cardinality(S)
    OBVIOUS
<1>1. n \in Nat /\ k \in 1..n
    BY FS_CardinalityType
<1>2. s \in [1..n -> S] /\ \A x \in S : \E i \in 1..n : s[i] = x
    BY DEF Lists
<1>3. s[k] \in S /\ Cardinality(Preceding(S, before, s[k])) = r
    BY <1>1, <1>2, RankOfPlace
<1>4. ASSUME NEW x \in S, Cardinality(Preceding(S, before, x)) = r PROVE x = s[k]
  <2>1. PICK i \in 1..n : s[i] = x
      BY <1>2
  <2>2. Cardinality(Preceding(S, before, s[i])) = i - 1
      BY RankOfPlace
  <2> QED BY <1>1, <1>4, <2>1, <2>2
<1>5. (CHOOSE x \in S : Cardinality({y \in S : <<y, x>> \in before}) = r)
        = CHOOSE x \in S : Cardinality(Preceding(S, before, x)) = r
    BY DEF Preceding
<1> QED BY <1>3, <1>4, <1>5

\* How many elements a page of a list of n has
OnPage(n, start, size) == IF n <= start THEN 0 ELSE IF n < start + size THEN n - start ELSE size

Part(s, start, length) == [i \in 1..length |-> s[start + i]]

PageCount(n, size) == (n + size - 1) \div size

LEMMA StartOf == ASSUME NEW page \in Nat \ {0}, NEW size \in Nat PROVE (page - 1) * size \in Nat
<1>1. page - 1 \in Nat
    OBVIOUS
<1>2. \A a, b \in Nat : a * b \in Nat
    OBVIOUS
<1> QED BY <1>1, <1>2

LEMMA MaxOfTwo == ASSUME NEW a \in Int, NEW b \in Int PROVE Max({a, b}) = IF a < b THEN b ELSE a
<1>1. ASSUME NEW x \in {a, b}, \A y \in {a, b} : x >= y PROVE x = IF a < b THEN b ELSE a
    BY <1>1
<1>2. \E x \in {a, b} : \A y \in {a, b} : x >= y
    OBVIOUS
<1> QED BY <1>1, <1>2 DEF Max

LEMMA MinOfTwo == ASSUME NEW a \in Int, NEW b \in Int PROVE Min({a, b}) = IF a < b THEN a ELSE b
<1>1. ASSUME NEW x \in {a, b}, \A y \in {a, b} : x <= y PROVE x = IF a < b THEN a ELSE b
    BY <1>1
<1>2. \E x \in {a, b} : \A y \in {a, b} : x <= y
    OBVIOUS
<1> QED BY <1>1, <1>2 DEF Min

\* PageOf reads off a page of any list of the members in their order.
LEMMA PagesOfLists ==
    ASSUME NEW S, IsFiniteSet(S), NEW before, StrictOrder(S, before),
           NEW s, Lists(s, S, before), NEW page \in Nat \ {0}, NEW size \in Nat \ {0},
           NEW start, start = (page - 1) * size
    PROVE  PageOf(S, before, page, size) = Part(s, start, OnPage(Cardinality(S), start, size))
<1> PICK n : n = Cardinality(S)
    OBVIOUS
<1>1. n \in Nat /\ start \in Nat
    BY FS_CardinalityType, StartOf
<1> PICK length : length = OnPage(n, start, size)
    OBVIOUS
<1>2. Max({0, Min({size, n - start})}) = length
  <2>1. PICK m : m = Min({size, n - start})
      OBVIOUS
  <2>2. m = IF size < n - start THEN size ELSE n - start
      BY <1>1, <2>1, MinOfTwo
  <2>3. m \in Int
      BY <1>1, <2>2
  <2>4. Max({0, m}) = IF 0 < m THEN m ELSE 0
      BY <2>3, MaxOfTwo
  <2> QED BY <1>1, <2>1, <2>2, <2>4 DEF OnPage
<1>3. length \in Nat /\ \A i \in 1..length : start + i \in 1..n
    BY <1>1 DEF OnPage
<1>4. ASSUME NEW i \in 1..length
      PROVE  (CHOOSE x \in S : Cardinality({y \in S : <<y, x>> \in before}) = start + i - 1) = s[start + i]
  <2>1. PICK k : k = start + i
      OBVIOUS
  <2>2. k \in 1..n
      BY <1>3, <2>1
  <2>3. PICK r : r = start + i - 1
      OBVIOUS
  <2>4. r = k - 1
      BY <1>1, <1>3, <2>1, <2>3
  <2>5. (CHOOSE x \in S : Cardinality({y \in S : <<y, x>> \in before}) = r) = s[k]
      BY <2>2, <2>4, RankedMember
  <2> QED BY <2>1, <2>3, <2>5
<1>5. PageOf(S, before, page, size)
        = [i \in 1..Max({0, Min({size, n - start})}) |->
              CHOOSE x \in S : Cardinality({y \in S : <<y, x>> \in before}) = start + i - 1]
    BY DEF PageOf
<1>6. PageOf(S, before, page, size) = [i \in 1..length |-> s[start + i]]
    BY <1>2, <1>4, <1>5
<1>7. PageOf(S, before, page, size) = Part(s, start, length)
    BY ONLY <1>6 DEF Part
<1> QED BY <1>7

LEMMA Slice ==
    ASSUME NEW S, NEW s \in Seq(S), NEW m \in Nat \ {0}, NEW n \in Nat
    PROVE  SubSeq(s, m, n) = [i \in 1..(n - m + 1) |-> s[m + i - 1]]
OBVIOUS

IsReply(reply, cat, items, pages) == reply = [from |-> cat, items |-> items, pages |-> pages]

\* Paginate cuts the same page out of the list.
LEMMA Paginated ==
    ASSUME NEW cat, NEW S, NEW n \in Nat, NEW items \in [1..n -> S],
           NEW page \in Nat \ {0}, NEW size \in Nat \ {0}, NEW start, start = (page - 1) * size
    PROVE  IsReply(Paginate(cat, items, page, size), cat, Part(items, start, OnPage(n, start, size)), PageCount(n, size))
<1>1. start \in Nat
    BY StartOf
<1>2. items \in Seq(S) /\ Len(items) = n
    OBVIOUS
<1> PICK m : m = Min({start + size, n})
    OBVIOUS
<1>3. m = IF start + size < n THEN start + size ELSE n
    BY <1>1, MinOfTwo
<1>4. SubSeq(items, start + 1, m) = [i \in 1..(m - start) |-> items[start + i]]
  <2>1. m \in Nat
      BY <1>1, <1>3
  <2> PICK k : k = start + 1
      OBVIOUS
  <2>2. k \in Nat \ {0}
      BY <1>1
  <2>3. SubSeq(items, k, m) = [i \in 1..(m - k + 1) |-> items[k + i - 1]]
    <3>1. items \in Seq(S)
        BY <1>2
    <3> QED BY ONLY <2>1, <2>2, <3>1, Slice
  <2>4. m - k + 1 = m - start /\ \A i \in 1..(m - start) : k + i - 1 = start + i
      BY <1>1, <2>1
  <2>5. [i \in 1..(m - k + 1) |-> items[k + i - 1]] = [i \in 1..(m - start) |-> items[start + i]]
      BY <2>4
  <2> QED BY <2>3, <2>5
<1>5. 1..(m - start) = 1..OnPage(n, start, size)
    BY <1>1, <1>3 DEF OnPage
<1>6. Paginate(cat, items, page, size)
        = [from |-> cat, items |-> SubSeq(items, start + 1, m), pages |-> PageCount(n, size)]
    BY <1>2 DEF Paginate, PageCount
<1>7. SubSeq(items, start + 1, m) = [i \in 1..OnPage(n, start, size) |-> items[start + i]]
    BY <1>4, <1>5
<1>8. SubSeq(items, start + 1, m) = Part(items, start, OnPage(n, start, size))
    BY ONLY <1>7 DEF Part
<1> QED BY ONLY <1>6, <1>8 DEF IsReply

-----------------------------------------------------------------------------
(* The catalogue                                                             *)

Catalogues == [chunks : Versions, articles : Versions]

\* n places of a list in its order
InPlaces(order, n, places) ==
    /\ order \in [1..n -> places]
    /\ \A p \in places : \E k \in 1..n : order[k] = p
    /\ \A j, k \in 1..n : j < k => order[j] < order[k]

Picks(list, places, n, order) ==
    InPlaces(order, n, places) /\ Picked(list, places) = [k \in 1..n |-> list[order[k]]]

LEMMA PickedInOrder ==
    ASSUME NEW list, NEW size \in Nat, NEW places, places \subseteq 1..size
    PROVE  \E n \in Nat : \E order : Picks(list, places, n, order)
<1> PICK same : same = [i \in places |-> i]
    OBVIOUS
<1> PICK before : before = ByKeys(places, same, same)
    OBVIOUS
<1> PICK order : order = Sorted(places, before)
    OBVIOUS
<1>1. IsFiniteSet(places) /\ Cardinality(places) \in Nat
  <2>1. IsFiniteSet(1..size)
      BY FS_Interval
  <2> QED BY <2>1, FS_Subset, FS_CardinalityType
<1>2. \A p \in places : p \in Int
    OBVIOUS
<1>3. StrictOrder(places, before)
  <2>1. same \in [places -> Int] /\ \A x, y \in places : same[x] = same[y] => x = y
      BY <1>2
  <2> QED BY <2>1, KeysOrder
<1>4. Lists(order, places, before)
    BY <1>1, <1>3, SortedLists
<1> PICK n : n = Cardinality(places)
    OBVIOUS
<1>5. order \in [1..n -> places] /\ \A p \in places : \E k \in 1..n : order[k] = p
    BY <1>4 DEF Lists
<1>6. ASSUME NEW j \in 1..n, NEW k \in 1..n, j < k PROVE order[j] < order[k]
  <2>1. <<order[j], order[k]>> \in before
    <3>1. DOMAIN order = 1..n
        BY <1>5
    <3>2. Ascending(order, before)
        BY <1>4 DEF Lists
    <3> QED BY <1>6, <3>1, <3>2 DEF Ascending
  <2>2. order[j] \in places /\ order[k] \in places
      BY <1>5
  <2> QED BY <1>2, <2>1, <2>2 DEF ByKeys
<1>7. Picked(list, places) = [k \in DOMAIN order |-> list[order[k]]]
    BY DEF Picked
<1>8. DOMAIN order = 1..n
    BY <1>5
<1>9. Picked(list, places) = [k \in 1..n |-> list[order[k]]]
    BY <1>7, <1>8
<1>10. Picks(list, places, n, order)
    BY <1>5, <1>6, <1>9 DEF InPlaces, Picks
<1> QED BY <1>1, <1>10

\* What a catalogue that loads was read from
LEMMA FilesLoaded ==
    ASSUME NEW cat \in Catalogues, Loads(cat)
    PROVE  /\ ChunksIn[cat.chunks] \in Seq([code : Nat, doc : Nat, type : Nat])
           /\ ArticlesIn[cat.articles] \in Seq([code : Nat, doc : {Nothing} \cup Nat, number : {Nothing} \cup Nat])
<1>1. cat.chunks \in Versions /\ cat.articles \in Versions
    BY DEF Catalogues
<1>2. ChunksIn[cat.chunks] # Unreadable /\ ArticlesIn[cat.articles] # Unreadable
    BY DEF Loads, ChunksLoad, ArticlesLoad
<1> QED BY <1>1, <1>2, LibraryAssumption

LEMMA ElementOf == ASSUME NEW S, NEW s \in Seq(S), NEW i \in DOMAIN s PROVE s[i] \in S
OBVIOUS

LEMMA FiniteRange == ASSUME NEW S, NEW s \in Seq(S) PROVE IsFiniteSet(Range(s))
<1>1. Len(s) \in Nat /\ DOMAIN s = 1..Len(s)
    OBVIOUS
<1>2. s \in Surjection(1..Len(s), Range(s))
    BY <1>1 DEF Surjection, Range
<1>3. IsFiniteSet(1..Len(s))
    BY <1>1, FS_Interval
<1> QED BY <1>2, <1>3, FS_Surjection

\* The articles file names each article once.
LEMMA EntriesAgree ==
    ASSUME NEW cat \in Catalogues, Loads(cat)
    PROVE  /\ IsFiniteSet(Entries(cat))
           /\ \A a \in Entries(cat) : /\ a.code \in Nat /\ a.code \in CodesOf(cat)
                                      /\ a.number = Nothing \/ a.number \in Nat
                                      /\ Entry(cat, a.code) = a
           /\ \A code \in CodesOf(cat) : Entry(cat, code) \in Entries(cat) /\ Entry(cat, code).code = code
<1> PICK list : list = ArticlesIn[cat.articles]
    OBVIOUS
<1>1. list \in Seq([code : Nat, doc : {Nothing} \cup Nat, number : {Nothing} \cup Nat])
    BY FilesLoaded
<1>2. Entries(cat) = Range(list)
    BY DEF Entries
<1>3. IsFiniteSet(Entries(cat))
    BY <1>1, <1>2, FiniteRange
<1>4. \A a, b \in Entries(cat) : a.code = b.code => a = b
    BY <1>2 DEF Range, Loads, ArticlesLoad
<1>5. CodesOf(cat) = {a.code : a \in Entries(cat)}
    BY DEF Loads, Consistent, Entries
<1>6. \A code : Entry(cat, code) = CHOOSE a \in Entries(cat) : a.code = code
    BY DEF Entry, Entries
<1>7. ASSUME NEW code \in CodesOf(cat) PROVE Entry(cat, code) \in Entries(cat) /\ Entry(cat, code).code = code
  <2>1. \E a \in Entries(cat) : a.code = code
      BY <1>5
  <2> QED BY <1>6, <2>1
<1>8. ASSUME NEW a \in Entries(cat)
      PROVE  /\ a.code \in Nat /\ a.code \in CodesOf(cat)
             /\ a.number = Nothing \/ a.number \in Nat
             /\ Entry(cat, a.code) = a
  <2>1. a.code \in CodesOf(cat)
      BY <1>5
  <2>2. Entry(cat, a.code) = a
      BY <1>4, <1>7, <2>1
  <2>3. a \in [code : Nat, doc : {Nothing} \cup Nat, number : {Nothing} \cup Nat]
    <3>1. PICK i \in DOMAIN list : a = list[i]
        BY <1>2 DEF Range
    <3> QED BY <1>1, <3>1, ElementOf
  <2> QED BY <2>1, <2>2, <2>3
<1> QED BY <1>3, <1>7, <1>8

\* Every chunk of an article is of the document the articles file says.
LEMMA ChunksAgree ==
    ASSUME NEW cat \in Catalogues, Loads(cat), NEW code \in CodesOf(cat)
    PROVE  /\ \E n \in Nat \ {0} : DOMAIN ChunksOf(cat, code) = 1..n
           /\ \A k \in DOMAIN ChunksOf(cat, code) : ChunksOf(cat, code)[k].doc = Entry(cat, code).doc
           /\ DocumentOfArticle(cat, code) = Entry(cat, code).doc
           /\ Entry(cat, code).doc \in Nat
           /\ \E i \in DOMAIN ChunksIn[cat.chunks] : ChunksIn[cat.chunks][i].doc = Entry(cat, code).doc
<1> PICK lines : lines = ChunksIn[cat.chunks]
    OBVIOUS
<1>1. lines \in Seq([code : Nat, doc : Nat, type : Nat])
    BY FilesLoaded
<1> PICK size : size = Len(lines)
    OBVIOUS
<1>2. size \in Nat /\ DOMAIN lines = 1..size
    BY <1>1
<1> PICK places : places = {i \in 1..size : lines[i].code = code}
    OBVIOUS
<1>3. ChunksOf(cat, code) = Picked(lines, places)
    BY <1>2 DEF ChunksOf
<1>4. \A i \in 1..size : lines[i] \in Range(lines) /\ lines[i].doc \in Nat
  <2>1. \A i \in 1..size : lines[i] \in [code : Nat, doc : Nat, type : Nat]
      BY <1>1, <1>2, ElementOf
  <2>2. \A i \in 1..size : lines[i] \in Range(lines)
      BY <1>2 DEF Range
  <2> QED BY <2>1, <2>2
<1>5. \A i \in places : lines[i].doc = Entry(cat, code).doc
    BY <1>4 DEF Loads, Consistent
<1>6. PICK first \in places : TRUE
    BY <1>2 DEF CodesOf, Range
<1> PICK n \in Nat : \E order : Picks(lines, places, n, order)
    BY <1>2, PickedInOrder
<1> PICK order : Picks(lines, places, n, order)
    OBVIOUS
<1>7. InPlaces(order, n, places) /\ Picked(lines, places) = [k \in 1..n |-> lines[order[k]]]
    BY DEF Picks
<1>8. order \in [1..n -> places] /\ n # 0
    BY <1>6, <1>7 DEF InPlaces
<1>9. DOMAIN ChunksOf(cat, code) = 1..n
    BY <1>3, <1>7
<1>10. ASSUME NEW k \in 1..n PROVE ChunksOf(cat, code)[k].doc = Entry(cat, code).doc
  <2>1. order[k] \in places
      BY ONLY <1>8, <1>10
  <2>2. ChunksOf(cat, code)[k] = lines[order[k]]
      BY ONLY <1>3, <1>7, <1>10
  <2>3. lines[order[k]].doc = Entry(cat, code).doc
      BY ONLY <1>5, <2>1
  <2> QED BY ONLY <2>2, <2>3
<1>11. DocumentOfArticle(cat, code) = Entry(cat, code).doc
    BY <1>8, <1>10 DEF DocumentOfArticle
<1>12. Entry(cat, code).doc \in Nat
    BY <1>4, <1>5, <1>6
<1>13. \E i \in DOMAIN lines : lines[i].doc = Entry(cat, code).doc
    BY <1>2, <1>5, <1>6
<1> QED BY <1>8, <1>9, <1>10, <1>11, <1>12, <1>13

LEMMA DocumentsAgree ==
    ASSUME NEW cat \in Catalogues, Loads(cat)
    PROVE  /\ IndexedDocuments(cat) = {a.doc : a \in Entries(cat)}
           /\ IsFiniteSet(IndexedDocuments(cat)) /\ IndexedDocuments(cat) \subseteq Nat
           /\ \A d \in IndexedDocuments(cat) : TypeOf(cat, d) \in Nat
<1>1. \A code \in CodesOf(cat) : DocumentOfArticle(cat, code) = Entry(cat, code).doc /\ Entry(cat, code).doc \in Nat
    BY ChunksAgree
<1>2. IndexedDocuments(cat) = {a.doc : a \in Entries(cat)}
  <2>1. ASSUME NEW d \in IndexedDocuments(cat) PROVE d \in {a.doc : a \in Entries(cat)}
      BY <1>1, EntriesAgree DEF IndexedDocuments
  <2>2. ASSUME NEW a \in Entries(cat) PROVE a.doc \in IndexedDocuments(cat)
    <3>1. a.code \in CodesOf(cat) /\ Entry(cat, a.code) = a
        BY EntriesAgree
    <3>2. DocumentOfArticle(cat, a.code) = a.doc
        BY <1>1, <3>1
    <3> QED BY <3>1, <3>2 DEF IndexedDocuments
  <2> QED BY <2>1, <2>2
<1>3. IndexedDocuments(cat) \subseteq Nat
    BY <1>1 DEF IndexedDocuments
<1>4. IsFiniteSet(IndexedDocuments(cat))
  <2> PICK docs : docs = [a \in Entries(cat) |-> a.doc]
      OBVIOUS
  <2>1. docs \in Surjection(Entries(cat), IndexedDocuments(cat))
      BY <1>2 DEF Surjection
  <2> QED BY <2>1, EntriesAgree, FS_Surjection
<1>5. ASSUME NEW d \in IndexedDocuments(cat) PROVE TypeOf(cat, d) \in Nat
  <2> PICK lines : lines = ChunksIn[cat.chunks]
      OBVIOUS
  <2>1. lines \in Seq([code : Nat, doc : Nat, type : Nat])
      BY FilesLoaded
  <2> PICK size : size = Len(lines)
      OBVIOUS
  <2>2. size \in Nat /\ DOMAIN lines = 1..size /\ \A i \in 1..size : lines[i].type \in Nat
    <3>1. size \in Nat /\ DOMAIN lines = 1..size
        BY <2>1
    <3>2. \A i \in 1..size : lines[i] \in [code : Nat, doc : Nat, type : Nat]
        BY <2>1, <3>1, ElementOf
    <3> QED BY <3>1, <3>2
  <2> PICK places : places = {i \in 1..size : lines[i].doc = d}
      OBVIOUS
  <2>3. TypeOf(cat, d) = Picked(lines, places)[1].type
      BY <2>2 DEF TypeOf
  <2>4. PICK code \in CodesOf(cat) : Entry(cat, code).doc = d
      BY <1>1 DEF IndexedDocuments
  <2>5. \E i \in DOMAIN lines : lines[i].doc = d
      BY <2>4, ChunksAgree
  <2>6. places # {}
      BY <2>2, <2>5
  <2> PICK n \in Nat : \E order : Picks(lines, places, n, order)
      BY <2>2, PickedInOrder
  <2> PICK order : Picks(lines, places, n, order)
      OBVIOUS
  <2>7. InPlaces(order, n, places) /\ Picked(lines, places) = [k \in 1..n |-> lines[order[k]]]
      BY DEF Picks
  <2>8. order \in [1..n -> places] /\ n # 0
      BY <2>6, <2>7 DEF InPlaces
  <2>9. order[1] \in 1..size /\ Picked(lines, places)[1] = lines[order[1]]
    <3>1. 1 \in 1..n /\ places \subseteq 1..size
        BY <2>8
    <3>2. order[1] \in places
        BY ONLY <2>8, <3>1
    <3>3. Picked(lines, places)[1] = lines[order[1]]
        BY ONLY <2>7, <3>1
    <3> QED BY ONLY <3>1, <3>2, <3>3
  <2> QED BY <2>2, <2>3, <2>9
<1> QED BY <1>2, <1>3, <1>4, <1>5

-----------------------------------------------------------------------------
(* The articles of a document                                                *)

EntryNumber(a) == IF a.number = Nothing THEN 99999 ELSE a.number
InFront(a, b) == EntryNumber(a) < EntryNumber(b) \/ (EntryNumber(a) = EntryNumber(b) /\ a.code < b.code)
EntryOrder(S) == ByKeys(S, [a \in S |-> IF a.number = Nothing THEN 99999 ELSE a.number], [a \in S |-> a.code])

LEMMA EntriesOrdered ==
    ASSUME NEW cat \in Catalogues, Loads(cat), NEW S, S \subseteq Entries(cat)
    PROVE  /\ IsFiniteSet(S) /\ StrictOrder(S, EntryOrder(S))
           /\ \A a, b \in S : <<a, b>> \in EntryOrder(S) <=> InFront(a, b)
<1>1. IsFiniteSet(S)
    BY EntriesAgree, FS_Subset
<1> DEFINE number == [a \in S |-> IF a.number = Nothing THEN 99999 ELSE a.number]
<1> DEFINE code == [a \in S |-> a.code]
<1>2. ASSUME NEW a \in S PROVE number[a] \in Int /\ code[a] \in Int
  <2>1. a.code \in Nat /\ (a.number = Nothing \/ a.number \in Nat)
      BY EntriesAgree
  <2> QED BY <2>1
<1>3. number \in [S -> Int] /\ code \in [S -> Int]
    BY <1>2
<1>4. ASSUME NEW a \in S, NEW b \in S, code[a] = code[b] PROVE a = b
  <2>1. Entry(cat, a.code) = a /\ Entry(cat, b.code) = b
      BY EntriesAgree
  <2> QED BY <1>4, <2>1
<1>5. EntryOrder(S) = ByKeys(S, number, code)
    BY DEF EntryOrder
<1>6. StrictOrder(S, EntryOrder(S))
    BY <1>3, <1>4, <1>5, KeysOrder
<1>7. ASSUME NEW a \in S, NEW b \in S PROVE <<a, b>> \in EntryOrder(S) <=> InFront(a, b)
  <2>1. /\ number[a] = EntryNumber(a) /\ number[b] = EntryNumber(b)
        /\ code[a] = a.code /\ code[b] = b.code
      BY DEF EntryNumber
  <2>2. <<a, b>> \in ByKeys(S, number, code)
          <=> number[a] < number[b] \/ (number[a] = number[b] /\ code[a] < code[b])
      BY DEF ByKeys
  <2> QED BY <1>5, <2>1, <2>2 DEF InFront
<1> QED BY <1>1, <1>6, <1>7

LEMMA AscendingOnto ==
    ASSUME NEW S, NEW before, StrictOrder(S, before), NEW n \in Nat, NEW s \in [1..n -> S],
           \A i, j \in 1..n : i < j => <<s[i], s[j]>> \in before,
           \A x \in S : \E i \in 1..n : s[i] = x
    PROVE  IsFiniteSet(S) /\ Cardinality(S) = n /\ Lists(s, S, before)
<1>1. ASSUME NEW i \in 1..n, NEW j \in 1..n, s[i] = s[j] PROVE i = j
  <2>1. s[i] \in S /\ ~(i < j) /\ ~(j < i)
      BY <1>1 DEF StrictOrder
  <2> QED BY <2>1
<1>2. s \in Bijection(1..n, S)
    BY <1>1 DEF Bijection, Injection, Surjection, IsInjective
<1>3. Cardinality(S) = n
    BY <1>2, FS_CountingElements DEF ExistsBijection
<1>4. IsFiniteSet(S)
    BY <1>2, FS_NatBijection DEF ExistsBijection
<1> QED BY <1>1, <1>3, <1>4 DEF Lists, Ascending

EntryList(cat, codes, n) == [i \in 1..n |-> Entry(cat, codes[i])]

\* Codes in order are entries in order.
LEMMA CodesListEntries ==
    ASSUME NEW cat \in Catalogues, Loads(cat), NEW T, T \subseteq Entries(cat),
           NEW n \in Nat, NEW codes \in [1..n -> CodesOf(cat)],
           \A i \in 1..n : Entry(cat, codes[i]) \in T,
           \A a \in T : \E i \in 1..n : codes[i] = a.code,
           \A i, j \in 1..n : i < j => InFront(Entry(cat, codes[i]), Entry(cat, codes[j]))
    PROVE  /\ Lists(EntryList(cat, codes, n), T, EntryOrder(T))
           /\ IsFiniteSet(T) /\ Cardinality(T) = n /\ StrictOrder(T, EntryOrder(T))
<1> PICK s : s = EntryList(cat, codes, n)
    OBVIOUS
<1>1. s \in [1..n -> T] /\ \A i \in 1..n : s[i] = Entry(cat, codes[i])
    BY DEF EntryList
<1>2. StrictOrder(T, EntryOrder(T)) /\ \A a, b \in T : <<a, b>> \in EntryOrder(T) <=> InFront(a, b)
    BY EntriesOrdered
<1>3. \A i, j \in 1..n : i < j => <<s[i], s[j]>> \in EntryOrder(T)
    BY <1>1, <1>2
<1>4. ASSUME NEW a \in T PROVE \E i \in 1..n : s[i] = a
  <2>1. PICK i \in 1..n : codes[i] = a.code
      OBVIOUS
  <2>2. Entry(cat, a.code) = a
      BY EntriesAgree
  <2> QED BY <1>1, <2>1, <2>2
<1> PICK before : before = EntryOrder(T)
    OBVIOUS
<1>6. StrictOrder(T, before) /\ \A i, j \in 1..n : i < j => <<s[i], s[j]>> \in before
    BY <1>2, <1>3
<1>7. s \in [1..n -> T] /\ \A a \in T : \E i \in 1..n : s[i] = a
    BY <1>1, <1>4
<1>8. IsFiniteSet(T) /\ Cardinality(T) = n /\ Lists(s, T, before)
    BY ONLY <1>6, <1>7, AscendingOnto, n \in Nat
<1> QED BY <1>2, <1>8

\* The list of a document's articles, as codes and as entries
IsArticleList(cat, T, codes, n) ==
    /\ codes \in [1..n -> CodesOf(cat)]
    /\ \A i \in 1..n : Entry(cat, codes[i]) \in T
    /\ \A a \in T : \E i \in 1..n : codes[i] = a.code
    /\ \A i, j \in 1..n : i < j => InFront(Entry(cat, codes[i]), Entry(cat, codes[j]))

LEMMA ArticlesListed ==
    ASSUME NEW cat \in Catalogues, Loads(cat), NEW d
    PROVE  \E n \in Nat : IsArticleList(cat, EntriesOf(cat, d), ArticlesOf(cat, d), n)
<1> PICK codes : codes = {code \in CodesOf(cat) : DocumentOfArticle(cat, code) = d}
    OBVIOUS
<1> PICK T : T = EntriesOf(cat, d)
    OBVIOUS
<1>1. ASSUME NEW code \in codes
      PROVE  /\ code \in CodesOf(cat) /\ code \in Nat /\ Entry(cat, code) \in T
             /\ Entry(cat, code).code = code
             /\ Entry(cat, code).number = Nothing \/ Entry(cat, code).number \in Nat
  <2>1. code \in CodesOf(cat) /\ DocumentOfArticle(cat, code) = d
      OBVIOUS
  <2>2. Entry(cat, code).doc = d
      BY <2>1, ChunksAgree
  <2>3. Entry(cat, code) \in Entries(cat) /\ Entry(cat, code).code = code
      BY <2>1, EntriesAgree
  <2>4. code \in Nat /\ (Entry(cat, code).number = Nothing \/ Entry(cat, code).number \in Nat)
      BY <2>3, EntriesAgree
  <2> QED BY <2>1, <2>2, <2>3, <2>4 DEF EntriesOf
<1>2. ASSUME NEW a \in T PROVE a.code \in codes
  <2>1. a \in Entries(cat) /\ a.doc = d
      BY DEF EntriesOf
  <2>2. a.code \in CodesOf(cat) /\ Entry(cat, a.code) = a
      BY <2>1, EntriesAgree
  <2>3. DocumentOfArticle(cat, a.code) = d
      BY <2>1, <2>2, ChunksAgree
  <2> QED BY <2>2, <2>3
<1>3. IsFiniteSet(codes) /\ Cardinality(codes) \in Nat
  <2>1. IsFiniteSet(T)
      BY EntriesOrdered DEF EntriesOf
  <2> PICK code : code = [a \in T |-> a.code]
      OBVIOUS
  <2>2. code \in [T -> codes]
      BY <1>2
  <2>3. \A c \in codes : \E a \in T : code[a] = c
      BY <1>1
  <2>4. code \in Surjection(T, codes)
      BY <2>2, <2>3 DEF Surjection
  <2> QED BY <2>1, <2>4, FS_Surjection, FS_CardinalityType
<1> PICK number : number = [code \in codes |-> EntryNumber(Entry(cat, code))]
    OBVIOUS
<1> PICK same : same = [code \in codes |-> code]
    OBVIOUS
<1> PICK before : before = ByKeys(codes, number, same)
    OBVIOUS
<1>4. ArticlesOf(cat, d) = Sorted(codes, before)
    BY DEF ArticlesOf, EntryNumber
<1>5. ASSUME NEW code \in codes PROVE number[code] \in Int /\ same[code] \in Int /\ same[code] = code
  <2>1. number[code] = EntryNumber(Entry(cat, code)) /\ same[code] = code
      OBVIOUS
  <2> QED BY <1>1, <2>1 DEF EntryNumber
<1>6. StrictOrder(codes, before)
  <2>1. number \in [codes -> Int] /\ same \in [codes -> Int]
      BY <1>5
  <2>2. \A x, y \in codes : same[x] = same[y] => x = y
      BY <1>5
  <2> QED BY <2>1, <2>2, KeysOrder
<1> PICK s : s = Sorted(codes, before)
    OBVIOUS
<1>7. Lists(s, codes, before)
    BY <1>3, <1>6, SortedLists
<1> PICK n : n = Cardinality(codes)
    OBVIOUS
<1>8. /\ s \in [1..n -> codes] /\ \A x \in codes : \E i \in 1..n : s[i] = x
      /\ \A i, j \in 1..n : i < j => <<s[i], s[j]>> \in before
  <2>1. s \in [1..n -> codes] /\ (\A x \in codes : \E i \in 1..n : s[i] = x) /\ Ascending(s, before)
      BY <1>7 DEF Lists
  <2>2. DOMAIN s = 1..n
      BY <2>1
  <2>3. \A i, j \in 1..n : i < j => <<s[i], s[j]>> \in before
      BY ONLY <2>1, <2>2 DEF Ascending
  <2> QED BY ONLY <2>1, <2>3
<1>9. ASSUME NEW i \in 1..n, NEW j \in 1..n, i < j
      PROVE  InFront(Entry(cat, s[i]), Entry(cat, s[j]))
  <2> PICK x, y : x = s[i] /\ y = s[j]
      OBVIOUS
  <2>1. x \in codes /\ y \in codes /\ <<x, y>> \in before
    <3>1. s[i] \in codes /\ s[j] \in codes /\ <<s[i], s[j]>> \in before
        BY ONLY <1>8, <1>9
    <3> QED BY ONLY <3>1, x = s[i] /\ y = s[j]
  <2>2. number[x] < number[y] \/ (number[x] = number[y] /\ same[x] < same[y])
    <3>1. before = ByKeys(codes, number, same)
        OBVIOUS
    <3> QED BY ONLY <2>1, <3>1 DEF ByKeys
  <2>3. /\ number[x] = EntryNumber(Entry(cat, x)) /\ number[y] = EntryNumber(Entry(cat, y))
        /\ same[x] = Entry(cat, x).code /\ same[y] = Entry(cat, y).code
      BY <1>1, <2>1
  <2> QED BY <2>2, <2>3 DEF InFront
<1>10. IsArticleList(cat, T, s, n)
  <2>1. s \in [1..n -> CodesOf(cat)] /\ \A i \in 1..n : Entry(cat, s[i]) \in T
      BY <1>1, <1>8
  <2>2. \A a \in T : \E i \in 1..n : s[i] = a.code
      BY <1>2, <1>8
  <2> QED BY <1>9, <2>1, <2>2 DEF IsArticleList
<1> QED BY <1>3, <1>4, <1>10

\* A filter keeps the order.
LEMMA FoundListed ==
    ASSUME NEW cat \in Catalogues, Loads(cat), NEW T, NEW F, F \subseteq T,
           NEW n \in Nat, NEW codes, IsArticleList(cat, T, codes, n),
           NEW places, places = {i \in 1..n : Entry(cat, codes[i]) \in F}, T \subseteq Entries(cat)
    PROVE  \E m \in Nat : IsArticleList(cat, F, Picked(codes, places), m)
<1>1. /\ codes \in [1..n -> CodesOf(cat)]
      /\ \A i \in 1..n : Entry(cat, codes[i]) \in T
      /\ \A a \in T : \E i \in 1..n : codes[i] = a.code
      /\ \A i, j \in 1..n : i < j => InFront(Entry(cat, codes[i]), Entry(cat, codes[j]))
    BY DEF IsArticleList
<1> PICK m \in Nat : \E order : Picks(codes, places, m, order)
    BY <1>1, PickedInOrder
<1> PICK order : Picks(codes, places, m, order)
    OBVIOUS
<1> PICK found : found = Picked(codes, places)
    OBVIOUS
<1>2. /\ order \in [1..m -> places]
      /\ \A p \in places : \E k \in 1..m : order[k] = p
      /\ \A j, k \in 1..m : j < k => order[j] < order[k]
      /\ found = [k \in 1..m |-> codes[order[k]]]
    BY DEF Picks, InPlaces
<1>3. \A k \in 1..m : order[k] \in 1..n /\ found[k] = codes[order[k]] /\ Entry(cat, found[k]) \in F
    BY <1>2
<1>4. found \in [1..m -> CodesOf(cat)]
    BY <1>1, <1>2, <1>3
<1>5. ASSUME NEW a \in F PROVE \E k \in 1..m : found[k] = a.code
  <2>1. PICK i \in 1..n : codes[i] = a.code
      BY <1>1
  <2>2. Entry(cat, a.code) = a
      BY EntriesAgree
  <2>3. PICK k \in 1..m : order[k] = i
      BY <1>2, <2>1, <2>2
  <2> QED BY <1>3, <2>1, <2>3
<1>6. ASSUME NEW j \in 1..m, NEW k \in 1..m, j < k PROVE InFront(Entry(cat, found[j]), Entry(cat, found[k]))
  <2>1. order[j] < order[k]
      BY <1>2, <1>6
  <2> QED BY <1>1, <1>3, <2>1
<1>7. IsArticleList(cat, F, found, m)
    BY <1>3, <1>4, <1>5, <1>6 DEF IsArticleList
<1> QED BY <1>7

-----------------------------------------------------------------------------
(* The replies                                                               *)

\* A card counts the articles of its document.
LEMMA SummaryCounts ==
    ASSUME NEW cat \in Catalogues, Loads(cat), NEW d
    PROVE  Summary(cat, d) = <<d, Cardinality(EntriesOf(cat, d))>>
<1> PICK T : T = EntriesOf(cat, d)
    OBVIOUS
<1> PICK codes : codes = ArticlesOf(cat, d)
    OBVIOUS
<1> PICK n \in Nat : IsArticleList(cat, T, codes, n)
    BY ArticlesListed
<1>1. T \subseteq Entries(cat)
    BY DEF EntriesOf
<1>2. codes \in [1..n -> CodesOf(cat)]
    BY DEF IsArticleList
<1>3. Cardinality(T) = n
    BY <1>1, <1>2, CodesListEntries DEF IsArticleList
<1>4. Len(codes) = n
    BY <1>2
<1> QED BY <1>3, <1>4 DEF Summary

LEMMA DocumentsPromised ==
    ASSUME NEW cat \in Catalogues, Loads(cat), NEW type, NEW q, NEW page \in Nat \ {0}
    PROVE  /\ ListDocuments(cat, type, q, page).from = cat
           /\ ListDocuments(cat, type, q, page).items = PromisedDocuments(cat, type, q, page)
<1> DEFINE wanted(d) == (type = AnyType \/ TypeOf(cat, d) = type) /\ (q = Nothing \/ d \in FoundDocuments[q])
<1> DEFINE S == {d \in IndexedDocuments(cat) : wanted(d)}
<1> DEFINE kinds == [d \in S |-> TypeOf(cat, d)]
<1> DEFINE same == [d \in S |-> d]
<1> DEFINE before == ByKeys(S, kinds, same)
<1>1. IsFiniteSet(S) /\ S \subseteq Nat /\ \A d \in S : TypeOf(cat, d) \in Nat
    BY DocumentsAgree, FS_Subset
<1>2. StrictOrder(S, before)
  <2>1. kinds \in [S -> Int] /\ same \in [S -> Int]
      BY <1>1
  <2>2. \A x, y \in S : same[x] = same[y] => x = y
      OBVIOUS
  <2> HIDE DEF S, kinds, same
  <2> QED BY <2>1, <2>2, KeysOrder
<1> PICK sorted : sorted = Sorted(S, before)
    OBVIOUS
<1> PICK start : start = (page - 1) * DocumentsPerPage
    OBVIOUS
<1> PICK n : n = Cardinality(S)
    OBVIOUS
<1>3. n \in Nat
    BY <1>1, FS_CardinalityType
<1>4. Lists(sorted, S, before)
  <2> HIDE DEF S, before
  <2> QED BY <1>1, <1>2, SortedLists
<1>5. sorted \in [1..n -> S]
  <2> HIDE DEF S, before
  <2> QED BY <1>4 DEF Lists
<1> PICK length : length = OnPage(n, start, DocumentsPerPage)
    OBVIOUS
<1> PICK on : on = Part(sorted, start, length)
    OBVIOUS
<1>0. DocumentsPerPage \in Nat \ {0}
    BY LibraryAssumption
<1>6. PageOf(S, before, page, DocumentsPerPage) = on
  <2> HIDE DEF S, before
  <2>1. IsFiniteSet(S) /\ StrictOrder(S, before) /\ Lists(sorted, S, before) /\ n = Cardinality(S)
      BY <1>1, <1>2, <1>4
  <2> QED BY <1>0, <2>1, PagesOfLists
<1> PICK pages : pages = PageCount(n, DocumentsPerPage)
    OBVIOUS
<1>7. Paginate(cat, sorted, page, DocumentsPerPage) = [from |-> cat, items |-> on, pages |-> pages]
  <2> HIDE DEF S, before
  <2>1. n \in Nat /\ sorted \in [1..n -> S] /\ start = (page - 1) * DocumentsPerPage /\ page \in Nat \ {0}
      BY <1>3, <1>5
  <2>2. IsReply(Paginate(cat, sorted, page, DocumentsPerPage), cat, Part(sorted, start, OnPage(n, start, DocumentsPerPage)),
                PageCount(n, DocumentsPerPage))
      BY ONLY <1>0, <2>1, Paginated
  <2> QED BY <2>2 DEF IsReply
<1>8. PromisedDocuments(cat, type, q, page) = [i \in DOMAIN on |-> <<on[i], Cardinality(EntriesOf(cat, on[i]))>>]
  <2>1. S = {d \in {a.doc : a \in Entries(cat)} :
                /\ type = AnyType \/ TypeOf(cat, d) = type
                /\ q = Nothing \/ d \in FoundDocuments[q]}
      BY DocumentsAgree
  <2>2. on = PageOf(S, ByKeys(S, [d \in S |-> TypeOf(cat, d)], [d \in S |-> d]), page, DocumentsPerPage)
      BY <1>6
  <2> HIDE DEF S
  <2> QED BY <2>1, <2>2 DEF PromisedDocuments
<1>9. ListDocuments(cat, type, q, page) =
          [Paginate(cat, sorted, page, DocumentsPerPage) EXCEPT !.items = [i \in DOMAIN @ |-> Summary(cat, @[i])]]
  <2>1. S = {d \in IndexedDocuments(cat) :
                /\ type = AnyType \/ TypeOf(cat, d) = type
                /\ q = Nothing \/ d \in FoundDocuments[q]}
      OBVIOUS
  <2>2. sorted = Sorted(S, ByKeys(S, [d \in S |-> TypeOf(cat, d)], [d \in S |-> d]))
      OBVIOUS
  <2> HIDE DEF S
  <2> QED BY <2>1, <2>2 DEF ListDocuments
<1>10. \A d : Summary(cat, d) = <<d, Cardinality(EntriesOf(cat, d))>>
    BY SummaryCounts
<1> HIDE DEF S, before, wanted
<1> PICK cards : cards = [i \in DOMAIN on |-> Summary(cat, on[i])]
    OBVIOUS
<1> PICK listed : listed = Paginate(cat, sorted, page, DocumentsPerPage)
    OBVIOUS
<1>11. listed = [from |-> cat, items |-> on, pages |-> pages]
    BY <1>7
<1>12. ListDocuments(cat, type, q, page) = [listed EXCEPT !.items = cards]
  <2>1. listed.items = on
      BY ONLY <1>11
  <2>2. ListDocuments(cat, type, q, page) = [listed EXCEPT !.items = [i \in DOMAIN @ |-> Summary(cat, @[i])]]
      BY ONLY <1>9, listed = Paginate(cat, sorted, page, DocumentsPerPage)
  <2> QED BY ONLY <2>1, <2>2, cards = [i \in DOMAIN on |-> Summary(cat, on[i])]
<1>13. ListDocuments(cat, type, q, page).from = cat /\ ListDocuments(cat, type, q, page).items = cards
    BY ONLY <1>11, <1>12
<1>14. cards = [i \in DOMAIN on |-> <<on[i], Cardinality(EntriesOf(cat, on[i]))>>]
    BY ONLY <1>10, cards = [i \in DOMAIN on |-> Summary(cat, on[i])]
<1> QED BY ONLY <1>8, <1>13, <1>14

LEMMA ListedEntries ==
    ASSUME NEW cat \in Catalogues, Loads(cat), NEW T, T \subseteq Entries(cat),
           NEW n \in Nat, NEW codes, IsArticleList(cat, T, codes, n)
    PROVE  /\ Lists(EntryList(cat, codes, n), T, EntryOrder(T))
           /\ IsFiniteSet(T) /\ n = Cardinality(T) /\ StrictOrder(T, EntryOrder(T))
<1>1. /\ codes \in [1..n -> CodesOf(cat)]
      /\ \A i \in 1..n : Entry(cat, codes[i]) \in T
      /\ \A a \in T : \E i \in 1..n : codes[i] = a.code
      /\ \A i, j \in 1..n : i < j => InFront(Entry(cat, codes[i]), Entry(cat, codes[j]))
    BY DEF IsArticleList
<1>2. cat \in Catalogues /\ Loads(cat) /\ T \subseteq Entries(cat) /\ n \in Nat
    OBVIOUS
<1> QED BY ONLY <1>1, <1>2, CodesListEntries

LEMMA ArticlesPromised ==
    ASSUME NEW cat \in Catalogues, Loads(cat), NEW d \in IndexedDocuments(cat), NEW q, NEW page \in Nat \ {0}
    PROVE  /\ ListDocumentArticles(cat, d, q, page).from = cat
           /\ ListDocumentArticles(cat, d, q, page).items = PromisedArticles(cat, d, q, page)
<1> PICK T : T = EntriesOf(cat, d)
    OBVIOUS
<1> PICK F : F = {a \in T : q = Nothing \/ a.code \in FoundArticles[q]}
    OBVIOUS
<1>1. F \subseteq T /\ T \subseteq Entries(cat) /\ F \subseteq Entries(cat)
    BY DEF EntriesOf
<1> PICK codes : codes = ArticlesOf(cat, d)
    OBVIOUS
<1> PICK n \in Nat : IsArticleList(cat, T, codes, n)
    BY ArticlesListed
<1>2. DOMAIN codes = 1..n /\ \A i \in 1..n : codes[i] \in CodesOf(cat) /\ Entry(cat, codes[i]) \in T
    BY DEF IsArticleList
<1> PICK places : places = {i \in 1..n : Entry(cat, codes[i]) \in F}
    OBVIOUS
<1>3. places = {i \in DOMAIN codes : q = Nothing \/ codes[i] \in FoundArticles[q]}
  <2>1. \A i \in 1..n : Entry(cat, codes[i]).code = codes[i]
      BY <1>2, EntriesAgree
  <2> QED BY <1>2, <2>1
<1> PICK found : found = Picked(codes, places)
    OBVIOUS
<1> PICK m \in Nat : IsArticleList(cat, F, found, m)
  <2>1. cat \in Catalogues /\ Loads(cat) /\ n \in Nat /\ IsArticleList(cat, T, codes, n)
      OBVIOUS
  <2>2. places = {i \in 1..n : Entry(cat, codes[i]) \in F} /\ found = Picked(codes, places)
      OBVIOUS
  <2> QED BY ONLY <1>1, <2>1, <2>2, FoundListed
<1>4. found \in [1..m -> CodesOf(cat)]
    BY DEF IsArticleList
<1> PICK s : s = EntryList(cat, found, m)
    OBVIOUS
<1>0. PICK before : before = EntryOrder(F)
    OBVIOUS
<1>5. Lists(s, F, before) /\ IsFiniteSet(F) /\ m = Cardinality(F) /\ StrictOrder(F, before)
    BY <1>1, <1>0, ListedEntries
<1> PICK start : start = (page - 1) * ArticlesPerPage
    OBVIOUS
<1> PICK length : length = OnPage(m, start, ArticlesPerPage)
    OBVIOUS
<1>6. ArticlesPerPage \in Nat \ {0}
    BY LibraryAssumption
<1>7. start \in Nat /\ \A i \in 1..length : start + i \in 1..m
  <2>1. start \in Nat
      BY <1>6, StartOf
  <2> QED BY <1>6, <2>1 DEF OnPage
<1> PICK on : on = Part(s, start, length)
    OBVIOUS
<1>8. on = PageOf(F, before, page, ArticlesPerPage)
    BY <1>5, <1>6, PagesOfLists
<1> PICK slice : slice = Part(found, start, length)
    OBVIOUS
<1> PICK pages : pages = PageCount(m, ArticlesPerPage)
    OBVIOUS
<1>9. Paginate(cat, found, page, ArticlesPerPage) = [from |-> cat, items |-> slice, pages |-> pages]
  <2>1. m \in Nat /\ start = (page - 1) * ArticlesPerPage /\ page \in Nat \ {0}
      OBVIOUS
  <2>2. IsReply(Paginate(cat, found, page, ArticlesPerPage), cat, Part(found, start, OnPage(m, start, ArticlesPerPage)),
                PageCount(m, ArticlesPerPage))
      BY ONLY <1>4, <1>6, <2>1, Paginated
  <2> QED BY <2>2 DEF IsReply
<1>10. ASSUME NEW i \in 1..length
       PROVE  on[i] = Entry(cat, slice[i]) /\ on[i].code = slice[i]
  <2> PICK k : k = start + i
      OBVIOUS
  <2>1. k \in 1..m /\ on[i] = s[k] /\ slice[i] = found[k]
      BY <1>7 DEF Part
  <2>2. s[k] = Entry(cat, found[k]) /\ found[k] \in CodesOf(cat)
      BY <1>4, <2>1 DEF EntryList
  <2>3. Entry(cat, found[k]).code = found[k]
      BY <2>2, EntriesAgree
  <2> QED BY <2>1, <2>2, <2>3
<1>11. PromisedArticles(cat, d, q, page) = [i \in 1..length |-> <<on[i].code, on[i].number>>]
  <2>1. on = PageOf(F, ByKeys(F, [a \in F |-> IF a.number = Nothing THEN 99999 ELSE a.number],
                              [a \in F |-> a.code]), page, ArticlesPerPage)
      BY ONLY <1>8, <1>0 DEF EntryOrder
  <2>2. F = {a \in EntriesOf(cat, d) : q = Nothing \/ a.code \in FoundArticles[q]}
      OBVIOUS
  <2>3. PromisedArticles(cat, d, q, page) = [i \in DOMAIN on |-> <<on[i].code, on[i].number>>]
      BY ONLY <2>1, <2>2 DEF PromisedArticles
  <2>4. DOMAIN on = 1..length
      BY DEF Part
  <2> QED BY ONLY <2>3, <2>4
<1>12. ListDocumentArticles(cat, d, q, page) =
           [Paginate(cat, found, page, ArticlesPerPage) EXCEPT
               !.items = [i \in DOMAIN @ |-> <<@[i], Entry(cat, @[i]).number>>]]
  <2>1. found = Picked(codes, {i \in DOMAIN codes : q = Nothing \/ codes[i] \in FoundArticles[q]})
      BY <1>3
  <2> QED BY <2>1 DEF ListDocumentArticles
<1> PICK lines : lines = [i \in DOMAIN slice |-> <<slice[i], Entry(cat, slice[i]).number>>]
    OBVIOUS
<1>13. ListDocumentArticles(cat, d, q, page).from = cat /\ ListDocumentArticles(cat, d, q, page).items = lines
  <2> PICK listed : listed = Paginate(cat, found, page, ArticlesPerPage)
      OBVIOUS
  <2>1. listed = [from |-> cat, items |-> slice, pages |-> pages]
      BY <1>9
  <2>2. ListDocumentArticles(cat, d, q, page) =
            [listed EXCEPT !.items = [i \in DOMAIN @ |-> <<@[i], Entry(cat, @[i]).number>>]]
      BY ONLY <1>12, listed = Paginate(cat, found, page, ArticlesPerPage)
  <2>3. listed.items = slice
      BY ONLY <2>1
  <2>4. ListDocumentArticles(cat, d, q, page) = [listed EXCEPT !.items = lines]
      BY ONLY <2>2, <2>3, lines = [i \in DOMAIN slice |-> <<slice[i], Entry(cat, slice[i]).number>>]
  <2> QED BY ONLY <2>1, <2>4
<1>14. lines = [i \in 1..length |-> <<on[i].code, on[i].number>>]
  <2>1. \A i \in 1..length : on[i].code = slice[i] /\ on[i].number = Entry(cat, slice[i]).number
      BY <1>10
  <2>2. DOMAIN slice = 1..length
      BY DEF Part
  <2> QED BY ONLY <2>1, <2>2, lines = [i \in DOMAIN slice |-> <<slice[i], Entry(cat, slice[i]).number>>]
<1> QED BY ONLY <1>11, <1>13, <1>14

\* What is said of a document or an article that is there
LEMMA ReplyIsPromised ==
    ASSUME NEW cat \in Catalogues, Loads(cat), NEW asks, asks.effect \in Effects, Reply(cat, asks) # Failed,
           asks.effect \in {"list", "articles"} => asks.page \in Nat \ {0}
    PROVE  Reply(cat, asks).from = cat /\ Reply(cat, asks).items = Promised(cat, asks)
<1>1. CASE asks.effect = "list"
  <2>1. Reply(cat, asks) = ListDocuments(cat, asks.of, asks.q, asks.page)
      BY <1>1 DEF Reply
  <2>2. Promised(cat, asks) = PromisedDocuments(cat, asks.of, asks.q, asks.page)
      BY <1>1 DEF Promised
  <2> QED BY <1>1, <2>1, <2>2, DocumentsPromised
<1>2. CASE asks.effect = "header"
  <2>1. Reply(cat, asks) = GetDocument(cat, asks.of)
      BY <1>2 DEF Reply
  <2>2. Promised(cat, asks) = <<<<asks.of, Cardinality(EntriesOf(cat, asks.of))>>>>
      BY <1>2 DEF Promised
  <2>3. Reply(cat, asks) = [from |-> cat, items |-> <<Summary(cat, asks.of)>>, pages |-> 1]
      BY <2>1 DEF GetDocument
  <2> QED BY <2>2, <2>3, SummaryCounts
<1>3. CASE asks.effect = "articles"
  <2>1. Reply(cat, asks) = ListDocumentArticles(cat, asks.of, asks.q, asks.page)
      BY <1>3 DEF Reply
  <2>2. Promised(cat, asks) = PromisedArticles(cat, asks.of, asks.q, asks.page)
      BY <1>3 DEF Promised
  <2>3. asks.of \in IndexedDocuments(cat)
      BY <2>1 DEF ListDocumentArticles
  <2> QED BY <1>3, <2>1, <2>2, <2>3, ArticlesPromised
<1>4. CASE asks.effect = "viewer"
  <2> PICK code : code = asks.of
      OBVIOUS
  <2>1. Reply(cat, asks) = GetArticle(cat, code)
      BY <1>4 DEF Reply
  <2>2. code \in CodesOf(cat)
      BY <2>1 DEF GetArticle
  <2> PICK chunks : chunks = ChunksOf(cat, code)
      OBVIOUS
  <2>3. Reply(cat, asks) = [from |-> cat, items |-> [i \in DOMAIN chunks |-> <<i, chunks[i].doc>>], pages |-> 1]
      BY <2>1, <2>2 DEF GetArticle
  <2>4. Promised(cat, asks) = [i \in DOMAIN chunks |-> <<i, Entry(cat, code).doc>>]
      BY <1>4 DEF Promised
  <2>5. \A i \in DOMAIN chunks : chunks[i].doc = Entry(cat, code).doc
      BY <2>2, ChunksAgree
  <2>6. [i \in DOMAIN chunks |-> <<i, chunks[i].doc>>] = [i \in DOMAIN chunks |-> <<i, Entry(cat, code).doc>>]
      BY <2>5
  <2> QED BY <2>3, <2>4, <2>6
<1> QED BY <1>1, <1>2, <1>3, <1>4 DEF Effects

-----------------------------------------------------------------------------
(* The document library: whose reply a page shows                            *)

\* r is what some catalogue whose files agree says to what is asked for.
Answers(r, asks) == \E cat \in Catalogues : Loads(cat) /\ r = Reply(cat, asks)

Paged == {"list", "articles"}

AsksOf(asks, e) ==
    /\ "effect" \in DOMAIN asks /\ asks.effect = e
    /\ e \in Paged => "page" \in DOMAIN asks /\ asks.page \in Nat \ {0}

\* What a page asks for and shows
PaneSound(e) ==
    /\ {"asks", "state", "data"} \subseteq DOMAIN pane[e]
    /\ pane[e].asks = Nothing \/ AsksOf(pane[e].asks, e)
    /\ Shown(e) => /\ AsksOf(pane[e].asks, e) /\ Answers(pane[e].data, pane[e].asks)
                    /\ pane[e].data # Failed

\* A request that is not aborted asks for what its page asks for now.
FetchSound(f) ==
    /\ {"asks", "chunks", "reply"} \subseteq DOMAIN f
    /\ f.chunks = Nothing \/ f.chunks \in Versions
    /\ \E e \in Effects : AsksOf(f.asks, e) /\ f.asks = pane[e].asks
    /\ f.reply \in {Nothing, Failed} \/ Answers(f.reply, f.asks)

LibraryInv ==
    /\ disk \in Catalogues
    /\ cached = Nothing \/ (cached \in Catalogues /\ Loads(cached))
    /\ DOMAIN pane = Effects /\ \A e \in Effects : PaneSound(e)
    /\ \A f \in fetches : FetchSound(f)

\* What replacing a request by its next state keeps
LEMMA FetchMoves ==
    ASSUME LibraryInv, NEW f \in fetches, NEW g, fetches' \subseteq fetches \cup {g}, UNCHANGED pane,
           {"asks", "chunks", "reply"} \subseteq DOMAIN g, g.asks = f.asks,
           g.chunks = Nothing \/ g.chunks \in Versions,
           g.reply \in {Nothing, Failed} \/ Answers(g.reply, f.asks)
    PROVE  (\A h \in fetches : FetchSound(h))'
<1>1. FetchSound(f)
    BY DEF LibraryInv
<1>2. ASSUME NEW h \in fetches'
      PROVE  FetchSound(h)'
  <2>1. CASE h = g
      BY <1>1, <2>1 DEF FetchSound
  <2>2. CASE h \in fetches
    <3>1. FetchSound(h)
        BY <2>2 DEF LibraryInv
    <3> QED BY <3>1 DEF FetchSound
  <2> QED BY <2>1, <2>2
<1> QED BY <1>2

LEMMA PanesStay ==
    ASSUME LibraryInv, UNCHANGED pane
    PROVE  DOMAIN pane' = Effects /\ \A e \in Effects : PaneSound(e)'
BY DEF LibraryInv, PaneSound, Shown

LEMMA RenderKeepsLibraryInv ==
    ASSUME LibraryInv, NEW new, NEW left, Render(new, left), DOMAIN new \subseteq Effects,
           \A e \in DOMAIN new : AsksOf(new[e], e)
    PROVE  LibraryInv'
<1>1. ASSUME NEW e \in Effects
      PROVE  PaneSound(e)'
  <2>1. PaneSound(e)
      BY DEF LibraryInv
  <2>2. CASE e \in DOMAIN new
    <3>1. pane'[e] = [asks |-> new[e], state |-> "loading", data |-> Nothing]
        BY <2>2 DEF Render
    <3> QED BY <2>2, <3>1 DEF PaneSound, Shown
  <2>3. CASE e \notin DOMAIN new /\ e \in left
    <3>1. pane'[e] = [asks |-> Nothing, state |-> "none", data |-> Nothing]
        BY <2>3 DEF Render, Unmounted
    <3> QED BY <3>1 DEF PaneSound, Shown
  <2>4. CASE e \notin DOMAIN new /\ e \notin left
    <3>1. pane'[e] = pane[e]
        BY <2>4 DEF Render
    <3> QED BY <2>1, <3>1 DEF PaneSound, Shown
  <2> QED BY <2>2, <2>3, <2>4
<1>2. ASSUME NEW f \in fetches'
      PROVE  FetchSound(f)'
  <2>1. CASE f \in fetches /\ f.asks.effect \notin DOMAIN new \cup left
    <3>1. FetchSound(f)
        BY <2>1 DEF LibraryInv
    <3>2. PICK e \in Effects : AsksOf(f.asks, e) /\ f.asks = pane[e].asks
        BY <3>1 DEF FetchSound
    <3>3. pane'[e] = pane[e]
      <4>1. e \notin DOMAIN new \cup left
          BY <2>1, <3>2 DEF AsksOf
      <4> QED BY <4>1 DEF Render
    <3> QED BY <3>1, <3>2, <3>3 DEF FetchSound
  <2>2. CASE f \in {[asks |-> new[e], chunks |-> Nothing, reply |-> Nothing] : e \in DOMAIN new}
    <3>1. PICK e \in DOMAIN new : f = [asks |-> new[e], chunks |-> Nothing, reply |-> Nothing]
        BY <2>2
    <3>2. e \in Effects /\ AsksOf(new[e], e)
        BY <3>1
    <3>3. pane'[e].asks = new[e]
        BY <3>1, <3>2 DEF Render
    <3> QED BY <3>1, <3>2, <3>3 DEF FetchSound
  <2> QED BY <2>1, <2>2 DEF Render
<1>3. /\ disk' \in Catalogues
      /\ cached' = Nothing \/ (cached' \in Catalogues /\ Loads(cached'))
      /\ DOMAIN pane' = Effects
    BY DEF Render, LibraryInv
<1> QED BY <1>1, <1>2, <1>3 DEF LibraryInv

LEMMA ServerKeepsLibraryInv ==
    ASSUME LibraryInv, NEW f \in fetches, Serve(f) \/ ReadChunks(f) \/ ReadArticles(f)
    PROVE  LibraryInv'
<1>1. FetchSound(f)
    BY DEF LibraryInv
<1>2. UNCHANGED <<disk, pane>>
    BY DEF Serve, ReadChunks, ReadArticles
<1>3. DOMAIN pane' = Effects /\ \A e \in Effects : PaneSound(e)'
    BY <1>2, PanesStay
<1>4. disk' \in Catalogues
    BY <1>2 DEF LibraryInv
<1>5. CASE Serve(f)
  <2>1. PICK g : g = [f EXCEPT !.reply = Reply(cached, f.asks)]
      OBVIOUS
  <2>2. fetches' \subseteq fetches \cup {g} /\ cached' = cached
      BY <1>5, <2>1 DEF Serve, Replace
  <2>3. Answers(g.reply, f.asks)
    <3>1. cached \in Catalogues /\ Loads(cached)
        BY <1>5 DEF Serve, LibraryInv
    <3>2. g.reply = Reply(cached, f.asks)
        BY <1>1, <2>1 DEF FetchSound
    <3> QED BY <3>1, <3>2 DEF Answers
  <2>4. /\ {"asks", "chunks", "reply"} \subseteq DOMAIN g /\ g.asks = f.asks
        /\ g.chunks = Nothing \/ g.chunks \in Versions
      BY <1>1, <2>1 DEF FetchSound
  <2>5. \A h \in fetches' : FetchSound(h)'
      BY <1>2, <2>2, <2>3, <2>4, FetchMoves
  <2> QED BY <1>3, <1>4, <2>2, <2>5 DEF LibraryInv
<1>6. CASE ReadChunks(f)
  <2>1. PICK g : g = [f EXCEPT !.chunks = disk.chunks]
      OBVIOUS
  <2>2. fetches' \subseteq fetches \cup {g} /\ cached' = cached
      BY <1>6, <2>1 DEF ReadChunks
  <2>3. disk.chunks \in Versions
      BY DEF LibraryInv, Catalogues
  <2>4. /\ {"asks", "chunks", "reply"} \subseteq DOMAIN g /\ g.asks = f.asks
        /\ g.chunks \in Versions /\ g.reply = f.reply
      BY <1>1, <2>1, <2>3 DEF FetchSound
  <2>5. g.reply \in {Nothing, Failed} \/ Answers(g.reply, f.asks)
      BY <1>1, <2>4 DEF FetchSound
  <2>6. \A h \in fetches' : FetchSound(h)'
      BY <1>2, <2>2, <2>4, <2>5, FetchMoves
  <2> QED BY <1>3, <1>4, <2>2, <2>6 DEF LibraryInv
<1>7. CASE ReadArticles(f)
  <2>1. PICK cat : cat = [chunks |-> f.chunks, articles |-> disk.articles]
      OBVIOUS
  <2>2. cat \in Catalogues
    <3>1. f.chunks \in Versions /\ disk.articles \in Versions
        BY <1>1, <1>7 DEF ReadArticles, FetchSound, LibraryInv, Catalogues
    <3> QED BY <2>1, <3>1 DEF Catalogues
  <2>3. PICK r : r = IF Loads(cat) THEN Reply(cat, f.asks) ELSE Failed
      OBVIOUS
  <2>4. PICK g : g = [f EXCEPT !.reply = r]
      OBVIOUS
  <2>5. fetches' \subseteq fetches \cup {g}
      BY <1>7, <2>1, <2>3, <2>4 DEF ReadArticles, Replace
  <2>6. cached' = Nothing \/ (cached' \in Catalogues /\ Loads(cached'))
      BY <1>7, <2>1, <2>2 DEF ReadArticles, LibraryInv
  <2>7. /\ {"asks", "chunks", "reply"} \subseteq DOMAIN g /\ g.asks = f.asks
        /\ g.chunks = Nothing \/ g.chunks \in Versions
        /\ g.reply = r
      BY <1>1, <2>4 DEF FetchSound
  <2>8. g.reply \in {Nothing, Failed} \/ Answers(g.reply, f.asks)
      BY <2>2, <2>3, <2>7 DEF Answers
  <2>9. \A h \in fetches' : FetchSound(h)'
      BY <1>2, <2>5, <2>7, <2>8, FetchMoves
  <2> QED BY <1>3, <1>4, <2>6, <2>9 DEF LibraryInv
<1> QED BY <1>5, <1>6, <1>7

LEMMA FilesKeepLibraryInv == ASSUME LibraryInv, ReplaceFile \/ Restart PROVE LibraryInv'
<1>1. UNCHANGED pane /\ (cached' = cached \/ cached' = Nothing)
    BY DEF ReplaceFile, Restart
<1>2. DOMAIN pane' = Effects /\ \A e \in Effects : PaneSound(e)'
    BY <1>1, PanesStay
<1>3. disk' \in Catalogues
    BY DEF ReplaceFile, Restart, LibraryInv, Catalogues
<1>4. ASSUME NEW g \in fetches'
      PROVE  FetchSound(g)'
  <2>1. CASE ReplaceFile
    <3>1. FetchSound(g)
        BY <2>1 DEF ReplaceFile, LibraryInv
    <3> QED BY <1>1, <3>1 DEF FetchSound
  <2>2. CASE Restart
    <3>1. PICK f \in fetches : g = IF f.reply = Nothing THEN [f EXCEPT !.reply = Failed] ELSE f
        BY <2>2 DEF Restart
    <3>2. FetchSound(f)
        BY DEF LibraryInv
    <3>3. /\ {"asks", "chunks", "reply"} \subseteq DOMAIN g /\ g.asks = f.asks /\ g.chunks = f.chunks
          /\ g.reply = f.reply \/ g.reply = Failed
        BY <3>1, <3>2 DEF FetchSound
    <3> QED BY <1>1, <3>2, <3>3 DEF FetchSound
  <2> QED BY <2>1, <2>2
<1>5. cached' = Nothing \/ (cached' \in Catalogues /\ Loads(cached'))
    BY <1>1 DEF LibraryInv
<1> QED BY <1>2, <1>3, <1>4, <1>5 DEF LibraryInv

LEMMA PagesKeepLibraryInv ==
    ASSUME LibraryInv,
           \/ OpenLibrary \/ OpenDocument \/ FilterDocuments \/ SearchArticles
           \/ TurnPage("list") \/ TurnPage("articles") \/ ViewArticle \/ CloseViewer \/ RenderAround
    PROVE  LibraryInv'
<1> USE DEF Effects
<1>1. \A e, of, q, page : (e \in Paged => page \in Nat \ {0}) => AsksOf(Ask(e, of, q, page), e)
    BY DEF AsksOf, Ask
<1>0. Paged = {"list", "articles"}
    BY DEF Paged
<1>2. CASE OpenLibrary
    BY <1>1, <1>0, <1>2, RenderKeepsLibraryInv DEF OpenLibrary
<1>3. CASE OpenDocument
    BY <1>1, <1>0, <1>3, RenderKeepsLibraryInv DEF OpenDocument
<1>4. CASE FilterDocuments
    BY <1>1, <1>0, <1>4, RenderKeepsLibraryInv DEF FilterDocuments
<1>5. CASE SearchArticles
    BY <1>1, <1>0, <1>5, RenderKeepsLibraryInv DEF SearchArticles
<1>6. ASSUME NEW e \in Paged, TurnPage(e)
      PROVE  LibraryInv'
  <2> PICK asks : asks = Asked(e)
      OBVIOUS
  <2>0. AsksOf(asks, e)
      BY <1>6, <1>0 DEF TurnPage, LibraryInv, PaneSound, Asked
  <2>1. PICK page \in {asks.page - 1, asks.page + 1} :
            page >= 1 /\ Render([x \in {e} |-> [Asked(e) EXCEPT !.page = page]], {})
      BY <1>6 DEF TurnPage
  <2>2. AsksOf([Asked(e) EXCEPT !.page = page], e)
    <3>1. page \in Nat \ {0}
        BY <2>0, <2>1 DEF AsksOf
    <3> QED BY <2>0, <3>1 DEF AsksOf
  <2>3. PICK new : new = [x \in {e} |-> [Asked(e) EXCEPT !.page = page]]
      OBVIOUS
  <2>4. DOMAIN new \subseteq Effects /\ \A x \in DOMAIN new : AsksOf(new[x], x)
      BY <1>0, <2>2, <2>3
  <2> QED BY <2>1, <2>3, <2>4, RenderKeepsLibraryInv
<1>7. CASE ViewArticle
    BY <1>1, <1>0, <1>7, RenderKeepsLibraryInv DEF ViewArticle
<1>8. CASE CloseViewer
  <2>1. DOMAIN <<>> = {}
      OBVIOUS
  <2> QED BY <1>8, <2>1, RenderKeepsLibraryInv DEF CloseViewer
<1>9. CASE RenderAround
  <2>1. AsksOf(Asked("viewer"), "viewer")
      BY <1>9 DEF RenderAround, Mounted, Asked, LibraryInv, PaneSound
  <2> QED BY <1>9, <2>1, RenderKeepsLibraryInv DEF RenderAround
<1> QED BY <1>2, <1>3, <1>4, <1>5, <1>6, <1>7, <1>8, <1>9, <1>0

LEMMA SettleKeepsLibraryInv == ASSUME LibraryInv, NEW f \in fetches, Settle(f) PROVE LibraryInv'
<1>1. FetchSound(f) /\ f.reply # Nothing
    BY DEF LibraryInv, Settle
<1>2. PICK e \in Effects : AsksOf(f.asks, e) /\ f.asks = pane[e].asks
    BY <1>1 DEF FetchSound
<1>3. f.asks.effect = e
    BY <1>2 DEF AsksOf
<1>4. PICK settled : settled = [asks |-> Asked(e), state |-> IF f.reply = Failed THEN "error" ELSE "shown",
                                data |-> IF f.reply = Failed THEN Nothing ELSE f.reply]
    OBVIOUS
<1>5. PICK again \in BOOLEAN : again <=> e \in {"header", "articles"} /\ Mounted("viewer")
    OBVIOUS
<1>6. PICK emptied : emptied = [pane["viewer"] EXCEPT !.state = "loading", !.data = Nothing]
    OBVIOUS
<1>7. /\ DOMAIN pane' = Effects /\ pane'[e] = settled
      /\ \A x \in Effects \ {e} : pane'[x] = IF x = "viewer" /\ again THEN emptied ELSE pane[x]
  <2>1. pane' = [pane EXCEPT ![e] = settled,
                    !["viewer"] = IF again THEN [@ EXCEPT !.state = "loading", !.data = Nothing]
                                  ELSE IF e = "viewer" THEN settled ELSE @]
      BY <1>3, <1>4, <1>5 DEF Settle
  <2> QED BY <1>5, <1>6, <2>1 DEF LibraryInv, Effects
<1>8. settled.asks = pane[e].asks /\ {"asks", "state", "data"} \subseteq DOMAIN settled
    BY <1>4 DEF Asked
<1>9. again => emptied.asks = pane["viewer"].asks /\ AsksOf(emptied.asks, "viewer")
                 /\ {"asks", "state", "data"} \subseteq DOMAIN emptied /\ emptied.state = "loading"
  <2>1. PaneSound("viewer")
      BY DEF LibraryInv, Effects
  <2> QED BY <1>5, <1>6, <2>1 DEF PaneSound, Mounted
<1>10. \A x \in Effects : pane'[x].asks = pane[x].asks
    BY <1>7, <1>8, <1>9
<1>11. ASSUME NEW x \in Effects
       PROVE  PaneSound(x)'
  <2>1. PaneSound(x)
      BY DEF LibraryInv
  <2>2. CASE x = e
    <3>1. settled.state = "shown" => Answers(settled.data, settled.asks) /\ settled.data # Failed
        BY <1>1, <1>2, <1>4, <1>8 DEF FetchSound
    <3> QED BY <1>2, <1>7, <1>8, <2>2, <3>1 DEF PaneSound, Shown
  <2>3. CASE x # e /\ x = "viewer" /\ again
      BY <1>7, <1>9, <2>3 DEF PaneSound, Shown
  <2>4. CASE x # e /\ ~(x = "viewer" /\ again)
    <3>1. pane'[x] = pane[x]
        BY <1>7, <2>4
    <3> QED BY <2>1, <3>1 DEF PaneSound, Shown
  <2> QED BY <2>2, <2>3, <2>4
<1>12. PICK g : g = [asks |-> Asked("viewer"), chunks |-> Nothing, reply |-> Nothing]
    OBVIOUS
<1>13. \A h \in fetches' : h \in fetches \/ (again /\ h = g)
    BY <1>3, <1>5, <1>12 DEF Settle
<1>14. ASSUME NEW h \in fetches'
       PROVE  FetchSound(h)'
  <2>1. CASE h \in fetches
    <3>1. FetchSound(h)
        BY <2>1 DEF LibraryInv
    <3> QED BY <1>10, <3>1 DEF FetchSound
  <2>2. CASE again /\ h = g
    <3>1. "viewer" \in Effects
        BY DEF Effects
    <3>2. h.asks = pane["viewer"].asks /\ AsksOf(h.asks, "viewer")
        BY <1>9, <1>12, <2>2 DEF Asked
    <3>3. h.asks = pane'["viewer"].asks
        BY <1>10, <3>1, <3>2
    <3> QED BY <1>12, <2>2, <3>1, <3>2, <3>3 DEF FetchSound
  <2> QED BY <1>13, <2>1, <2>2
<1>15. /\ disk' \in Catalogues
       /\ cached' = Nothing \/ (cached' \in Catalogues /\ Loads(cached'))
    BY DEF Settle, LibraryInv
<1> QED BY <1>7, <1>11, <1>14, <1>15 DEF LibraryInv

THEOREM LibraryInvariance == LibrarySpec => []LibraryInv
<1>1. LibraryInit => LibraryInv
  <2> SUFFICES ASSUME LibraryInit PROVE LibraryInv
      OBVIOUS
  <2>1. disk \in Catalogues
      BY DEF LibraryInit, Catalogues
  <2>2. ASSUME NEW e \in Effects
        PROVE  PaneSound(e)
      BY DEF LibraryInit, Unmounted, PaneSound, Shown
  <2> QED BY <2>1, <2>2 DEF LibraryInit, LibraryInv
<1>2. LibraryInv /\ [LibraryNext]_libraryVars => LibraryInv'
  <2> SUFFICES ASSUME LibraryInv, [LibraryNext]_libraryVars PROVE LibraryInv'
      OBVIOUS
  <2>1. CASE \E f \in fetches : Serve(f) \/ ReadChunks(f) \/ ReadArticles(f)
      BY <2>1, ServerKeepsLibraryInv
  <2>2. CASE \E f \in fetches : Settle(f)
      BY <2>2, SettleKeepsLibraryInv
  <2>3. CASE ReplaceFile \/ Restart
      BY <2>3, FilesKeepLibraryInv
  <2>4. CASE \/ OpenLibrary \/ OpenDocument \/ FilterDocuments \/ SearchArticles
             \/ TurnPage("list") \/ TurnPage("articles") \/ ViewArticle \/ CloseViewer \/ RenderAround
      BY <2>4, PagesKeepLibraryInv
  <2>5. CASE UNCHANGED libraryVars
      BY <2>5 DEF libraryVars, LibraryInv, PaneSound, FetchSound, Shown
  <2> QED BY <2>1, <2>2, <2>3, <2>4, <2>5 DEF LibraryNext
<1> QED BY <1>1, <1>2, PTL DEF LibrarySpec

LEMMA RepliesAreShown == LibraryInv => ShownIsReply
BY DEF LibraryInv, PaneSound, Answers, Catalogues, ShownIsReply, Asked

LEMMA PromisesAreShown == ASSUME LibraryInv PROVE ShownIsPromised
<1> SUFFICES ASSUME NEW e \in Effects, Shown(e)
             PROVE  pane[e].data.items = Promised(pane[e].data.from, Asked(e))
    BY DEF ShownIsPromised
<1> PICK asks : asks = Asked(e)
    OBVIOUS
<1>1. AsksOf(asks, e) /\ Answers(pane[e].data, asks) /\ pane[e].data # Failed
    BY DEF LibraryInv, PaneSound, Asked
<1>2. PICK cat \in Catalogues : Loads(cat) /\ pane[e].data = Reply(cat, asks)
    BY <1>1 DEF Answers
<1>3. asks.effect \in Effects /\ (asks.effect \in {"list", "articles"} => asks.page \in Nat \ {0})
    BY <1>1 DEF AsksOf, Paged
<1>4. Reply(cat, asks).from = cat /\ Reply(cat, asks).items = Promised(cat, asks)
    BY <1>1, <1>2, <1>3, ReplyIsPromised
<1> QED BY <1>2, <1>4

\* Whatever a page shows is a reply to what it asks for now, from one catalogue
\* whose two files agreed (the cleanups of the effects, get_source_catalog), and
\* it is what the articles file of that catalogue says: the documents and the
\* articles of that page and no other, each card with the count of its articles,
\* no passage of another document (build_source_catalog, paginate).
THEOREM PagesShowWhatIsAsked == LibrarySpec => []ShownIsAsked
<1>1. LibraryInv => ShownIsAsked
    BY RepliesAreShown, PromisesAreShown DEF ShownIsAsked
<1> QED BY <1>1, LibraryInvariance, PTL

=============================================================================
