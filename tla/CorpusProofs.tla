------------------------------ MODULE CorpusProofs ------------------------------
(***************************************************************************)
(* Proofs about the scripts that collect and complete the corpus:          *)
(* VbplPortal, GazetteSources, CanonicalRelease, WordDocument and          *)
(* LegalParser, for any batches, registries, documents, pages, answers,    *)
(* decisions and audits, however often processes die.                      *)
(*                                                                         *)
(* VbplPortal: no proof uses the lock; two processes may both hold it      *)
(* (BreakLock).  A snapshot is whole because its process alone fills it,   *)
(* under a name of its own (WrittenSoFar), and takes its final name in one *)
(* step that verifies it; a published snapshot is never touched again.     *)
(*                                                                         *)
(* GazetteSources: here the lock is what keeps the files of a document     *)
(* still while its parts are put in place (RunnerHolds, OthersHold).       *)
(*                                                                         *)
(* CanonicalRelease: the files of a release agree with each other only     *)
(* while one run fills them in; what survives the next run is that the     *)
(* checksums are of files that did agree (ClaimsHold).  Their text is one  *)
(* because every step that writes articles or chunks keeps it so (Whole)   *)
(* and the sources were so (SourcesAreWhole).                              *)
(*                                                                         *)
(* WordDocument: the counters of the lists are those of the whole prefix   *)
(* that was read (AsCounted); what the recursive functions that locate the *)
(* articles compute is found with the least number at which they would     *)
(* fail (RecursionExists, LeastNumber).                                    *)
(*                                                                         *)
(* LegalParser: of the tags read so far the articles, the attachments, the *)
(* outline and the open quotations say all there is to say (ParserInv).    *)
(***************************************************************************)
EXTENDS VbplPortal, GazetteSources, CanonicalRelease, WordDocument, LegalParser,
        SequenceTheorems, FiniteSetTheorems, WellFoundedInduction, TLAPS

-----------------------------------------------------------------------------
(* VbplPortal                                                                *)

\* The shape of the records that are updated field by field
IsSnapshot(s) ==
    s = [name |-> s.name, files |-> s.files, sums |-> s.sums, gates |-> s.gates,
         contract |-> s.contract, saved |-> s.saved]
IsWork(w) == w = [step |-> w.step, document |-> w.document, inventory |-> w.inventory, served |-> w.served]
IsReport(r) ==
    /\ r = [status |-> r.status, results |-> r.results]
    /\ r.results \in Seq(ToSet(r.results))
    /\ \A i \in DOMAIN r.results : r.results[i].document \in DOMAIN Answers

\* Every variable that is updated for one process or document is a function of them.
Shapes ==
    /\ plan \in Plans
    /\ temp = [p \in Process |-> temp[p]]
    /\ work = [p \in Process |-> work[p]] /\ \A p \in Process : IsWork(work[p])
    /\ report = [p \in Process |-> report[p]] /\ \A p \in Process : IsReport(report[p])
    /\ published = [d \in DOMAIN Answers |-> published[d]]

\* A running batch has a next document.
HasTarget(p) == Running(p) => Len(report[p].results) < Len(plan[p].items)

\* What the process has written so far of the snapshot of its document
WrittenSoFar(p) ==
    /\ work[p].step \in {"compare", "files", "manifest", "publish"} =>
          Target(p).configured \subseteq work[p].inventory
    /\ work[p].step \in {"files", "manifest", "publish"} => IsSnapshot(temp[p])
    /\ work[p].step \in {"manifest", "publish"} => temp[p].saved = work[p].served
    /\ work[p].step = "publish" =>
          /\ temp[p].contract = Contract(Target(p))
          /\ temp[p].gates => Gates(Target(p), work[p].document, work[p].inventory, work[p].served)

IInv ==
    /\ Shapes
    /\ \A p \in Process : HasTarget(p) /\ (Running(p) => WrittenSoFar(p))
    /\ PublishedIsWhole
    /\ ReportNamesItsSnapshot

-----------------------------------------------------------------------------
(* Run reports                                                               *)

LEMMA Appended ==
    ASSUME NEW s, s \in Seq(ToSet(s)), NEW e
    PROVE  /\ Append(s, e) \in Seq(ToSet(Append(s, e)))
           /\ Len(s) \in Nat /\ Len(Append(s, e)) = Len(s) + 1
           /\ DOMAIN s = 1..Len(s) /\ DOMAIN Append(s, e) = 1..(Len(s) + 1)
           /\ \A i \in 1..Len(s) : Append(s, e)[i] = s[i]
           /\ Append(s, e)[Len(s) + 1] = e
<1> PICK S : S = ToSet(s) \cup {e}
    OBVIOUS
<1>1. s \in Seq(S) /\ e \in S
    OBVIOUS
<1> PICK t : t = Append(s, e)
    OBVIOUS
<1>2. /\ t \in Seq(S) /\ Len(t) = Len(s) + 1
      /\ \A i \in 1..Len(s) : t[i] = s[i]
      /\ t[Len(s) + 1] = e
    BY <1>1, AppendProperties
<1>3. Len(s) \in Nat /\ DOMAIN s = 1..Len(s) /\ DOMAIN t = 1..Len(t) /\ Len(t) \in Nat
    BY <1>1, <1>2, LenProperties
<1>4. t \in [1..Len(t) -> ToSet(t)]
    BY <1>2, <1>3, LenProperties DEF ToSet
<1>5. t \in Seq(ToSet(t))
  <2> PICK T : T = ToSet(t)
      OBVIOUS
  <2>1. Seq(T) = UNION {[1..n -> T] : n \in Nat}
      BY SeqDef
  <2> QED BY <1>3, <1>4, <2>1
<1> QED BY <1>2, <1>3, <1>5

\* A step of one process: nothing that is published goes, and the others are left alone.
LEMMA StepKeepsIInv ==
    ASSUME IInv, NEW p \in Process, NEW t, NEW w, NEW r,
           plan' = plan,
           temp' = [temp EXCEPT ![p] = t],
           work' = [work EXCEPT ![p] = w], IsWork(w),
           report' = [report EXCEPT ![p] = r], IsReport(r),
           published' = [d \in DOMAIN Answers |-> published'[d]],
           \A d \in DOMAIN Answers : published[d] \subseteq published'[d],
           HasTarget(p)', Running(p)' => WrittenSoFar(p)',
           PublishedIsWhole',
           \A i \in DOMAIN r.results : r.results[i].status # "failed" =>
               \E s \in published'[r.results[i].document] :
                   s.name = r.results[i].named /\ s.contract = r.results[i].contract
    PROVE  IInv'
<1>1. Shapes'
    BY DEF IInv, Shapes
<1>2. ASSUME NEW q \in Process PROVE HasTarget(q)' /\ (Running(q)' => WrittenSoFar(q)')
  <2>1. CASE q = p
      BY <2>1
  <2>2. CASE q # p
    <3>1. temp'[q] = temp[q] /\ work'[q] = work[q] /\ report'[q] = report[q]
        BY <2>2 DEF IInv, Shapes
    <3> QED BY SMTT(30), <3>1 DEF IInv, HasTarget, Running, WrittenSoFar, Target
  <2> QED BY <2>1, <2>2
<1>3. ReportNamesItsSnapshot'
  <2> SUFFICES ASSUME NEW q \in Process, NEW i \in DOMAIN report'[q].results,
                      report'[q].results[i].status # "failed"
               PROVE  \E s \in published'[report'[q].results[i].document] :
                          /\ s.name = report'[q].results[i].named
                          /\ s.contract = report'[q].results[i].contract
      BY DEF ReportNamesItsSnapshot
  <2>1. CASE q = p
    <3>1. report'[q] = r
        BY <2>1 DEF IInv, Shapes
    <3> QED BY <3>1
  <2>2. CASE q # p
    <3>1. report'[q] = report[q]
        BY <2>2 DEF IInv, Shapes
    <3> PICK e : e = report[q].results[i]
        OBVIOUS
    <3>2. PICK s \in published[e.document] : s.name = e.named /\ s.contract = e.contract
        BY <3>1 DEF IInv, ReportNamesItsSnapshot
    <3>3. e.document \in DOMAIN Answers
        BY <3>1 DEF IInv, Shapes, IsReport
    <3> QED BY <3>1, <3>2, <3>3
  <2> QED BY <2>1, <2>2
<1> QED BY <1>1, <1>2, <1>3 DEF IInv

\* A document number of a running batch is one of the portal.
LEMMA TargetExists ==
    ASSUME IInv, NEW p \in Process, Running(p)
    PROVE  /\ Len(report[p].results) \in Nat /\ Len(plan[p].items) \in Nat
           /\ Len(report[p].results) < Len(plan[p].items)
           /\ Doc(p) \in DOMAIN Answers
<1>1. plan \in Plans /\ report[p].results \in Seq(ToSet(report[p].results))
    BY DEF IInv, Shapes, IsReport
<1>2. /\ plan[p].items \in Seq(ToSet(plan[p].items))
      /\ \A i \in 1..Len(plan[p].items) : plan[p].items[i].document \in DOMAIN Answers
    BY <1>1, PlansAssumption
<1>3. Len(report[p].results) \in Nat /\ Len(plan[p].items) \in Nat
    BY <1>1, <1>2, LenProperties
<1>4. Len(report[p].results) < Len(plan[p].items)
    BY DEF IInv, HasTarget
<1>5. Len(report[p].results) + 1 \in 1..Len(plan[p].items)
    BY <1>3, <1>4
<1> QED BY <1>2, <1>3, <1>4, <1>5 DEF Doc, Target

\* An entry of the run report that names a snapshot on disk.
LEMMA ReportedKeepsIInv ==
    ASSUME IInv, NEW p \in Process, Running(p), NEW status, NEW named, NEW t,
           Reported(p, status, named),
           plan' = plan, temp' = [temp EXCEPT ![p] = t],
           published' = [d \in DOMAIN Answers |-> published'[d]],
           \A d \in DOMAIN Answers : published[d] \subseteq published'[d],
           PublishedIsWhole',
           status # "failed" =>
               \E s \in published'[Doc(p)] : s.name = named /\ s.contract = Contract(Target(p))
    PROVE  IInv'
<1>1. PICK e : e = [document |-> Doc(p), contract |-> Contract(Target(p)), status |-> status, named |-> named]
    OBVIOUS
<1>2. PICK results : results = Append(report[p].results, e)
    OBVIOUS
<1>3. PICK over \in BOOLEAN :
          over = (Len(results) = Len(plan[p].items) \/ (status = "failed" /\ ~plan[p].keepGoing))
    OBVIOUS
<1>4. PICK r : r = [status |-> IF ~over THEN "running" ELSE IF Failures(results) THEN "failed" ELSE "completed",
                    results |-> results]
    OBVIOUS
<1>5. report' = [report EXCEPT ![p] = r] /\ work' = [work EXCEPT ![p] = Idle]
    BY <1>1, <1>2, <1>3, <1>4 DEF Reported
<1>6. report[p].results \in Seq(ToSet(report[p].results))
    BY DEF IInv, Shapes, IsReport
<1>7. /\ results \in Seq(ToSet(results))
      /\ Len(results) = Len(report[p].results) + 1
      /\ DOMAIN report[p].results = 1..Len(report[p].results)
      /\ DOMAIN results = 1..(Len(report[p].results) + 1)
      /\ \A i \in 1..Len(report[p].results) : results[i] = report[p].results[i]
      /\ results[Len(report[p].results) + 1] = e
    BY <1>2, <1>6, Appended
<1>8. \A i \in DOMAIN results : results[i] = e \/ (i \in DOMAIN report[p].results /\ results[i] = report[p].results[i])
    BY <1>7, TargetExists
<1>9. IsReport(r)
  <2>1. e.document \in DOMAIN Answers
      BY <1>1, TargetExists
  <2>2. \A i \in DOMAIN report[p].results : report[p].results[i].document \in DOMAIN Answers
      BY DEF IInv, Shapes, IsReport
  <2>3. \A i \in DOMAIN results : results[i].document \in DOMAIN Answers
      BY <1>8, <2>1, <2>2
  <2>4. r.results = results /\ r = [status |-> r.status, results |-> r.results]
      BY <1>4
  <2> QED BY <2>3, <2>4, <1>7 DEF IsReport
<1>10. report'[p] = r /\ work'[p] = Idle
    BY <1>5 DEF IInv, Shapes
<1>11. HasTarget(p)'
  <2>1. ASSUME Running(p)' PROVE Len(r.results) < Len(plan[p].items)
    <3>1. r.status = "running" /\ r.results = results
        BY <1>4, <1>10, <2>1 DEF Running
    <3>2. Len(results) # Len(plan[p].items)
        BY <1>3, <1>4, <3>1
    <3> QED BY <1>7, <3>1, <3>2, TargetExists
  <2> QED BY <2>1, <1>10 DEF HasTarget
<1>12. Running(p)' => WrittenSoFar(p)'
    BY <1>10 DEF WrittenSoFar, Idle
<1>13. \A i \in DOMAIN r.results : r.results[i].status # "failed" =>
               \E s \in published'[r.results[i].document] :
                   s.name = r.results[i].named /\ s.contract = r.results[i].contract
  <2>1. ASSUME NEW i \in DOMAIN results, results[i].status # "failed"
        PROVE  \E s \in published'[results[i].document] :
                   s.name = results[i].named /\ s.contract = results[i].contract
    <3>1. CASE results[i] = e
        BY <1>1, <2>1, <3>1
    <3>2. CASE i \in DOMAIN report[p].results /\ results[i] = report[p].results[i]
      <4>1. \E s \in published[results[i].document] :
                s.name = results[i].named /\ s.contract = results[i].contract
          BY <2>1, <3>2 DEF IInv, ReportNamesItsSnapshot
      <4>2. results[i].document \in DOMAIN Answers
          BY <3>2 DEF IInv, Shapes, IsReport
      <4> QED BY <4>1, <4>2
    <3> QED BY <1>8, <3>1, <3>2
  <2>2. r.results = results
      BY <1>4
  <2> QED BY <2>1, <2>2
<1>14. IsWork(Idle)
    BY DEF IsWork, Idle
<1> QED
  BY <1>5, <1>9, <1>11, <1>12, <1>13, <1>14, StepKeepsIInv

\* A failure is reported, and nothing is published.
LEMMA FailedKeepsIInv ==
    ASSUME IInv, NEW p \in Process, Running(p), NEW t, Reported(p, "failed", Absent),
           plan' = plan, temp' = [temp EXCEPT ![p] = t], published' = published
    PROVE  IInv'
<1>1. PublishedIsWhole'
    BY DEF IInv, PublishedIsWhole
<1>2. published' = [d \in DOMAIN Answers |-> published'[d]]
    BY DEF IInv, Shapes
<1> QED BY <1>1, <1>2, ReportedKeepsIInv

\* A step that only moves the process on, and perhaps writes its directory.
LEMMA WorkedKeepsIInv ==
    ASSUME IInv, NEW p \in Process, Running(p), NEW t, NEW w, IsWork(w),
           work' = [work EXCEPT ![p] = w], temp' = [temp EXCEPT ![p] = t],
           plan' = plan, report' = report, published' = published,
           WrittenSoFar(p)'
    PROVE  IInv'
<1>1. PublishedIsWhole'
    BY DEF IInv, PublishedIsWhole
<1>2. published' = [d \in DOMAIN Answers |-> published'[d]]
    BY DEF IInv, Shapes
<1>3. PICK r : r = report[p]
    OBVIOUS
<1>4. report' = [report EXCEPT ![p] = r] /\ IsReport(r)
    BY <1>3 DEF IInv, Shapes
<1>5. HasTarget(p)'
    BY DEF IInv, HasTarget, Running
<1>6. \A i \in DOMAIN r.results : r.results[i].status # "failed" =>
               \E s \in published'[r.results[i].document] :
                   s.name = r.results[i].named /\ s.contract = r.results[i].contract
    BY <1>3 DEF IInv, ReportNamesItsSnapshot
<1> QED BY <1>1, <1>2, <1>4, <1>5, <1>6, StepKeepsIInv

-----------------------------------------------------------------------------
(* One lemma per action                                                      *)

\* Going to the lock, or on to the portal, writes nothing.
LEMMA WentKeepsIInv ==
    ASSUME IInv, NEW p \in Process, Running(p), NEW step \in {"lock", "break", "fetch"}, Went(p, step),
           UNCHANGED <<plan, published, temp, report>>
    PROVE  IInv'
<1>1. PICK w : w = [work[p] EXCEPT !.step = step]
    OBVIOUS
<1>2. IsWork(work[p])
    BY DEF IInv, Shapes
<1>3. IsWork(w) /\ w.step = step
    BY <1>1, <1>2 DEF IsWork
<1>4. work' = [work EXCEPT ![p] = w]
    BY <1>1 DEF Went
<1>5. work'[p] = w
    BY <1>4 DEF IInv, Shapes
<1>6. WrittenSoFar(p)'
    BY <1>3, <1>5 DEF WrittenSoFar
<1>7. temp' = [temp EXCEPT ![p] = temp[p]]
    BY DEF IInv, Shapes
<1> QED BY <1>3, <1>4, <1>6, <1>7, WorkedKeepsIInv

LEMMA SkipKeepsIInv == ASSUME IInv, NEW p \in Process, Skip(p) PROVE IInv'
<1>1. Running(p) /\ UNCHANGED <<plan, published, temp>>
    BY DEF Skip, Doing
<1>2. PICK latest \in LatestValid(Doc(p), Contract(Target(p))) : Reported(p, "skipped_valid", latest.name)
    BY DEF Skip
<1>3. latest \in published[Doc(p)] /\ latest.contract = Contract(Target(p))
    BY <1>2 DEF LatestValid, Newest
<1>4. \E s \in published'[Doc(p)] : s.name = latest.name /\ s.contract = Contract(Target(p))
    BY <1>1, <1>3
<1>5. PublishedIsWhole'
    BY <1>1 DEF IInv, PublishedIsWhole
<1>6. published' = [d \in DOMAIN Answers |-> published'[d]]
    BY <1>1 DEF IInv, Shapes
<1>7. temp' = [temp EXCEPT ![p] = temp[p]]
    BY <1>1 DEF IInv, Shapes
<1> QED BY ZenonT(30), <1>1, <1>2, <1>4, <1>5, <1>6, <1>7, ReportedKeepsIInv

LEMMA InspectLockKeepsIInv == ASSUME IInv, NEW p \in Process, InspectLock(p) PROVE IInv'
<1>1. Running(p) /\ UNCHANGED <<plan, published, temp>>
    BY DEF InspectLock, Doing
<1>2. \/ Went(p, "lock") /\ UNCHANGED report
      \/ Went(p, "break") /\ UNCHANGED report
      \/ Reported(p, "failed", Absent)
    BY DEF InspectLock
<1>3. temp' = [temp EXCEPT ![p] = temp[p]]
    BY <1>1 DEF IInv, Shapes
<1>4. CASE Went(p, "lock") /\ UNCHANGED report
    BY <1>1, <1>4, WentKeepsIInv
<1>5. CASE Went(p, "break") /\ UNCHANGED report
    BY <1>1, <1>5, WentKeepsIInv
<1>6. CASE Reported(p, "failed", Absent)
    BY <1>1, <1>3, <1>6, FailedKeepsIInv
<1> QED BY <1>2, <1>4, <1>5, <1>6

LEMMA BreakLockKeepsIInv == ASSUME IInv, NEW p \in Process, BreakLock(p) PROVE IInv'
    BY WentKeepsIInv DEF BreakLock, Doing

LEMMA TakeLockKeepsIInv == ASSUME IInv, NEW p \in Process, TakeLock(p) PROVE IInv'
<1>1. Running(p) /\ UNCHANGED <<plan, published, temp>>
    BY DEF TakeLock, Doing
<1>2. \/ Went(p, "fetch") /\ UNCHANGED report
      \/ Reported(p, "failed", Absent)
    BY DEF TakeLock
<1>3. temp' = [temp EXCEPT ![p] = temp[p]]
    BY <1>1 DEF IInv, Shapes
<1>4. CASE Went(p, "fetch") /\ UNCHANGED report
    BY <1>1, <1>4, WentKeepsIInv
<1>5. CASE Reported(p, "failed", Absent)
    BY <1>1, <1>3, <1>5, FailedKeepsIInv
<1> QED BY <1>2, <1>4, <1>5

\* Configured sources are part of every inventory, whatever the portal lists.
LEMMA ConfiguredAreMerged ==
    ASSUME NEW inventory, NEW configured
    PROVE  configured \subseteq Merged(inventory, configured)
    BY DEF Merged

LEMMA FetchKeepsIInv == ASSUME IInv, NEW p \in Process, Fetch(p) PROVE IInv'
<1>1. Running(p) /\ UNCHANGED <<plan, published, temp>>
    BY DEF Fetch, Doing
<1>2. temp' = [temp EXCEPT ![p] = temp[p]]
    BY <1>1 DEF IInv, Shapes
<1>3. CASE Reported(p, "failed", Absent)
    BY <1>1, <1>2, <1>3, FailedKeepsIInv
<1>4. CASE /\ UNCHANGED report
           /\ \E document, inventory, served :
                 /\ Target(p).configured \subseteq inventory
                 /\ work' = [work EXCEPT ![p] =
                        [step |-> "compare", document |-> document, inventory |-> inventory, served |-> served]]
  <2>1. PICK document, inventory, served :
            /\ Target(p).configured \subseteq inventory
            /\ work' = [work EXCEPT ![p] =
                   [step |-> "compare", document |-> document, inventory |-> inventory, served |-> served]]
      BY <1>4
  <2>2. PICK w : w = [step |-> "compare", document |-> document, inventory |-> inventory, served |-> served]
      OBVIOUS
  <2>3. work' = [work EXCEPT ![p] = w] /\ IsWork(w) /\ w.step = "compare" /\ w.inventory = inventory
      BY <2>1, <2>2 DEF IsWork
  <2>4. work'[p] = w
      BY <2>3 DEF IInv, Shapes
  <2>5. Target(p)' = Target(p)
      BY <1>1, <1>4 DEF Target
  <2>6. WrittenSoFar(p)'
      BY <2>1, <2>3, <2>4, <2>5 DEF WrittenSoFar
  <2> QED BY <1>1, <1>2, <1>4, <2>3, <2>6, WorkedKeepsIInv
<1>5. \/ Reported(p, "failed", Absent)
      \/ /\ UNCHANGED report
         /\ \E document, inventory, served :
               /\ Target(p).configured \subseteq inventory
               /\ work' = [work EXCEPT ![p] =
                      [step |-> "compare", document |-> document, inventory |-> inventory, served |-> served]]
    BY SMTT(30), ConfiguredAreMerged DEF Fetch
<1> QED BY <1>3, <1>4, <1>5

LEMMA CompareKeepsIInv == ASSUME IInv, NEW p \in Process, Compare(p) PROVE IInv'
<1>1. /\ Running(p) /\ work[p].step = "compare"
      /\ UNCHANGED <<plan, published>>
    BY DEF Compare, Doing
<1>2. temp = [temp EXCEPT ![p] = temp[p]]
    BY DEF IInv, Shapes
<1>3. CASE \E s \in LatestValid(Doc(p), Contract(Target(p))) : Reported(p, "unchanged", s.name) /\ UNCHANGED temp
  <2>1. PICK s \in LatestValid(Doc(p), Contract(Target(p))) : Reported(p, "unchanged", s.name) /\ UNCHANGED temp
      BY <1>3
  <2>2. s \in published[Doc(p)] /\ s.contract = Contract(Target(p))
      BY <2>1 DEF LatestValid, Newest
  <2>3. \E t \in published'[Doc(p)] : t.name = s.name /\ t.contract = Contract(Target(p))
      BY <1>1, <2>2
  <2>4. PublishedIsWhole'
      BY <1>1 DEF IInv, PublishedIsWhole
  <2>5. published' = [d \in DOMAIN Answers |-> published'[d]]
      BY <1>1 DEF IInv, Shapes
  <2> QED BY <1>1, <1>2, <2>1, <2>3, <2>4, <2>5, ReportedKeepsIInv
<1>4. CASE Reported(p, "failed", Absent) /\ UNCHANGED temp
    BY <1>1, <1>2, <1>4, FailedKeepsIInv
<1>5. CASE /\ Went(p, "files") /\ UNCHANGED report
           /\ \E t : IsSnapshot(t) /\ temp' = [temp EXCEPT ![p] = t]
  <2>1. PICK t : IsSnapshot(t) /\ temp' = [temp EXCEPT ![p] = t]
      BY <1>5
  <2>2. PICK w : w = [work[p] EXCEPT !.step = "files"]
      OBVIOUS
  <2>3. IsWork(work[p])
      BY DEF IInv, Shapes
  <2>4. IsWork(w) /\ w.step = "files" /\ w.inventory = work[p].inventory
      BY <2>2, <2>3 DEF IsWork
  <2>5. work' = [work EXCEPT ![p] = w]
      BY <1>5, <2>2 DEF Went
  <2>6. work'[p] = w /\ temp'[p] = t
      BY <2>1, <2>5 DEF IInv, Shapes
  <2>7. Target(p).configured \subseteq work[p].inventory
      BY <1>1 DEF IInv, WrittenSoFar
  <2>8. Target(p)' = Target(p)
      BY <1>1, <1>5 DEF Target
  <2>9. WrittenSoFar(p)'
      BY <2>1, <2>4, <2>6, <2>7, <2>8 DEF WrittenSoFar
  <2> QED BY <1>1, <1>5, <2>1, <2>4, <2>5, <2>9, WorkedKeepsIInv
<1>6. \/ \E s \in LatestValid(Doc(p), Contract(Target(p))) : Reported(p, "unchanged", s.name) /\ UNCHANGED temp
      \/ Reported(p, "failed", Absent) /\ UNCHANGED temp
      \/ /\ Went(p, "files") /\ UNCHANGED report
         /\ \E t : IsSnapshot(t) /\ temp' = [temp EXCEPT ![p] = t]
  <2>1. \A name : IsSnapshot([name |-> name, files |-> {}, sums |-> {}, gates |-> FALSE,
                              contract |-> Absent, saved |-> <<>>])
      BY DEF IsSnapshot
  <2> QED BY <2>1 DEF Compare
<1> QED BY <1>3, <1>4, <1>5, <1>6

LEMMA WriteFilesKeepsIInv == ASSUME IInv, NEW p \in Process, WriteFiles(p) PROVE IInv'
<1>1. /\ Running(p) /\ work[p].step = "files"
      /\ Went(p, "manifest") /\ UNCHANGED <<plan, published, report>>
    BY DEF WriteFiles, Doing
<1>2. IsSnapshot(temp[p]) /\ Target(p).configured \subseteq work[p].inventory /\ IsWork(work[p])
    BY <1>1 DEF IInv, Shapes, WrittenSoFar
<1>3. PICK t : t = [[temp[p] EXCEPT !.files = {"text", "responses"}] EXCEPT !.saved = work[p].served]
    OBVIOUS
<1>4. IsSnapshot(t) /\ t.saved = work[p].served
    BY <1>2, <1>3 DEF IsSnapshot
<1>5. temp' = [temp EXCEPT ![p] = t]
    BY <1>3 DEF WriteFiles, IInv, Shapes
<1>6. PICK w : w = [work[p] EXCEPT !.step = "manifest"]
    OBVIOUS
<1>7. IsWork(w) /\ w.step = "manifest" /\ w.inventory = work[p].inventory /\ w.served = work[p].served
    BY <1>2, <1>6 DEF IsWork
<1>8. work' = [work EXCEPT ![p] = w]
    BY <1>1, <1>6 DEF Went
<1>9. work'[p] = w /\ temp'[p] = t /\ Target(p)' = Target(p)
    BY <1>1, <1>5, <1>8 DEF IInv, Shapes, Target
<1>10. WrittenSoFar(p)'
    BY <1>2, <1>4, <1>7, <1>9 DEF WrittenSoFar
<1> QED BY <1>1, <1>5, <1>7, <1>8, <1>10, WorkedKeepsIInv

LEMMA WriteManifestKeepsIInv == ASSUME IInv, NEW p \in Process, WriteManifest(p) PROVE IInv'
<1>1. /\ Running(p) /\ work[p].step = "manifest"
      /\ Went(p, "publish") /\ UNCHANGED <<plan, published, report>>
    BY DEF WriteManifest, Doing
<1>2. /\ IsSnapshot(temp[p]) /\ temp[p].saved = work[p].served
      /\ Target(p).configured \subseteq work[p].inventory /\ IsWork(work[p])
    BY <1>1 DEF IInv, Shapes, WrittenSoFar
<1>3. PICK gates : gates = Gates(Target(p), work[p].document, work[p].inventory, work[p].served)
    OBVIOUS
<1>4. PICK contract : contract = Contract(Target(p))
    OBVIOUS
<1>5. PICK t : t = [[[[temp[p] EXCEPT !.files = temp[p].files \cup {"manifest", "sums"}]
                           EXCEPT !.sums = temp[p].files \cup {"manifest"}]
                          EXCEPT !.contract = contract] EXCEPT !.gates = gates]
    OBVIOUS
<1>6. IsSnapshot(t) /\ t.saved = work[p].served /\ t.contract = contract /\ t.gates = gates
    BY <1>2, <1>5 DEF IsSnapshot
<1>7. temp' = [temp EXCEPT ![p] = t]
    BY <1>3, <1>4, <1>5 DEF WriteManifest, IInv, Shapes
<1>8. PICK w : w = [work[p] EXCEPT !.step = "publish"]
    OBVIOUS
<1>9. /\ IsWork(w) /\ w.step = "publish" /\ w.document = work[p].document
      /\ w.inventory = work[p].inventory /\ w.served = work[p].served
    BY <1>2, <1>8 DEF IsWork
<1>10. work' = [work EXCEPT ![p] = w]
    BY <1>1, <1>8 DEF Went
<1>11. work'[p] = w /\ temp'[p] = t /\ Target(p)' = Target(p)
    BY <1>1, <1>7, <1>10 DEF IInv, Shapes, Target
<1>12. WrittenSoFar(p)'
    BY <1>2, <1>3, <1>4, <1>6, <1>9, <1>11 DEF WrittenSoFar
<1> QED BY <1>1, <1>7, <1>9, <1>10, <1>12, WorkedKeepsIInv

\* The gates of a strict policy looked at what is saved.
LEMMA GatesCoverConfigured ==
    ASSUME NEW item, NEW document, NEW inventory, NEW served,
           item.configured \subseteq inventory,
           Gates(item, document, inventory, served),
           item.policy \in {"required", "required_if_listed"},
           NEW c \in item.configured
    PROVE  c.url \in DOMAIN served /\ served[c.url] \notin {"empty", "html"}
<1>1. c.url \in DOMAIN served /\ Signature(c.extension, served[c.url]) # "invalid"
    BY DEF Gates, PolicySatisfied
<1> QED BY <1>1 DEF Signature

LEMMA PublishKeepsIInv == ASSUME IInv, NEW p \in Process, Publish(p) PROVE IInv'
<1>1. /\ Running(p) /\ work[p].step = "publish" /\ plan' = plan
      /\ temp' = [temp EXCEPT ![p] = Absent]
    BY DEF Publish, Doing
<1>2. CASE Reported(p, "failed", Absent) /\ UNCHANGED published
    BY <1>1, <1>2, FailedKeepsIInv
<1>3. CASE /\ Verified(temp[p]) /\ \A t \in published[Doc(p)] : t.name # temp[p].name
           /\ published' = [published EXCEPT ![Doc(p)] = @ \cup {temp[p]}]
           /\ Reported(p, "created", temp[p].name)
  <2>1. PICK s : s = temp[p]
      OBVIOUS
  <2>2. Doc(p) \in DOMAIN Answers /\ published = [d \in DOMAIN Answers |-> published[d]]
      BY <1>1, TargetExists DEF IInv, Shapes
  <2>3. /\ published'[Doc(p)] = published[Doc(p)] \cup {s}
        /\ \A d \in DOMAIN Answers : d # Doc(p) => published'[d] = published[d]
        /\ published' = [d \in DOMAIN Answers |-> published'[d]]
      BY <1>3, <2>1, <2>2
  <2>4. /\ s.contract = Contract(Target(p)) /\ s.saved = work[p].served
        /\ Target(p).configured \subseteq work[p].inventory
        /\ s.gates => Gates(Target(p), work[p].document, work[p].inventory, work[p].served)
      BY <1>1, <2>1 DEF IInv, WrittenSoFar
  <2>5. /\ Required \subseteq s.files /\ s.sums = s.files \ {"sums"} /\ s.gates
      BY <1>3, <2>1 DEF Verified
  <2>6. /\ s.contract.document = Doc(p)
        /\ s.contract.policy = Target(p).policy /\ s.contract.configured = Target(p).configured
      BY <2>4 DEF Contract, Doc
  <2>7. s.contract.policy \in {"required", "required_if_listed"} =>
            \A c \in s.contract.configured :
                c.url \in DOMAIN s.saved /\ s.saved[c.url] \notin {"empty", "html"}
      BY <2>4, <2>5, <2>6, GatesCoverConfigured
  <2>8. ASSUME NEW d \in DOMAIN published', NEW x \in published'[d]
        PROVE  /\ Required \subseteq x.files /\ x.sums = x.files \ {"sums"}
               /\ x.contract.document = d
               /\ x.contract.policy \in {"required", "required_if_listed"} =>
                     \A c \in x.contract.configured :
                         c.url \in DOMAIN x.saved /\ x.saved[c.url] \notin {"empty", "html"}
               /\ \A t \in published'[d] : t.name = x.name => t = x
    <3>1. d \in DOMAIN Answers /\ d \in DOMAIN published
        BY <2>2, <2>3, <2>8
    <3>2. CASE x \in published[d]
      <4>1. /\ Required \subseteq x.files /\ x.sums = x.files \ {"sums"}
            /\ x.contract.document = d
            /\ x.contract.policy \in {"required", "required_if_listed"} =>
                  \A c \in x.contract.configured :
                      c.url \in DOMAIN x.saved /\ x.saved[c.url] \notin {"empty", "html"}
            /\ \A t \in published[d] : t.name = x.name => t = x
          BY <3>1, <3>2 DEF IInv, PublishedIsWhole
      <4>2. \A t \in published'[d] : t.name = x.name => t = x
          BY <1>3, <2>1, <2>3, <3>1, <3>2, <4>1
      <4> QED BY <4>1, <4>2
    <3>3. CASE x \notin published[d]
      <4>1. d = Doc(p) /\ x = s
          BY <2>3, <2>8, <3>1, <3>3
      <4>2. \A t \in published'[d] : t.name = x.name => t = x
          BY <1>3, <2>1, <2>3, <4>1
      <4> QED BY <2>5, <2>6, <2>7, <4>1, <4>2
    <3> QED BY <3>2, <3>3
  <2>9. PublishedIsWhole'
      BY <2>8 DEF PublishedIsWhole
  <2>10. \A d \in DOMAIN Answers : published[d] \subseteq published'[d]
      BY <2>3
  <2>11. \E x \in published'[Doc(p)] : x.name = temp[p].name /\ x.contract = Contract(Target(p))
      BY <2>1, <2>3, <2>4
  <2> QED BY <1>1, <1>3, <2>3, <2>9, <2>10, <2>11, ReportedKeepsIInv
<1> QED BY <1>2, <1>3 DEF Publish

\* A process that stops, or dies, changes nothing but the status of its report.
LEMMA StoppedKeepsIInv ==
    ASSUME IInv, NEW p \in Process, NEW status \in {"failed", "completed", "killed"},
           report' = [report EXCEPT ![p].status = status],
           UNCHANGED <<plan, published, temp, work>>
    PROVE  IInv'
<1>1. PICK r : r = [report[p] EXCEPT !.status = status]
    OBVIOUS
<1>2. IsReport(report[p]) /\ IsWork(work[p])
    BY DEF IInv, Shapes
<1>3. r.results = report[p].results /\ r.status = status /\ IsReport(r)
    BY <1>1, <1>2 DEF IsReport
<1>4. report' = [report EXCEPT ![p] = r]
    BY <1>1
<1>5. /\ temp' = [temp EXCEPT ![p] = temp[p]]
      /\ work' = [work EXCEPT ![p] = work[p]]
      /\ published' = [d \in DOMAIN Answers |-> published'[d]]
    BY DEF IInv, Shapes
<1>6. report'[p] = r
    BY <1>4 DEF IInv, Shapes
<1>7. ~Running(p)'
    BY <1>3, <1>6 DEF Running
<1>8. \A i \in DOMAIN r.results : r.results[i].status # "failed" =>
               \E s \in published'[r.results[i].document] :
                   s.name = r.results[i].named /\ s.contract = r.results[i].contract
    BY <1>3 DEF IInv, ReportNamesItsSnapshot
<1>9. PublishedIsWhole'
    BY DEF IInv, PublishedIsWhole
<1> QED
  BY <1>2, <1>3, <1>4, <1>5, <1>7, <1>8, <1>9, StepKeepsIInv DEF HasTarget

LEMMA InterruptKeepsIInv == ASSUME IInv, NEW p \in Process, Interrupt(p) PROVE IInv'
<1>1. PICK status \in {"failed", "completed", "killed"} : report' = [report EXCEPT ![p].status = status]
    BY DEF Interrupt
<1> QED BY <1>1, StoppedKeepsIInv DEF Interrupt

LEMMA KillKeepsIInv == ASSUME IInv, NEW p \in Process, Kill(p) PROVE IInv'
    BY StoppedKeepsIInv DEF Kill

LEMMA UnchangedKeepsIInv ==
    ASSUME IInv, UNCHANGED <<plan, published, temp, work, report>>
    PROVE  IInv'
    BY DEF IInv, Shapes, HasTarget, Running, WrittenSoFar, Target, PublishedIsWhole, ReportNamesItsSnapshot

LEMMA InitIInv == ASSUME PortalInit PROVE IInv
<1>1. plan \in Plans
    BY DEF PortalInit
<1>2. ASSUME NEW p \in Process
      PROVE  /\ IsWork(work[p]) /\ work[p].step = "next"
             /\ report[p].results = <<>>
             /\ Running(p) => plan[p].items # <<>>
             /\ report[p] = [status |-> report[p].status, results |-> report[p].results]
  <2>1. PICK status : status = IF plan[p].items = <<>> THEN "completed" ELSE "running"
      OBVIOUS
  <2>2. report[p] = [status |-> status, results |-> <<>>] /\ work[p] = Idle
      BY <2>1 DEF PortalInit
  <2>3. report[p].status = status /\ report[p].results = <<>>
      BY <2>2
  <2>4. IsWork(Idle) /\ Idle.step = "next"
      BY DEF IsWork, Idle
  <2> QED BY <2>1, <2>2, <2>3, <2>4 DEF Running
<1>3. <<>> \in Seq(ToSet(<<>>)) /\ Len(<<>>) = 0 /\ \A i \in DOMAIN <<>> : FALSE
  <2>1. \A S : <<>> \in Seq(S) /\ Len(<<>>) = 0
      BY EmptySeq
  <2>2. \A i \in DOMAIN <<>> : FALSE
      OBVIOUS
  <2> QED BY <2>1, <2>2
<1>4. ASSUME NEW p \in Process PROVE IsReport(report[p]) /\ IsWork(work[p])
    BY <1>2, <1>3 DEF IsReport
<1>5. Shapes
    BY <1>1, <1>4 DEF Shapes, PortalInit
<1>6. ASSUME NEW p \in Process PROVE HasTarget(p) /\ WrittenSoFar(p)
  <2>1. plan[p].items \in Seq(ToSet(plan[p].items))
      BY <1>1, PlansAssumption
  <2>2. Running(p) => plan[p].items # <<>>
      BY <1>2 DEF Running
  <2>3. Running(p) => Len(plan[p].items) > 0
      BY <2>1, <2>2, EmptySeq
  <2>4. report[p].results = <<>> /\ work[p].step = "next"
      BY <1>2
  <2>5. HasTarget(p)
      BY <2>3, <2>4, <1>3 DEF HasTarget
  <2>6. WrittenSoFar(p)
      BY <2>4 DEF WrittenSoFar
  <2> QED BY <2>5, <2>6
<1>7. PublishedIsWhole
    BY DEF PublishedIsWhole, PortalInit
<1>8. ReportNamesItsSnapshot
    BY <1>2, <1>3 DEF ReportNamesItsSnapshot
<1> QED BY <1>5, <1>6, <1>7, <1>8 DEF IInv

LEMMA NextKeepsIInv == ASSUME IInv, [PortalNext]_portalVars PROVE IInv'
<1>1. ASSUME NEW p \in Process, Skip(p) PROVE IInv'
    BY <1>1, SkipKeepsIInv
<1>2. ASSUME NEW p \in Process, InspectLock(p) PROVE IInv'
    BY <1>2, InspectLockKeepsIInv
<1>3. ASSUME NEW p \in Process, BreakLock(p) PROVE IInv'
    BY <1>3, BreakLockKeepsIInv
<1>4. ASSUME NEW p \in Process, TakeLock(p) PROVE IInv'
    BY <1>4, TakeLockKeepsIInv
<1>5. ASSUME NEW p \in Process, Fetch(p) PROVE IInv'
    BY <1>5, FetchKeepsIInv
<1>6. ASSUME NEW p \in Process, Compare(p) PROVE IInv'
    BY <1>6, CompareKeepsIInv
<1>7. ASSUME NEW p \in Process, WriteFiles(p) PROVE IInv'
    BY <1>7, WriteFilesKeepsIInv
<1>8. ASSUME NEW p \in Process, WriteManifest(p) PROVE IInv'
    BY <1>8, WriteManifestKeepsIInv
<1>9. ASSUME NEW p \in Process, Publish(p) PROVE IInv'
    BY <1>9, PublishKeepsIInv
<1>10. ASSUME NEW p \in Process, Interrupt(p) PROVE IInv'
    BY <1>10, InterruptKeepsIInv
<1>11. ASSUME NEW p \in Process, Kill(p) PROVE IInv'
    BY <1>11, KillKeepsIInv
<1>12. CASE Tick
    BY <1>12, UnchangedKeepsIInv DEF Tick
<1>13. CASE UNCHANGED portalVars
    BY <1>13, UnchangedKeepsIInv DEF portalVars
<1> QED
  BY <1>1, <1>2, <1>3, <1>4, <1>5, <1>6, <1>7, <1>8, <1>9, <1>10, <1>11, <1>12, <1>13 DEF PortalNext

-----------------------------------------------------------------------------
(* What every collection run does                                            *)

\* The inductive invariant holds of every batch: what a process is about to
\* publish was prepared by itself, for the document it is at.
THEOREM PortalInvariance == PortalSpec => []IInv
<1>1. PortalInit => IInv
    BY InitIInv
<1>2. IInv /\ [PortalNext]_portalVars => IInv'
    BY NextKeepsIInv
<1> QED BY <1>1, <1>2, PTL DEF PortalSpec

\* A directory under a final name is a whole snapshot that satisfies the policy
\* of its contract, and no two have the same name, whatever two processes did to
\* each other's locks (write_snapshot, verify_snapshot, document_lock).
THEOREM SnapshotsAreWhole == PortalSpec => []PublishedIsWhole
<1>1. IInv => PublishedIsWhole
    BY DEF IInv
<1> QED BY <1>1, PortalInvariance, PTL

\* What a run report calls created, unchanged or skipped is on disk under that
\* name, and was taken for the contract of the run (fetch_one,
\* latest_valid_snapshot).
THEOREM ReportsNameSnapshots == PortalSpec => []ReportNamesItsSnapshot
<1>1. IInv => ReportNamesItsSnapshot
    BY DEF IInv
<1> QED BY <1>1, PortalInvariance, PTL

-----------------------------------------------------------------------------
(* GazetteSources                                                            *)

NumberAt(l) == Registry[Len(l.results) + Len(l.failures) + 1].number

\* The shape of the records that are updated field by field
IsRun(l) ==
    /\ l = [status |-> l.status, replace |-> l.replace, force |-> l.force,
            results |-> l.results, failures |-> l.failures]
    /\ l.results \in Seq(ToSet(l.results)) /\ l.failures \in Seq(ToSet(l.failures))
    /\ l.status = "running" => Len(l.results) + Len(l.failures) < Len(Registry)

IsJob(j) ==
    /\ j = [step |-> j.step, kinds |-> j.kinds, original |-> j.original, parts |-> j.parts,
            placed |-> j.placed, known |-> j.known]
    /\ j.parts \in Seq(ToSet(j.parts)) /\ j.placed \in 0..Len(j.parts)

\* A part is in its file.
InFile(files, parts, i) == Targets(parts)[i] \in DOMAIN files /\ files[Targets(parts)[i]] = parts[i]

\* While a runner is in a document it has the document's lock, the parts it has
\* placed are in their files, and the snapshot it found is there.
RunnerHolds(r, l, j, locks, files, snapshots) ==
    /\ IsRun(l) /\ IsJob(j)
    /\ l.status = "running" /\ j.step \in {"read", "place"} => locks[NumberAt(l)] = r
    /\ l.status = "running" /\ j.step = "place" =>
          \A i \in 1..j.placed : InFile(files[NumberAt(l)], j.parts, i)
    /\ l.status = "running" /\ j.step = "place" /\ j.known =>
          \E s \in snapshots[NumberAt(l)] : s.fingerprint = Fingerprint(j)

\* The parts of a snapshot are those its fingerprint was made of.
SnapshotsHold(snapshots) ==
    \A n \in Numbers : \A s \in snapshots[n] : s.parts = s.fingerprint[3]

GazetteInv ==
    /\ held = [n \in Numbers |-> held[n]]
    /\ gazette = [n \in Numbers |-> gazette[n]]
    /\ sources = [n \in Numbers |-> sources[n]]
    /\ ledger = [r \in Runner |-> ledger[r]]
    /\ job = [r \in Runner |-> job[r]]
    /\ SnapshotsHold(gazette)
    /\ \A r \in Runner : RunnerHolds(r, ledger[r], job[r], held, sources, gazette)

-----------------------------------------------------------------------------

LEMMA NumberExists ==
    ASSUME NEW l, IsRun(l), l.status = "running"
    PROVE  NumberAt(l) \in Numbers
             /\ Len(l.results) + Len(l.failures) + 1 \in DOMAIN Registry
<1>1. Len(l.results) \in Nat /\ Len(l.failures) \in Nat
    BY LenProperties DEF IsRun
<1>2. Len(Registry) \in Nat /\ DOMAIN Registry = 1..Len(Registry)
    BY RegistryAssumption, LenProperties
<1>3. Len(l.results) + Len(l.failures) + 1 \in DOMAIN Registry
    BY <1>1, <1>2 DEF IsRun
<1> QED BY <1>3 DEF NumberAt, Numbers

\* A step of runner r leaves the others what they rely on.
LEMMA OthersHold ==
    ASSUME NEW r, NEW l, NEW j, NEW locks, NEW files, NEW snapshots,
           RunnerHolds(r, l, j, locks, files, snapshots),
           NEW locks2, NEW files2, NEW snapshots2,
           \A n \in Numbers : locks[n] = r => locks2[n] = r /\ files2[n] = files[n],
           \A n \in Numbers : snapshots[n] \subseteq snapshots2[n]
    PROVE  RunnerHolds(r, l, j, locks2, files2, snapshots2)
<1>1. CASE l.status = "running" /\ j.step \in {"read", "place"}
  <2> PICK n : n = NumberAt(l)
      OBVIOUS
  <2>1. n \in Numbers /\ IsRun(l) /\ IsJob(j)
      BY <1>1, NumberExists DEF RunnerHolds
  <2>2. locks[n] = r
      BY <1>1 DEF RunnerHolds
  <2>3. locks2[n] = r /\ files2[n] = files[n] /\ snapshots[n] \subseteq snapshots2[n]
      BY <2>1, <2>2
  <2>4. j.step = "place" => \A i \in 1..j.placed : InFile(files2[n], j.parts, i)
      BY <1>1, <2>3 DEF RunnerHolds
  <2>5. j.step = "place" /\ j.known => \E s \in snapshots2[n] : s.fingerprint = Fingerprint(j)
      BY <1>1, <2>3 DEF RunnerHolds
  <2> QED BY <1>1, <2>1, <2>3, <2>4, <2>5 DEF RunnerHolds
<1>2. CASE ~(l.status = "running" /\ j.step \in {"read", "place"})
    BY <1>2 DEF RunnerHolds
<1> QED BY <1>1, <1>2

LEMMA IdleHolds ==
    ASSUME NEW r, NEW l, IsRun(l), NEW j, IsJob(j), j.step = "next" \/ l.status # "running",
           NEW locks, NEW files, NEW snapshots
    PROVE  RunnerHolds(r, l, j, locks, files, snapshots)
  BY DEF RunnerHolds

\* One runner's step
LEMMA RunnerStep ==
    ASSUME GazetteInv, NEW r \in Runner, NEW l, NEW j,
           ledger' = [ledger EXCEPT ![r] = l], job' = [job EXCEPT ![r] = j],
           held' = [n \in Numbers |-> held'[n]],
           \A n \in Numbers : held'[n] # held[n] =>
               held[n] = r \/ \A q \in Runner : held[n] = q => ledger[q].status # "running",
           sources' = [n \in Numbers |-> sources'[n]],
           \A n \in Numbers : sources'[n] # sources[n] => held[n] = r,
           gazette' = [n \in Numbers |-> gazette'[n]],
           \A n \in Numbers : gazette[n] \subseteq gazette'[n],
           SnapshotsHold(gazette'),
           RunnerHolds(r, l, j, held', sources', gazette')
    PROVE  GazetteInv'
<1>1. ledger' = [q \in Runner |-> ledger'[q]] /\ job' = [q \in Runner |-> job'[q]]
    BY DEF GazetteInv
<1>2. ASSUME NEW q \in Runner
      PROVE  RunnerHolds(q, ledger'[q], job'[q], held', sources', gazette')
  <2>1. CASE q = r
    <3>1. ledger'[q] = l /\ job'[q] = j
        BY <2>1 DEF GazetteInv
    <3> QED BY <2>1, <3>1
  <2>2. CASE q # r
    <3>1. ledger'[q] = ledger[q] /\ job'[q] = job[q]
        BY <2>2 DEF GazetteInv
    <3>2. RunnerHolds(q, ledger[q], job[q], held, sources, gazette)
        BY DEF GazetteInv
    <3>3. CASE ledger[q].status = "running"
      <4>1. \A n \in Numbers : held[n] = q => held'[n] = q /\ sources'[n] = sources[n]
          BY <2>2, <3>3
      <4> QED BY <3>1, <3>2, <4>1, OthersHold
    <3>4. CASE ledger[q].status # "running"
      <4>1. IsRun(ledger[q]) /\ IsJob(job[q])
          BY <3>2 DEF RunnerHolds
      <4> QED BY <3>1, <3>4, <4>1, IdleHolds
    <3> QED BY <3>3, <3>4
  <2> QED BY <2>1, <2>2
<1> QED BY <1>1, <1>2 DEF GazetteInv, SnapshotsHold

-----------------------------------------------------------------------------
(* The outcome of a document                                                 *)

LEMMA NoJobIsJob == IsJob(NoJob) /\ NoJob.step = "next"
<1>1. NoJob.parts \in Seq(ToSet(NoJob.parts)) /\ Len(NoJob.parts) = 0
    BY EmptySeq DEF NoJob
<1> QED BY <1>1 DEF IsJob, NoJob

LEMMA RunnerHas ==
    ASSUME GazetteInv, NEW r \in Runner
    PROVE  IsRun(ledger[r]) /\ IsJob(job[r])
  BY DEF GazetteInv, RunnerHolds

LEMMA SettledRun ==
    ASSUME GazetteInv, NEW r \in Runner, NEW results, NEW failures, Settled(r, results, failures),
           results \in Seq(ToSet(results)), failures \in Seq(ToSet(failures))
    PROVE  /\ \E l : IsRun(l) /\ l.results = results /\ ledger' = [ledger EXCEPT ![r] = l]
           /\ job' = [job EXCEPT ![r] = NoJob]
<1>1. IsRun(ledger[r])
    BY RunnerHas
<1> PICK status : status = IF Len(results) + Len(failures) < Len(Registry) THEN "running"
                          ELSE IF failures = <<>> THEN "PASS" ELSE "FAIL"
    OBVIOUS
<1>2. PICK a : a = [ledger[r] EXCEPT !.results = results]
    OBVIOUS
<1>3. PICK b : b = [a EXCEPT !.failures = failures]
    OBVIOUS
<1>4. PICK l : l = [b EXCEPT !.status = status]
    OBVIOUS
<1>5. l = [status |-> status, replace |-> l.replace, force |-> l.force,
           results |-> results, failures |-> failures]
    BY <1>1, <1>2, <1>3, <1>4 DEF IsRun
<1>6. ledger' = [ledger EXCEPT ![r] = l] /\ job' = [job EXCEPT ![r] = NoJob]
    BY <1>2, <1>3, <1>4 DEF Settled
<1>7. status = "running" => Len(results) + Len(failures) < Len(Registry)
    OBVIOUS
<1>8. IsRun(l) /\ l.results = results
    BY <1>5, <1>7 DEF IsRun
<1> QED BY <1>6, <1>8

\* The run keeps its results, or this entry is added to them.
Kept(r) ==
    /\ \E l : IsRun(l) /\ l.results = ledger[r].results /\ ledger' = [ledger EXCEPT ![r] = l]
    /\ job' = [job EXCEPT ![r] = NoJob]
Added(r, e) ==
    /\ \E l : IsRun(l) /\ l.results = Append(ledger[r].results, e) /\ ledger' = [ledger EXCEPT ![r] = l]
    /\ job' = [job EXCEPT ![r] = NoJob]
Entry(r, provider, status, fingerprint) ==
    [number |-> Current(r).number, provider |-> provider, status |-> status, fingerprint |-> fingerprint]

LEMMA OutcomesAreLists ==
    ASSUME GazetteInv, NEW r \in Runner
    PROVE  /\ ledger[r].results \in Seq(ToSet(ledger[r].results))
           /\ ledger[r].failures \in Seq(ToSet(ledger[r].failures))
  BY RunnerHas DEF IsRun

LEMMA FailedRun ==
    ASSUME GazetteInv, NEW r \in Runner, NEW stage, Failed(r, stage)
    PROVE  Kept(r)
<1> PICK f : f = [number |-> Current(r).number, stage |-> stage]
    OBVIOUS
<1> PICK failures : failures = Append(ledger[r].failures, f)
    OBVIOUS
<1>1. failures \in Seq(ToSet(failures))
    BY OutcomesAreLists, Appended
<1>2. Settled(r, ledger[r].results, failures)
    BY DEF Failed
<1>3. /\ \E l : IsRun(l) /\ l.results = ledger[r].results /\ ledger' = [ledger EXCEPT ![r] = l]
      /\ job' = [job EXCEPT ![r] = NoJob]
    BY <1>1, <1>2, OutcomesAreLists, SettledRun
<1> QED BY <1>3 DEF Kept

LEMMA SucceededRun ==
    ASSUME GazetteInv, NEW r \in Runner, NEW provider, NEW status, NEW fingerprint,
           Succeeded(r, provider, status, fingerprint)
    PROVE  Added(r, Entry(r, provider, status, fingerprint))
<1> PICK e : e = Entry(r, provider, status, fingerprint)
    OBVIOUS
<1> PICK results : results = Append(ledger[r].results, e)
    OBVIOUS
<1>1. results \in Seq(ToSet(results))
    BY OutcomesAreLists, Appended
<1>2. Settled(r, results, ledger[r].failures)
    BY DEF Succeeded, Entry
<1>3. /\ \E l : IsRun(l) /\ l.results = results /\ ledger' = [ledger EXCEPT ![r] = l]
      /\ job' = [job EXCEPT ![r] = NoJob]
    BY <1>1, <1>2, OutcomesAreLists, SettledRun
<1> QED BY <1>3 DEF Added

\* A document is done with: the lock may go, and the snapshots may have grown.
LEMMA SettleKeepsInv ==
    ASSUME GazetteInv, NEW r \in Runner,
           Kept(r) \/ \E e : Added(r, e),
           UNCHANGED sources,
           \/ UNCHANGED held
           \/ Leave(r) /\ Working(r, job[r].step) /\ job[r].step \in {"read", "place"},
           gazette' = [n \in Numbers |-> gazette'[n]],
           \A n \in Numbers : gazette[n] \subseteq gazette'[n],
           SnapshotsHold(gazette')
    PROVE  GazetteInv'
<1> PICK l : IsRun(l) /\ ledger' = [ledger EXCEPT ![r] = l]
    BY DEF Kept, Added
<1>0. job' = [job EXCEPT ![r] = NoJob]
    BY DEF Kept, Added
<1>1. RunnerHolds(r, l, NoJob, held', sources', gazette')
    BY NoJobIsJob, IdleHolds
<1>2. /\ held' = [n \in Numbers |-> held'[n]]
      /\ \A n \in Numbers : held'[n] # held[n] => held[n] = r
  <2>1. CASE UNCHANGED held
      BY <2>1 DEF GazetteInv
  <2>2. CASE Leave(r) /\ Working(r, job[r].step) /\ job[r].step \in {"read", "place"}
    <3>1. RunnerHolds(r, ledger[r], job[r], held, sources, gazette)
        BY DEF GazetteInv
    <3>2. held[NumberAt(ledger[r])] = r
        BY <2>2, <3>1 DEF RunnerHolds, Working
    <3>3. Current(r).number = NumberAt(ledger[r])
        BY DEF Current, Position, NumberAt
    <3> QED BY <2>2, <3>2, <3>3 DEF Leave, GazetteInv
  <2> QED BY <2>1, <2>2
<1>3. sources' = [n \in Numbers |-> sources'[n]] /\ \A n \in Numbers : sources'[n] = sources[n]
    BY DEF GazetteInv
<1> QED BY <1>0, <1>1, <1>2, <1>3, RunnerStep

\* The same when nothing but the lock has changed
LEMMA DropKeepsInv ==
    ASSUME GazetteInv, NEW r \in Runner,
           Kept(r) \/ \E e : Added(r, e),
           UNCHANGED <<sources, gazette>>,
           \/ UNCHANGED held
           \/ Leave(r) /\ Working(r, job[r].step) /\ job[r].step \in {"read", "place"}
    PROVE  GazetteInv'
<1>1. /\ gazette' = [n \in Numbers |-> gazette'[n]] /\ SnapshotsHold(gazette')
      /\ \A n \in Numbers : gazette[n] \subseteq gazette'[n]
    BY DEF GazetteInv
<1> QED BY <1>1, SettleKeepsInv

\* The fallback settles the document, and never as one of the gazette.
LEMMA FallBackSettles ==
    ASSUME GazetteInv, NEW r \in Runner, NEW reason, FallBack(r, reason)
    PROVE  Kept(r) \/ \E e : e.provider = "vbpl" /\ Added(r, e)
<1>1. ASSUME NEW stage, Failed(r, stage) PROVE Kept(r)
    BY <1>1, FailedRun
<1>2. CASE Succeeded(r, "vbpl", "created", <<>>)
  <2> PICK e : e = Entry(r, "vbpl", "created", <<>>)
      OBVIOUS
  <2>1. Added(r, e)
      BY <1>2, SucceededRun
  <2>2. e.provider = "vbpl"
      BY DEF Entry
  <2> QED BY <2>1, <2>2
<1> QED BY <1>1, <1>2 DEF FallBack

-----------------------------------------------------------------------------
(* The actions                                                               *)

LEMMA StartRunKeepsInv == ASSUME GazetteInv, NEW r \in Runner, StartRun(r) PROVE GazetteInv'
<1>1. PICK o \in Options :
        ledger' = [ledger EXCEPT ![r] = [Off EXCEPT !.status = "running", !.replace = o.replace, !.force = o.force]]
    BY DEF StartRun
<1>0. PICK l : l = [Off EXCEPT !.status = "running", !.replace = o.replace, !.force = o.force]
    OBVIOUS
<1>2. ledger' = [ledger EXCEPT ![r] = l] /\ job' = [job EXCEPT ![r] = NoJob]
    BY <1>0, <1>1 DEF StartRun
<1>3. l = [status |-> "running", replace |-> o.replace, force |-> o.force, results |-> <<>>, failures |-> <<>>]
    BY <1>0 DEF Off
<1>4. IsRun(l)
  <2>1. <<>> \in Seq(ToSet(<<>>)) /\ Len(<<>>) = 0
      BY EmptySeq
  <2>2. Len(Registry) > 0
      BY RegistryAssumption, EmptySeq, LenProperties
  <2>3. l.results = <<>> /\ l.failures = <<>>
      BY <1>3
  <2>4. Len(l.results) + Len(l.failures) < Len(Registry)
    <3>1. Len(l.results) = 0 /\ Len(l.failures) = 0
        BY <2>1, <2>3
    <3>2. Len(Registry) \in Nat
        BY RegistryAssumption, LenProperties
    <3> QED BY <2>2, <3>1, <3>2
  <2>5. l.results \in Seq(ToSet(l.results)) /\ l.failures \in Seq(ToSet(l.failures))
      BY <2>1, <2>3
  <2>6. l = [status |-> l.status, replace |-> l.replace, force |-> l.force,
             results |-> l.results, failures |-> l.failures]
      BY <1>3
  <2> QED BY <2>4, <2>5, <2>6 DEF IsRun
<1>5. RunnerHolds(r, l, NoJob, held', sources', gazette')
    BY <1>4, NoJobIsJob, IdleHolds
<1>6. UNCHANGED <<held, gazette, sources>>
    BY DEF StartRun
<1>7. SnapshotsHold(gazette')
    BY <1>6 DEF GazetteInv
<1> QED BY <1>2, <1>5, <1>6, <1>7, RunnerStep DEF GazetteInv

LEMMA DeclaredMissingKeepsInv == ASSUME GazetteInv, NEW r \in Runner, DeclaredMissing(r) PROVE GazetteInv'
<1>1. Kept(r) \/ \E e : Added(r, e)
    BY FallBackSettles DEF DeclaredMissing
<1>2. UNCHANGED <<held, gazette, sources>>
    BY DEF DeclaredMissing
<1> QED BY <1>1, <1>2, DropKeepsInv

\* A step that changes nothing but what its runner is at
LEMMA LocalStep ==
    ASSUME GazetteInv, NEW r \in Runner, NEW j, job' = [job EXCEPT ![r] = j],
           UNCHANGED <<ledger, held, sources, gazette>>,
           RunnerHolds(r, ledger[r], j, held, sources, gazette)
    PROVE  GazetteInv'
<1>1. ledger' = [ledger EXCEPT ![r] = ledger[r]] /\ SnapshotsHold(gazette')
    BY DEF GazetteInv
<1>2. /\ held' = [m \in Numbers |-> held'[m]] /\ \A m \in Numbers : held'[m] = held[m]
      /\ sources' = [m \in Numbers |-> sources'[m]] /\ \A m \in Numbers : sources'[m] = sources[m]
      /\ gazette' = [m \in Numbers |-> gazette'[m]] /\ \A m \in Numbers : gazette[m] \subseteq gazette'[m]
    BY DEF GazetteInv
<1>3. RunnerHolds(r, ledger[r], j, held', sources', gazette')
    OBVIOUS
<1> QED BY <1>1, <1>2, <1>3, RunnerStep

\* A job whose step is changed is still one.
LEMMA ReadJob ==
    ASSUME NEW k, IsJob(k), NEW j, j = [k EXCEPT !.step = "read"]
    PROVE  IsJob(j) /\ j.step = "read"
<1>1. k = [step |-> k.step, kinds |-> k.kinds, original |-> k.original, parts |-> k.parts,
           placed |-> k.placed, known |-> k.known]
    BY DEF IsJob
<1>2. j = [step |-> "read", kinds |-> k.kinds, original |-> k.original, parts |-> k.parts,
           placed |-> k.placed, known |-> k.known]
    BY <1>1
<1>3. j.step = "read" /\ j.parts = k.parts /\ j.placed = k.placed
    BY <1>2
<1>4. j = [step |-> j.step, kinds |-> j.kinds, original |-> j.original, parts |-> j.parts,
           placed |-> j.placed, known |-> j.known]
    BY <1>2
<1> QED BY <1>3, <1>4 DEF IsJob

\* A lock is taken when it is free, or when its holder runs no more.
LEMMA EnterDocumentKeepsInv == ASSUME GazetteInv, NEW r \in Runner, EnterDocument(r) PROVE GazetteInv'
<1>1. UNCHANGED <<gazette, sources>>
    BY DEF EnterDocument
<1> PICK n : n = NumberAt(ledger[r])
    OBVIOUS
<1>2. Current(r).number = n
    BY DEF Current, Position, NumberAt
<1>3. CASE /\ LockFree(n) /\ held' = [held EXCEPT ![n] = r]
           /\ job' = [job EXCEPT ![r].step = "read"] /\ UNCHANGED ledger
  <2>1. ledger' = [ledger EXCEPT ![r] = ledger[r]]
      BY <1>3 DEF GazetteInv
  <2>2. PICK k : k = job[r]
      OBVIOUS
  <2>3. PICK j : j = [k EXCEPT !.step = "read"]
      OBVIOUS
  <2>4. job' = [job EXCEPT ![r] = j]
      BY <1>3, <2>2, <2>3
  <2>5. IsJob(j) /\ j.step = "read"
    <3>1. IsJob(k)
        BY <2>2, RunnerHas
    <3> QED BY <2>3, <3>1, ReadJob
  <2>6. n \in Numbers
      BY NumberExists, RunnerHas DEF EnterDocument, Working
  <2>7. held'[n] = r
      BY <1>3, <2>6 DEF GazetteInv
  <2>8. RunnerHolds(r, ledger[r], j, held', sources', gazette')
      BY <2>5, <2>7, RunnerHas DEF RunnerHolds
  <2>9. /\ held' = [m \in Numbers |-> held'[m]]
        /\ \A m \in Numbers : held'[m] # held[m] => m = n
      BY <1>3 DEF GazetteInv
  <2>10. \A q \in Runner : held[n] = q => ledger[q].status # "running"
      BY <1>3, MissingAssumption DEF LockFree
  <2>11. SnapshotsHold(gazette')
      BY <1>1 DEF GazetteInv
  <2>12. /\ sources' = [m \in Numbers |-> sources'[m]] /\ \A m \in Numbers : sources'[m] = sources[m]
         /\ gazette' = [m \in Numbers |-> gazette'[m]] /\ \A m \in Numbers : gazette[m] \subseteq gazette'[m]
      BY <1>1 DEF GazetteInv
  <2> QED BY <2>1, <2>4, <2>8, <2>9, <2>10, <2>11, <2>12, RunnerStep
<1>4. CASE Failed(r, "official_gazette_word") /\ UNCHANGED held
  <2>1. Kept(r)
      BY <1>4, FailedRun
  <2> QED BY <1>1, <1>4, <2>1, DropKeepsInv
<1> QED BY <1>2, <1>3, <1>4 DEF EnterDocument

\* The parts of a page, one for each selected link, in order
LEMMA PreparedParts ==
    ASSUME NEW links, IsFiniteSet(DOMAIN links), NEW parts \in Prepared(SelectedParts(links))
    PROVE  parts \in Seq(ToSet(parts))
<1>1. PICK chosen : chosen \subseteq DOMAIN links /\ SelectedParts(links) = LinksAt(links, chosen)
    BY DEF SelectedParts
<1>2. Cardinality(chosen) \in Nat
    BY <1>1, FS_Subset, FS_CardinalityType
<1>3. DOMAIN SelectedParts(links) = 1..Cardinality(chosen)
    BY <1>1 DEF LinksAt
<1> PICK n \in Nat : n = Cardinality(chosen)
    BY <1>2
<1>4. parts \in [1..n -> ToSet(parts)]
    BY <1>3 DEF Prepared, ToSet
<1> PICK T : T = ToSet(parts)
    OBVIOUS
<1>5. Seq(T) = UNION {[1..k -> T] : k \in Nat}
    BY SeqDef
<1> QED BY <1>4, <1>5

\* The runner goes on with these parts.
ReadsParts(r, n, parts, kinds, original, known) ==
    LET j == [NoJob EXCEPT !.step = "place", !.parts = parts, !.kinds = kinds, !.original = original]
    IN  /\ known => KnownSnapshots(n, j) # {}
        /\ job' = [job EXCEPT ![r] = [j EXCEPT !.known = known]]
        /\ UNCHANGED <<ledger, held>>

LEMMA ReadOutcomes ==
    ASSUME NEW r \in Runner, ReadGazette(r)
    PROVE  \/ Leave(r) /\ (Failed(r, "official_gazette_word") \/ FallBack(r, "word_attachment_not_found"))
           \/ \E page \in Pages[Current(r).number] : \E parts \in Prepared(SelectedParts(page.links)) :
                 \E kinds, original, known : ReadsParts(r, Current(r).number, parts, kinds, original, known)
<1>1. ASSUME NEW page, NEW selected, NEW parts,
             LET j == [NoJob EXCEPT !.step = "place", !.parts = parts,
                          !.kinds = [i \in DOMAIN selected |-> selected[i].kind],
                          !.original = [i \in DOMAIN selected |-> selected[i].bytes]]
             IN  job' = [job EXCEPT ![r] =
                    [j EXCEPT !.known = ~ledger[r].force /\ KnownSnapshots(Current(r).number, j) # {}]],
             UNCHANGED <<ledger, held>>
      PROVE  \E kinds, original, known : ReadsParts(r, Current(r).number, parts, kinds, original, known)
  <2>1. PICK kinds : kinds = [i \in DOMAIN selected |-> selected[i].kind]
      OBVIOUS
  <2>2. PICK original : original = [i \in DOMAIN selected |-> selected[i].bytes]
      OBVIOUS
  <2>3. PICK j : j = [NoJob EXCEPT !.step = "place", !.parts = parts, !.kinds = kinds, !.original = original]
      OBVIOUS
  <2>4. PICK known : known = (~ledger[r].force /\ KnownSnapshots(Current(r).number, j) # {})
      OBVIOUS
  <2>5. job' = [job EXCEPT ![r] = [j EXCEPT !.known = known]]
      BY <1>1, <2>1, <2>2, <2>3, <2>4
  <2>6. known => KnownSnapshots(Current(r).number, j) # {}
      BY <2>4
  <2>7. ReadsParts(r, Current(r).number, parts, kinds, original, known)
      BY <1>1, <2>3, <2>5, <2>6 DEF ReadsParts
  <2> QED BY <2>7
<1> QED BY <1>1, Zenon DEF ReadGazette

LEMMA ReadGazetteKeepsInv == ASSUME GazetteInv, NEW r \in Runner, ReadGazette(r) PROVE GazetteInv'
<1>1. UNCHANGED <<gazette, sources>>
    BY DEF ReadGazette
<1>2. /\ Working(r, job[r].step) /\ job[r].step = "read" /\ ledger[r].status = "running"
    BY DEF ReadGazette, Working
<1> PICK n : n = NumberAt(ledger[r])
    OBVIOUS
<1>3. Current(r).number = n
    BY DEF Current, Position, NumberAt
<1>4. CASE Leave(r) /\ (Failed(r, "official_gazette_word") \/ FallBack(r, "word_attachment_not_found"))
  <2>1. Kept(r) \/ \E e : Added(r, e)
      BY <1>4, FailedRun, FallBackSettles
  <2> QED BY <1>1, <1>2, <1>4, <2>1, DropKeepsInv
<1>5. CASE \E page \in Pages[n] : \E parts \in Prepared(SelectedParts(page.links)) :
              \E kinds, original, known : ReadsParts(r, n, parts, kinds, original, known)
  <2>0. PICK page \in Pages[n] : \E parts \in Prepared(SelectedParts(page.links)) :
              \E kinds, original, known : ReadsParts(r, n, parts, kinds, original, known)
      BY <1>5
  <2>a. PICK parts \in Prepared(SelectedParts(page.links)) :
              \E kinds, original, known : ReadsParts(r, n, parts, kinds, original, known)
      BY <2>0
  <2>b. PICK kinds, original, known : ReadsParts(r, n, parts, kinds, original, known)
      BY <2>a
  <2>1. /\ known => KnownSnapshots(n, [NoJob EXCEPT !.step = "place", !.parts = parts,
                                         !.kinds = kinds, !.original = original]) # {}
        /\ job' = [job EXCEPT ![r] = [[NoJob EXCEPT !.step = "place", !.parts = parts,
                                         !.kinds = kinds, !.original = original] EXCEPT !.known = known]]
        /\ UNCHANGED <<ledger, held>>
      BY <2>b DEF ReadsParts
  <2>2. PICK i : i = [NoJob EXCEPT !.step = "place", !.parts = parts, !.kinds = kinds, !.original = original]
      OBVIOUS
  <2>3. PICK j : j = [i EXCEPT !.known = known]
      OBVIOUS
  <2>4. job' = [job EXCEPT ![r] = j] /\ (known => KnownSnapshots(n, i) # {})
      BY <2>1, <2>2, <2>3
  <2>5. i = [step |-> "place", kinds |-> kinds, original |-> original, parts |-> parts, placed |-> 0, known |-> FALSE]
      BY <2>2 DEF NoJob
  <2>6. j = [step |-> "place", kinds |-> kinds, original |-> original, parts |-> parts, placed |-> 0, known |-> known]
      BY <2>3, <2>5
  <2>7. parts \in Seq(ToSet(parts))
    <3>1. Len(ledger[r].results) + Len(ledger[r].failures) + 1 \in DOMAIN Registry
        BY <1>2, NumberExists, RunnerHas
    <3>2. IsFiniteSet(DOMAIN page.links)
        BY <3>1, PagesAssumption DEF NumberAt
    <3> QED BY <3>2, PreparedParts
  <2>8. IsJob(j) /\ j.step = "place" /\ j.placed = 0
    <3>1. Len(parts) \in Nat
        BY <2>7, LenProperties
    <3> QED BY <2>6, <2>7, <3>1 DEF IsJob
  <2>9. Fingerprint(j) = Fingerprint(i)
      BY <2>5, <2>6 DEF Fingerprint
  <2>10. j.known => \E s \in gazette'[n] : s.fingerprint = Fingerprint(j)
      BY <1>1, <2>4, <2>6, <2>9 DEF KnownSnapshots
  <2>11. held[n] = r
    <3>1. RunnerHolds(r, ledger[r], job[r], held, sources, gazette)
        BY DEF GazetteInv
    <3> QED BY <1>2, <3>1 DEF RunnerHolds
  <2>12. RunnerHolds(r, ledger[r], j, held, sources, gazette)
      BY <1>1, <2>8, <2>10, <2>11, RunnerHas DEF RunnerHolds
  <2>13. UNCHANGED <<ledger, held, sources, gazette>>
      BY <1>1, <2>1
  <2>14. job' = [job EXCEPT ![r] = j]
      BY <2>4
  <2> QED BY <2>12, <2>13, <2>14, LocalStep
<1> QED BY <1>3, <1>4, <1>5, ReadOutcomes

\* A part takes its own file, and none of another part.
LEMMA TargetsDiffer ==
    ASSUME NEW parts, parts \in Seq(ToSet(parts)), NEW i \in 1..Len(parts), NEW k \in 1..Len(parts),
           Targets(parts)[i] = Targets(parts)[k]
    PROVE  i = k
<1>1. Len(parts) \in Nat /\ DOMAIN parts = 1..Len(parts)
    BY LenProperties
<1>2. CASE Len(parts) = 1
    BY <1>1, <1>2
<1>3. CASE Len(parts) # 1
  <2>1. Targets(parts)[i] = <<"part", i>> /\ Targets(parts)[k] = <<"part", k>>
      BY <1>1, <1>3 DEF Targets
  <2>2. <<"part", i>>[2] = i /\ <<"part", k>>[2] = k
      OBVIOUS
  <2>3. <<"part", i>> = <<"part", k>>
      BY <2>1
  <2> QED BY <2>2, <2>3
<1> QED BY <1>2, <1>3

\* The part is in its file now, and the others are where they were.
PartWritten(files, files2, parts, k) ==
    /\ InFile(files2, parts, k)
    /\ \A i \in 1..Len(parts) : InFile(files, parts, i) => InFile(files2, parts, i)

LEMMA WrittenInFile ==
    ASSUME NEW files, NEW parts, parts \in Seq(ToSet(parts)), NEW k \in 1..Len(parts)
    PROVE  PartWritten(files, Written(files, Targets(parts)[k], parts[k]), parts, k)
<1>0. PICK files2 : files2 = Written(files, Targets(parts)[k], parts[k])
    OBVIOUS
<1>1. InFile(files2, parts, k)
    BY <1>0 DEF InFile, Written
<1>2. ASSUME NEW i \in 1..Len(parts), InFile(files, parts, i) PROVE InFile(files2, parts, i)
  <2>1. CASE i = k
      BY <1>1, <2>1
  <2>2. CASE i # k
    <3>1. Targets(parts)[i] # Targets(parts)[k]
        BY <2>2, TargetsDiffer
    <3> QED BY <1>0, <1>2, <3>1 DEF InFile, Written
  <2> QED BY <2>1, <2>2
<1> QED BY <1>0, <1>1, <1>2 DEF PartWritten

\* A job that has placed one part more
LEMMA PlacedOne ==
    ASSUME NEW k, IsJob(k), k.placed + 1 <= Len(k.parts), NEW j, j = [k EXCEPT !.placed = k.placed + 1]
    PROVE  /\ IsJob(j) /\ j.step = k.step /\ j.parts = k.parts /\ j.known = k.known
           /\ j.placed = k.placed + 1 /\ Fingerprint(j) = Fingerprint(k)
<1>1. k = [step |-> k.step, kinds |-> k.kinds, original |-> k.original, parts |-> k.parts,
           placed |-> k.placed, known |-> k.known]
    BY DEF IsJob
<1>2. j = [step |-> k.step, kinds |-> k.kinds, original |-> k.original, parts |-> k.parts,
           placed |-> k.placed + 1, known |-> k.known]
    BY <1>1
<1>3. /\ j.step = k.step /\ j.parts = k.parts /\ j.known = k.known /\ j.placed = k.placed + 1
      /\ j.kinds = k.kinds /\ j.original = k.original
    BY <1>2
<1>4. j = [step |-> j.step, kinds |-> j.kinds, original |-> j.original, parts |-> j.parts,
           placed |-> j.placed, known |-> j.known]
    BY <1>2
<1>5. Len(k.parts) \in Nat /\ k.placed + 1 \in 0..Len(k.parts)
    BY LenProperties DEF IsJob
<1>6. IsJob(j)
    BY <1>3, <1>4, <1>5 DEF IsJob
<1>7. Fingerprint(j) = Fingerprint(k)
    BY <1>3 DEF Fingerprint
<1> QED BY <1>3, <1>6, <1>7

\* The lock keeps every other runner out of the document whose files change.
LEMMA PlacePartKeepsInv == ASSUME GazetteInv, NEW r \in Runner, PlacePart(r) PROVE GazetteInv'
<1> PICK k : k = job[r]
    OBVIOUS
<1> PICK n : n = NumberAt(ledger[r])
    OBVIOUS
<1>1. UNCHANGED gazette /\ k.placed # Len(k.parts) /\ k.step = "place" /\ ledger[r].status = "running"
    BY DEF PlacePart, Working, AllPlaced
<1>2. Current(r).number = n
    BY DEF Current, Position, NumberAt
<1>3. IsJob(k) /\ IsRun(ledger[r])
    BY RunnerHas
<1>4. Len(k.parts) \in Nat /\ k.placed \in Nat /\ k.placed + 1 \in 1..Len(k.parts)
    BY <1>1, <1>3, LenProperties DEF IsJob
<1>5. CASE Failed(r, "official_gazette_word") /\ Leave(r) /\ UNCHANGED sources
  <2>1. Kept(r)
      BY <1>5, FailedRun
  <2>2. Working(r, job[r].step) /\ job[r].step \in {"read", "place"}
      BY <1>1 DEF Working
  <2> QED BY <1>1, <1>5, <2>1, <2>2, DropKeepsInv
<1>6. CASE /\ sources' = [sources EXCEPT ![n] =
                  Written(@, Targets(k.parts)[k.placed + 1], k.parts[k.placed + 1])]
           /\ job' = [job EXCEPT ![r].placed = k.placed + 1]
           /\ UNCHANGED <<ledger, held>>
  <2>1. PICK j : j = [k EXCEPT !.placed = k.placed + 1]
      OBVIOUS
  <2>2. job' = [job EXCEPT ![r] = j]
      BY <1>6, <2>1
  <2>3. /\ IsJob(j) /\ j.step = k.step /\ j.parts = k.parts /\ j.known = k.known
        /\ j.placed = k.placed + 1 /\ Fingerprint(j) = Fingerprint(k)
      BY <1>3, <1>4, <2>1, PlacedOne
  <2>4. n \in Numbers
      BY <1>1, <1>3, NumberExists
  <2>5. /\ sources' = [m \in Numbers |-> sources'[m]]
        /\ \A m \in Numbers : m # n => sources'[m] = sources[m]
        /\ sources'[n] = Written(sources[n], Targets(k.parts)[k.placed + 1], k.parts[k.placed + 1])
      BY <1>6, <2>4 DEF GazetteInv
  <2>6. RunnerHolds(r, ledger[r], k, held, sources, gazette)
      BY DEF GazetteInv
  <2>7. held[n] = r
      BY <1>1, <2>6 DEF RunnerHolds
  <2>8. \A i \in 1..k.placed : InFile(sources[n], k.parts, i)
      BY <1>1, <2>6 DEF RunnerHolds
  <2>9. \A i \in 1..(k.placed + 1) : InFile(sources'[n], k.parts, i)
    <3>1. k.parts \in Seq(ToSet(k.parts))
        BY <1>3 DEF IsJob
    <3>2. /\ InFile(sources'[n], k.parts, k.placed + 1)
          /\ \A i \in 1..Len(k.parts) : InFile(sources[n], k.parts, i) => InFile(sources'[n], k.parts, i)
      <4>1. PICK at : at = k.placed + 1
          OBVIOUS
      <4>2. PICK files : files = sources'[n]
          OBVIOUS
      <4>3. PICK parts : parts = k.parts
          OBVIOUS
      <4>4. PICK before : before = sources[n]
          OBVIOUS
      <4>5. files = Written(before, Targets(parts)[at], parts[at])
          BY <2>5, <4>1, <4>2, <4>3, <4>4
      <4>6. at \in 1..Len(parts) /\ parts \in Seq(ToSet(parts))
          BY <1>4, <3>1, <4>1, <4>3
      <4>7. PartWritten(before, files, parts, at)
          BY <4>5, <4>6, WrittenInFile
      <4> QED BY <4>1, <4>2, <4>3, <4>4, <4>7 DEF PartWritten
    <3>3. ASSUME NEW i \in 1..(k.placed + 1) PROVE i = k.placed + 1 \/ i \in 1..k.placed \cap 1..Len(k.parts)
        BY <1>4
    <3> QED BY <2>8, <3>2, <3>3
  <2>10. k.known => \E s \in gazette[n] : s.fingerprint = Fingerprint(k)
      BY <1>1, <2>6 DEF RunnerHolds
  <2>11. RunnerHolds(r, ledger[r], j, held', sources', gazette')
    <3>1. held'[n] = r /\ gazette' = gazette
        BY <1>1, <1>6, <2>7
    <3>2. \A i \in 1..j.placed : InFile(sources'[n], j.parts, i)
        BY <2>3, <2>9
    <3>3. j.known => \E s \in gazette'[n] : s.fingerprint = Fingerprint(j)
        BY <2>3, <2>10, <3>1
    <3> QED BY <1>3, <2>3, <3>1, <3>2, <3>3 DEF RunnerHolds
  <2>12. /\ ledger' = [ledger EXCEPT ![r] = ledger[r]]
         /\ held' = [m \in Numbers |-> held'[m]] /\ \A m \in Numbers : held'[m] = held[m]
         /\ gazette' = [m \in Numbers |-> gazette'[m]] /\ \A m \in Numbers : gazette[m] \subseteq gazette'[m]
         /\ SnapshotsHold(gazette')
      BY <1>1, <1>6 DEF GazetteInv
  <2>13. \A m \in Numbers : sources'[m] # sources[m] => held[m] = r
      BY <2>5, <2>7
  <2>14. sources' = [m \in Numbers |-> sources'[m]]
      BY <2>5
  <2> QED BY <2>2, <2>11, <2>12, <2>13, <2>14, RunnerStep
<1> QED BY <1>2, <1>5, <1>6 DEF PlacePart

LEMMA FinishDocumentKeepsInv == ASSUME GazetteInv, NEW r \in Runner, FinishDocument(r) PROVE GazetteInv'
<1>1. UNCHANGED sources /\ Leave(r) /\ Working(r, job[r].step) /\ job[r].step \in {"read", "place"}
    BY DEF FinishDocument, Working
<1>2. CASE UNCHANGED gazette
  <2>1. Kept(r) \/ \E e : Added(r, e)
    <3>1. ASSUME NEW stage, Failed(r, stage) PROVE Kept(r)
        BY <3>1, FailedRun
    <3>2. ASSUME NEW provider, NEW status, NEW fingerprint, Succeeded(r, provider, status, fingerprint)
          PROVE  Added(r, Entry(r, provider, status, fingerprint))
        BY <3>2, SucceededRun
    <3> QED BY <3>1, <3>2 DEF FinishDocument
  <2> QED BY <1>1, <1>2, <2>1, DropKeepsInv
<1>3. CASE \E snapshot, fingerprint :
              /\ snapshot.parts = snapshot.fingerprint[3]
              /\ gazette' = [gazette EXCEPT ![Current(r).number] = @ \cup {snapshot}]
              /\ Succeeded(r, "official_gazette_word", "created", fingerprint)
  <2>1. PICK snapshot, fingerprint :
              /\ snapshot.parts = snapshot.fingerprint[3]
              /\ gazette' = [gazette EXCEPT ![Current(r).number] = @ \cup {snapshot}]
              /\ Succeeded(r, "official_gazette_word", "created", fingerprint)
      BY <1>3
  <2>2. \E e : Added(r, e)
      BY <2>1, SucceededRun
  <2>3. /\ gazette' = [n \in Numbers |-> gazette'[n]]
        /\ \A n \in Numbers : gazette[n] \subseteq gazette'[n] /\ gazette'[n] \subseteq gazette[n] \cup {snapshot}
      BY <2>1 DEF GazetteInv
  <2>4. SnapshotsHold(gazette')
      BY <2>1, <2>3 DEF GazetteInv, SnapshotsHold
  <2> QED BY <1>1, <2>2, <2>3, <2>4, SettleKeepsInv
<1>4. FinishDocument(r) =>
        \/ UNCHANGED gazette
        \/ \E snapshot, fingerprint :
              /\ snapshot.parts = snapshot.fingerprint[3]
              /\ gazette' = [gazette EXCEPT ![Current(r).number] = @ \cup {snapshot}]
              /\ Succeeded(r, "official_gazette_word", "created", fingerprint)
  <2>1. PICK snapshot : snapshot = [fingerprint |-> Fingerprint(job[r]), parts |-> job[r].parts]
      OBVIOUS
  <2>2. snapshot.parts = snapshot.fingerprint[3]
      BY <2>1 DEF Fingerprint
  <2> QED BY <2>1, <2>2 DEF FinishDocument
<1> QED BY <1>2, <1>3, <1>4

LEMMA KillRunnerKeepsInv == ASSUME GazetteInv, NEW r \in Runner, KillRunner(r) PROVE GazetteInv'
<1>1. PICK k : k = ledger[r]
    OBVIOUS
<1>2. PICK l : l = [k EXCEPT !.status = "killed"]
    OBVIOUS
<1>3. ledger' = [ledger EXCEPT ![r] = l] /\ job' = [job EXCEPT ![r] = NoJob] /\ UNCHANGED <<held, gazette, sources>>
    BY <1>1, <1>2 DEF KillRunner
<1>4. IsRun(k)
    BY <1>1, RunnerHas
<1>5. IsRun(l) /\ l.results = k.results
  <2>1. k = [status |-> k.status, replace |-> k.replace, force |-> k.force,
             results |-> k.results, failures |-> k.failures]
      BY <1>4 DEF IsRun
  <2>2. l = [status |-> "killed", replace |-> k.replace, force |-> k.force,
             results |-> k.results, failures |-> k.failures]
      BY <1>2, <2>1
  <2>3. l.status = "killed" /\ l.results = k.results /\ l.failures = k.failures
      BY <2>2
  <2>4. l = [status |-> l.status, replace |-> l.replace, force |-> l.force,
             results |-> l.results, failures |-> l.failures]
      BY <2>2
  <2> QED BY <1>4, <2>3, <2>4 DEF IsRun
<1>6. Kept(r)
    BY <1>1, <1>3, <1>5 DEF Kept
<1> QED BY <1>3, <1>6, DropKeepsInv

-----------------------------------------------------------------------------

LEMMA GazetteInitInv == GazetteInit => GazetteInv
<1> SUFFICES ASSUME GazetteInit PROVE GazetteInv
    OBVIOUS
<1>1. IsRun(Off) /\ Off.status = "off"
  <2>1. <<>> \in Seq(ToSet(<<>>)) /\ Off.results = <<>> /\ Off.failures = <<>>
      BY EmptySeq DEF Off
  <2> QED BY <2>1 DEF IsRun, Off
<1>2. ASSUME NEW r \in Runner PROVE RunnerHolds(r, ledger[r], job[r], held, sources, gazette)
  <2>1. ledger[r] = Off /\ job[r] = NoJob
      BY DEF GazetteInit
  <2> QED BY <1>1, <2>1, NoJobIsJob, IdleHolds
<1>3. SnapshotsHold(gazette)
    BY DEF GazetteInit, SnapshotsHold
<1> QED BY <1>2, <1>3 DEF GazetteInit, GazetteInv

LEMMA GazetteNextKeepsInv == ASSUME GazetteInv, [GazetteNext]_gazetteVars PROVE GazetteInv'
<1>1. CASE UNCHANGED gazetteVars
    BY <1>1 DEF gazetteVars, GazetteInv
<1>2. CASE GazetteNext
  <2>1. PICK r \in Runner :
            \/ StartRun(r) \/ DeclaredMissing(r) \/ EnterDocument(r) \/ ReadGazette(r)
            \/ PlacePart(r) \/ FinishDocument(r) \/ KillRunner(r)
      BY <1>2 DEF GazetteNext
  <2> QED BY <2>1, StartRunKeepsInv, DeclaredMissingKeepsInv, EnterDocumentKeepsInv, ReadGazetteKeepsInv,
             PlacePartKeepsInv, FinishDocumentKeepsInv, KillRunnerKeepsInv
<1> QED BY <1>1, <1>2

\* A run that keeps its results has no new one.
LEMMA KeptGrowsNothing ==
    ASSUME GazetteInv, NEW r \in Runner, Kept(r), NEW q \in Runner
    PROVE  ledger'[q].results = ledger[q].results
  BY DEF Kept, GazetteInv

LEMMA AddedIsLast ==
    ASSUME GazetteInv, NEW r \in Runner, NEW e, Added(r, e)
    PROVE  /\ Last(ledger'[r].results) = e
           /\ \A q \in Runner : q # r => ledger'[q].results = ledger[q].results
<1>1. PICK l : l.results = Append(ledger[r].results, e) /\ ledger' = [ledger EXCEPT ![r] = l]
    BY DEF Added
<1>2. ledger'[r] = l /\ \A q \in Runner : q # r => ledger'[q] = ledger[q]
    BY <1>1 DEF GazetteInv
<1>3. Last(Append(ledger[r].results, e)) = e
    BY OutcomesAreLists, Appended DEF Last
<1> QED BY <1>1, <1>2, <1>3

\* A finished document is in place, with the parts of the snapshot it names.
LEMMA FinishedInPlace ==
    ASSUME GazetteInv, NEW r \in Runner, Working(r, "place"), AllPlaced(job[r]), UNCHANGED sources,
           NEW status, Added(r, Entry(r, "official_gazette_word", status, Fingerprint(job[r]))),
           NEW s \in gazette'[Current(r).number],
           s.fingerprint = Fingerprint(job[r]), s.parts = job[r].parts
    PROVE  LatestInPlace(r)'
<1> PICK k : k = job[r]
    OBVIOUS
<1> PICK n : n = NumberAt(ledger[r])
    OBVIOUS
<1>1. Current(r).number = n
    BY DEF Current, Position, NumberAt
<1>2. PICK e : e = Entry(r, "official_gazette_word", status, Fingerprint(k))
    OBVIOUS
<1>3. e.number = n /\ e.fingerprint = Fingerprint(k)
    BY <1>1, <1>2 DEF Entry
<1>4. Last(ledger'[r].results) = e
    BY <1>2, AddedIsLast
<1>5. \A i \in 1..k.placed : InFile(sources[n], k.parts, i)
  <2>1. RunnerHolds(r, ledger[r], k, held, sources, gazette)
      BY DEF GazetteInv
  <2> QED BY <2>1 DEF RunnerHolds, Working
<1>6. DOMAIN k.parts = 1..k.placed
  <2>1. IsJob(k) /\ k.placed = Len(k.parts)
      BY RunnerHas DEF AllPlaced
  <2> QED BY <2>1, LenProperties DEF IsJob
<1>7. \A i \in DOMAIN s.parts : InFile(sources'[n], s.parts, i)
    BY <1>5, <1>6
<1>8. s \in gazette'[n] /\ s.fingerprint = Fingerprint(k)
    BY <1>1
<1> QED BY <1>3, <1>4, <1>7, <1>8 DEF LatestInPlace, InFile

LEMMA SameIsNoLonger ==
    ASSUME GazetteInv, NEW q \in Runner, ledger'[q].results = ledger[q].results
    PROVE  ~(Len(ledger'[q].results) > Len(ledger[q].results))
<1> PICK n \in Nat : n = Len(ledger[q].results)
    BY OutcomesAreLists, LenProperties
<1> QED OBVIOUS

LEMMA FinishInPlace ==
    ASSUME GazetteInv, NEW r \in Runner, FinishDocument(r), NEW q \in Runner,
           Len(ledger'[q].results) > Len(ledger[q].results)
    PROVE  LatestInPlace(q)'
<1>1. Working(r, "place") /\ AllPlaced(job[r]) /\ UNCHANGED sources
    BY DEF FinishDocument
<1>2. PICK snapshot : snapshot = [fingerprint |-> Fingerprint(job[r]), parts |-> job[r].parts]
    OBVIOUS
<1>3. snapshot.fingerprint = Fingerprint(job[r]) /\ snapshot.parts = job[r].parts
    BY <1>2
<1>4. Current(r).number \in Numbers /\ Current(r).number = NumberAt(ledger[r])
  <2>1. Current(r).number = NumberAt(ledger[r])
      BY DEF Current, Position, NumberAt
  <2> QED BY <1>1, <2>1, RunnerHas, NumberExists DEF Working
<1>5. ASSUME NEW e, Added(r, e) PROVE q = r
    BY <1>5, AddedIsLast, SameIsNoLonger
<1>6. CASE Failed(r, "official_gazette_word")
    BY <1>6, FailedRun, KeptGrowsNothing, SameIsNoLonger
<1>7. CASE /\ job[r].known /\ UNCHANGED gazette
           /\ Succeeded(r, "official_gazette_word", "unchanged", Fingerprint(job[r]))
  <2>1. Added(r, Entry(r, "official_gazette_word", "unchanged", Fingerprint(job[r])))
      BY <1>7, SucceededRun
  <2>2. RunnerHolds(r, ledger[r], job[r], held, sources, gazette)
      BY DEF GazetteInv
  <2>3. PICK s \in gazette[Current(r).number] : s.fingerprint = Fingerprint(job[r])
      BY <1>1, <1>4, <1>7, <2>2 DEF RunnerHolds, Working
  <2>4. s.parts = job[r].parts
    <3>1. s.parts = s.fingerprint[3]
        BY <1>4, <2>3 DEF GazetteInv, SnapshotsHold
    <3> QED BY <2>3, <3>1 DEF Fingerprint
  <2>5. s \in gazette'[Current(r).number]
      BY <1>7, <2>3
  <2>6. LatestInPlace(r)'
      BY <1>1, <2>1, <2>3, <2>4, <2>5, FinishedInPlace
  <2> QED BY <1>5, <2>1, <2>6
<1>8. CASE /\ gazette' = [gazette EXCEPT ![Current(r).number] = @ \cup {snapshot}]
           /\ Succeeded(r, "official_gazette_word", "created", snapshot.fingerprint)
  <2>1. Added(r, Entry(r, "official_gazette_word", "created", Fingerprint(job[r])))
      BY <1>3, <1>8, SucceededRun
  <2>2. snapshot \in gazette'[Current(r).number]
      BY <1>4, <1>8 DEF GazetteInv
  <2>3. LatestInPlace(r)'
      BY <1>1, <1>3, <2>1, <2>2, FinishedInPlace
  <2> QED BY <1>5, <2>1, <2>3
<1> QED BY <1>2, <1>3, <1>6, <1>7, <1>8 DEF FinishDocument

\* Only a finished document of the gazette adds a result of the gazette.
LEMMA GrowsInPlace ==
    ASSUME GazetteInv, NEW r \in Runner,
           \/ StartRun(r) \/ DeclaredMissing(r) \/ EnterDocument(r) \/ ReadGazette(r)
           \/ PlacePart(r) \/ FinishDocument(r) \/ KillRunner(r),
           NEW q \in Runner, Len(ledger'[q].results) > Len(ledger[q].results)
    PROVE  LatestInPlace(q)'
<1>1. ASSUME Kept(r) PROVE FALSE
    BY <1>1, KeptGrowsNothing, SameIsNoLonger
<1>2. ASSUME UNCHANGED ledger PROVE FALSE
    BY <1>2, SameIsNoLonger
<1>3. ASSUME NEW reason, FallBack(r, reason) PROVE LatestInPlace(q)'
  <2>1. PICK e : e.provider = "vbpl" /\ Added(r, e)
      BY <1>1, <1>3, FallBackSettles
  <2>2. q = r
      BY <2>1, AddedIsLast, SameIsNoLonger
  <2>3. Last(ledger'[r].results).provider = "vbpl"
      BY <2>1, AddedIsLast
  <2> QED BY <2>2, <2>3 DEF LatestInPlace
<1>4. CASE StartRun(r)
  <2>1. PICK l : l.results = <<>> /\ ledger' = [ledger EXCEPT ![r] = l]
    <3>1. PICK o \in Options :
            ledger' = [ledger EXCEPT ![r] = [Off EXCEPT !.status = "running", !.replace = o.replace, !.force = o.force]]
        BY <1>4 DEF StartRun
    <3>2. PICK l : l = [Off EXCEPT !.status = "running", !.replace = o.replace, !.force = o.force]
        OBVIOUS
    <3>3. l.results = <<>>
        BY <3>2 DEF Off
    <3> QED BY <3>1, <3>2, <3>3
  <2>2. CASE q # r
    <3>1. ledger'[q] = ledger[q]
        BY <2>1, <2>2 DEF GazetteInv
    <3> QED BY <3>1, SameIsNoLonger
  <2>3. CASE q = r
    <3>1. Len(ledger'[q].results) = 0
        BY <2>1, <2>3, EmptySeq DEF GazetteInv
    <3>2. Len(ledger[q].results) \in Nat
        BY OutcomesAreLists, LenProperties
    <3> QED BY <3>1, <3>2
  <2> QED BY <2>2, <2>3
<1>5. CASE DeclaredMissing(r)
    BY <1>3, <1>5 DEF DeclaredMissing
<1>6. CASE EnterDocument(r)
  <2>1. UNCHANGED ledger \/ Failed(r, "official_gazette_word")
      BY <1>6 DEF EnterDocument
  <2> QED BY <1>1, <1>2, <2>1, FailedRun
<1>7. CASE ReadGazette(r)
  <2>1. \/ Failed(r, "official_gazette_word") \/ FallBack(r, "word_attachment_not_found")
        \/ UNCHANGED ledger
      BY <1>7, ReadOutcomes DEF ReadsParts
  <2> QED BY <1>1, <1>2, <1>3, <2>1, FailedRun
<1>8. CASE PlacePart(r)
  <2>1. UNCHANGED ledger \/ Failed(r, "official_gazette_word")
      BY <1>8 DEF PlacePart
  <2> QED BY <1>1, <1>2, <2>1, FailedRun
<1>9. CASE FinishDocument(r)
    BY <1>9, FinishInPlace
<1>10. CASE KillRunner(r)
  <2>1. PICK k : k = ledger[r]
      OBVIOUS
  <2>2. PICK l : l = [k EXCEPT !.status = "killed"]
      OBVIOUS
  <2>3. ledger' = [ledger EXCEPT ![r] = l]
      BY <1>10, <2>1, <2>2 DEF KillRunner
  <2>4. l.results = k.results
    <3>1. k = [status |-> k.status, replace |-> k.replace, force |-> k.force,
               results |-> k.results, failures |-> k.failures]
        BY <2>1, RunnerHas DEF IsRun
    <3> QED BY <2>2, <3>1
  <2>5. ledger'[q].results = ledger[q].results
      BY <2>1, <2>3, <2>4 DEF GazetteInv
  <2> QED BY <2>5, SameIsNoLonger
<1> QED BY <1>4, <1>5, <1>6, <1>7, <1>8, <1>9, <1>10

\* The inductive invariant holds for any registry, pages and options, wherever
\* runs are killed and started again.
THEOREM GazetteInvariance == GazetteSpec => []GazetteInv
<1>1. GazetteInit => GazetteInv
    BY GazetteInitInv
<1>2. GazetteInv /\ [GazetteNext]_gazetteVars => GazetteInv'
    BY GazetteNextKeepsInv
<1> QED BY <1>1, <1>2, PTL DEF GazetteSpec

\* A document a run has from the gazette has its whole text in the source
\* directory at that moment, whatever earlier runs left there (ingest_one,
\* _materialize_source).
THEOREM SuccessesAreInPlace == GazetteSpec => SuccessMeansInPlace
<1> DEFINE A == \A r \in Runner :
                   Len(ledger'[r].results) > Len(ledger[r].results) => LatestInPlace(r)'
<1>1. GazetteInv /\ [GazetteNext]_gazetteVars => [A]_gazetteVars
  <2> SUFFICES ASSUME GazetteInv, GazetteNext PROVE A
      OBVIOUS
  <2>1. PICK r \in Runner :
            \/ StartRun(r) \/ DeclaredMissing(r) \/ EnterDocument(r) \/ ReadGazette(r)
            \/ PlacePart(r) \/ FinishDocument(r) \/ KillRunner(r)
      BY DEF GazetteNext
  <2> QED BY <2>1, GrowsInPlace
<1>2. [][A]_gazetteVars => SuccessMeansInPlace
    BY PTL DEF SuccessMeansInPlace
<1> QED BY <1>1, <1>2, GazetteInvariance, PTL DEF GazetteSpec

-----------------------------------------------------------------------------
(* CanonicalRelease                                                          *)

\* The articles of a source release, and what is theirs
SoundArticles(source) ==
    /\ \A a \in source : DOMAIN a = {"id", "units"} /\ \A u \in a.units : IsUnit(u)
    /\ \A a, b \in source : a.id = b.id => a = b

IsSource(s) ==
    {"articles", "chunks", "verified"} \subseteq DOMAIN s /\ SoundArticles(s.articles) /\ s.chunks = ChunksOf(s.articles)

UnitsIn(things) == UNION {x.units : x \in things}

LEMMA AssembledIsSound ==
    ASSUME NEW text
    PROVE  SoundArticles(BaseArticles \cup {OfficialArticle(text)})
<1>1. PICK b : b = OfficialArticle(text)
    OBVIOUS
<1>2. DOMAIN b = {"id", "units"} /\ b.id = "official"
    BY <1>1 DEF OfficialArticle
<1>3. ASSUME NEW u \in b.units PROVE IsUnit(u)
  <2>1. u = [path |-> <<"official", "1">>, text |-> text]
      BY <1>1 DEF OfficialArticle
  <2>2. DOMAIN u = {"path", "text"} /\ u.path = <<"official", "1">>
      BY <2>1
  <2>3. <<"official", "1">> \in Seq({"official", "1"}) /\ Len(<<"official", "1">>) = 2
      OBVIOUS
  <2>4. ToSet(<<"official", "1">>) = {"official", "1"}
      BY DEF ToSet
  <2> QED BY <2>2, <2>3, <2>4 DEF IsUnit
<1> QED BY <1>1, <1>2, <1>3, ReleaseAssumption DEF SoundArticles

LEMMA StagedIsSource == IsSource(Staged)
<1>1. PICK s : s = Staged
    OBVIOUS
<1>2. SoundArticles(Assembled)
    BY AssembledIsSound DEF Assembled
<1>3. {"articles", "chunks", "verified"} \subseteq DOMAIN s /\ s.articles = Assembled /\ s.chunks = ChunksOf(Assembled)
    BY <1>1 DEF Staged
<1> QED BY <1>1, <1>2, <1>3 DEF IsSource

\* The chunks of an article carry its units: each unit is in the chunk of its clause.
LEMMA UnitInItsChunk ==
    ASSUME NEW u, IsUnit(u)
    PROVE  IsPrefix(SubSeq(u.path, 1, 2), u.path)
<1>1. PICK p, key, S : p = u.path /\ S = ToSet(p) /\ key = SubSeq(p, 1, 2)
    OBVIOUS
<1>2. p \in Seq(S) /\ Len(p) >= 2 /\ Len(p) \in Nat
    BY <1>1 DEF IsUnit
<1>3. key \in Seq(S) /\ Len(key) = 2 /\ key = [i \in 1..2 |-> p[i]]
    BY <1>1, <1>2
<1>4. SubSeq(key, 1, 2) = key
    BY <1>3
<1> QED BY <1>1, <1>2, <1>3, <1>4 DEF IsPrefix

LEMMA ChunksCarryUnits ==
    ASSUME NEW a, \A u \in a.units : IsUnit(u)
    PROVE  UnitsIn(ArticleChunks(a)) = a.units
<1>1. ASSUME NEW c \in ArticleChunks(a) PROVE c.units \subseteq a.units
    BY DEF ArticleChunks
<1>2. ASSUME NEW u \in a.units
      PROVE  \E c \in ArticleChunks(a) : u \in c.units
  <2>1. PICK key : key = SubSeq(u.path, 1, 2)
      OBVIOUS
  <2>2. PICK c : c = [id |-> key, article |-> a.id, units |-> {v \in a.units : IsPrefix(key, v.path)}]
      OBVIOUS
  <2>3. c \in ArticleChunks(a)
      BY <2>1, <2>2 DEF ArticleChunks, Paths
  <2>4. u \in c.units
      BY <2>1, <2>2, UnitInItsChunk
  <2> QED BY <2>3, <2>4
<1> QED BY <1>1, <1>2 DEF UnitsIn

\* Decisions leave units that are units.
LEMMA DecidedUnits ==
    ASSUME NEW b, DOMAIN b = {"id", "units"}, \A u \in b.units : IsUnit(u), NEW ruling \in Rulings
    PROVE  LET a == Transformed(b, ruling)
           IN  a.id = b.id /\ \A u \in a.units : IsUnit(u)
<1>1. PICK a : a = Transformed(b, ruling)
    OBVIOUS
<1>2. a.id = b.id /\ a.units = Revised(b, ruling, Len(ruling.insert) + 1)
    BY <1>1 DEF Transformed
<1>3. ASSUME NEW u \in Reviewed(b.units, ruling) PROVE IsUnit(u)
  <2>1. PICK v \in b.units : u = IF v.path \in DOMAIN ruling.replace
                                  THEN [v EXCEPT !.text = ruling.replace[v.path].text] ELSE v
      BY DEF Reviewed
  <2>2. DOMAIN u = DOMAIN v /\ u.path = v.path
      BY <2>1 DEF IsUnit
  <2> QED BY <2>2 DEF IsUnit
<1>4. \A n \in Insertions(b, ruling) : IsUnit(ruling.insert[n].unit)
    BY ReleaseAssumption DEF Insertions
<1>5. \A u \in a.units : IsUnit(u)
    BY <1>2, <1>3, <1>4 DEF Revised
<1> QED BY <1>1, <1>2, <1>5

\* An article that no decision touched keeps its units.
LEMMA UntouchedUnits ==
    ASSUME NEW source, NEW b \in source, DOMAIN b = {"id", "units"}, NEW ruling,
           b.id \notin Changed(source, ruling)
    PROVE  Transformed(b, ruling).units = b.units
<1>1. /\ \A p \in Paths(b.units) : ~Excluded(p, ruling) /\ p \notin DOMAIN ruling.replace
      /\ Insertions(b, ruling) = {}
    BY DEF Changed
<1>2. \A u \in b.units : ~Excluded(u.path, ruling) /\ u.path \notin DOMAIN ruling.replace
    BY <1>1 DEF Paths
<1>3. Reviewed(b.units, ruling) = b.units
    BY <1>2 DEF Reviewed
<1>4. Revised(b, ruling, Len(ruling.insert) + 1) = b.units
    BY <1>1, <1>3 DEF Revised
<1> QED BY <1>4 DEF Transformed

LEMMA KeptChunks ==
    ASSUME NEW source, SoundArticles(source), NEW b \in source
    PROVE  {c \in ChunksOf(source) : c.article = b.id} = ArticleChunks(b)
<1>1. \A a \in source : \A c \in ArticleChunks(a) : c.article = a.id
    BY DEF ArticleChunks
<1>2. ASSUME NEW c \in ChunksOf(source), c.article = b.id PROVE c \in ArticleChunks(b)
  <2>1. PICK a \in source : c \in ArticleChunks(a)
      BY DEF ChunksOf
  <2>2. a = b
      BY <1>1, <1>2, <2>1 DEF SoundArticles
  <2> QED BY <2>1, <2>2
<1>3. ArticleChunks(b) \subseteq ChunksOf(source)
    BY DEF ChunksOf
<1> QED BY <1>1, <1>2, <1>3

\* The chunks of one article of the release
ChunksFor(old, a, changed) == IF a.id \in changed THEN ArticleChunks(a) ELSE {c \in old : c.article = a.id}

LEMMA RebuiltFor ==
    ASSUME NEW source, SoundArticles(source), NEW ruling \in Rulings, NEW a \in Applied(source, ruling)
    PROVE  UnitsIn(ChunksFor(ChunksOf(source), a, Changed(source, ruling))) = a.units
<1>1. PICK b \in source : a = Transformed(b, ruling)
    BY DEF Applied
<1>2. DOMAIN b = {"id", "units"} /\ \A u \in b.units : IsUnit(u)
    BY DEF SoundArticles
<1>3. a.id = b.id /\ \A u \in a.units : IsUnit(u)
    BY <1>1, <1>2, DecidedUnits
<1>4. CASE a.id \in Changed(source, ruling)
    BY <1>3, <1>4, ChunksCarryUnits DEF ChunksFor
<1>5. CASE a.id \notin Changed(source, ruling)
  <2>1. ChunksFor(ChunksOf(source), a, Changed(source, ruling)) = ArticleChunks(b)
      BY <1>3, <1>5, KeptChunks DEF ChunksFor
  <2>2. a.units = b.units
      BY <1>1, <1>2, <1>3, <1>5, UntouchedUnits
  <2> QED BY <1>2, <2>1, <2>2, ChunksCarryUnits
<1> QED BY <1>4, <1>5

\* The chunks of a release carry exactly the text of its articles.
LEMMA RebuiltIsWhole ==
    ASSUME NEW source, SoundArticles(source), NEW ruling \in Rulings, NEW final, final = Applied(source, ruling)
    PROVE  UnitsIn(Rebuilt(ChunksOf(source), final, Changed(source, ruling))) = UnitsIn(final)
<1>1. PICK old, changed : old = ChunksOf(source) /\ changed = Changed(source, ruling)
    OBVIOUS
<1>2. \A a \in final : UnitsIn(ChunksFor(old, a, changed)) = a.units
    BY <1>1, RebuiltFor
<1>3. Rebuilt(old, final, changed) = UNION {ChunksFor(old, a, changed) : a \in final}
    BY DEF Rebuilt, ChunksFor
<1>4. ASSUME NEW u
      PROVE  u \in UnitsIn(Rebuilt(old, final, changed)) <=> \E a \in final : u \in UnitsIn(ChunksFor(old, a, changed))
    BY <1>3 DEF UnitsIn
<1>5. ASSUME NEW u
      PROVE  u \in UnitsIn(final) <=> \E a \in final : u \in a.units
    BY DEF UnitsIn
<1>6. \A u : u \in UnitsIn(Rebuilt(old, final, changed)) <=> u \in UnitsIn(final)
    BY <1>2, <1>4, <1>5
<1> QED BY <1>1, <1>6

Whole(files) == UnitsIn(files["chunks"]) = UnitsIn(files["articles"])

-----------------------------------------------------------------------------

\* A binding that says verified is to a summary of the chunks beside it, which
\* found none too long among those it read.
Binds(files) ==
    files["binding"].verified =>
        files["binding"].summary.chunks = files["chunks"] /\ Clean(files["binding"].summary)

\* What a manifest says of the files beside it
ClaimsHold(files) ==
    "manifest" \in DOMAIN files =>
        /\ files["articles"] = Applied(files["review"].from.articles, files["review"].ruling)
        /\ Whole(files)
        /\ files["manifest"].exact = files["binding"].verified /\ Binds(files)
        /\ files["manifest"].technical =>
              \A c \in files["chunks"] : \A p \in Paths(c.units) : ~Excluded(p, files["review"].ruling)

Filling == {"chunks", "binding", "review", "golden", "manifest"}
Bound == {"review", "golden", "manifest"}
Declared == {"sums", "check", "preflight", "readiness", "seal", "verify", "released"}
Passed == Declared \ {"sums"}
Ready == {"seal", "verify", "released"}

\* A completion applies decisions to the articles and chunks of a whole source.
FromSource(run) ==
    /\ "changed" \in DOMAIN run /\ IsSource(run.from) /\ run.ruling \in Rulings
    /\ run.changed = Changed(run.from.articles, run.ruling)

\* What a completion that is still at work has written so far
StepHolds(run, files, checksums) ==
    /\ run.step \in Filling \cup {"articles"} => {"from", "ruling"} \subseteq DOMAIN run
    /\ run.step \in Filling =>
          "articles" \in DOMAIN files /\ files["articles"] = Applied(run.from.articles, run.ruling)
    /\ run.step \in {"articles", "chunks"} => FromSource(run)
    /\ run.step \in Filling \ {"chunks"} => "chunks" \in DOMAIN files /\ Whole(files)
    /\ run.step \in Bound => "binding" \in DOMAIN files /\ Binds(files)
    /\ run.step \in Bound \ {"review"} =>
          "review" \in DOMAIN files /\ files["review"].from = run.from /\ files["review"].ruling = run.ruling
    /\ run.step \in Declared =>
          {"articles", "chunks", "binding", "review", "manifest"} \subseteq DOMAIN files /\ ClaimsHold(files)
    /\ run.step \in Passed => files["manifest"].technical
    /\ run.step \in Ready =>
          /\ files["manifest"].exact
          /\ "readiness" \in DOMAIN files /\ files["readiness"] = files["chunks"]
    /\ run.step = "released" => checksums = files

ReleaseInv ==
    /\ "step" \in DOMAIN completion
    /\ ClaimsHold(sums)
    /\ StepHolds(completion, canon, sums)

LEMMA Wrote ==
    ASSUME NEW file, NEW content, Write(file, content)
    PROVE  /\ DOMAIN canon' = DOMAIN canon \cup {file}
           /\ canon'[file] = content
           /\ \A f \in DOMAIN canon : f # file => canon'[f] = canon[f]
  BY DEF Write

\* A run that goes on is still about the same release and decisions.
LEMMA WentOn ==
    ASSUME "step" \in DOMAIN completion, NEW step, Goes(step)
    PROVE  /\ DOMAIN completion' = DOMAIN completion /\ completion'.step = step
           /\ {"from", "ruling"} \subseteq DOMAIN completion =>
                 completion'.from = completion.from /\ completion'.ruling = completion.ruling
           /\ FromSource(completion) /\ {"from", "ruling"} \subseteq DOMAIN completion => FromSource(completion')
  BY DEF Goes, FromSource

\* A summary that covers these chunks hashed them, and is clean.
LEMMA CoveredClean ==
    ASSUME NEW summary, NEW chunks, AuditCovers(summary, chunks)
    PROVE  summary.chunks = chunks /\ Clean(summary)
  BY DEF AuditCovers

\* Builder, official document and audit leave the release and its run alone.
LEMMA BuilderKeepsInv ==
    ASSUME ReleaseInv, UNCHANGED <<canon, sums, completion>>
    PROVE  ReleaseInv'
  BY DEF ReleaseInv

LEMMA CompletionKeepsInv ==
    ASSUME ReleaseInv, "step" \in DOMAIN completion',
           ClaimsHold(sums'), StepHolds(completion', canon', sums')
    PROVE  ReleaseInv'
  BY DEF ReleaseInv

\* It writes a file, and the checksums stay as they were
LEMMA WriteKeepsInv ==
    ASSUME ReleaseInv, UNCHANGED sums, NEW step, Goes(step),
           StepHolds(completion', canon', sums)
    PROVE  ReleaseInv'
<1>1. ClaimsHold(sums') /\ StepHolds(completion', canon', sums')
    BY DEF ReleaseInv
<1>2. "step" \in DOMAIN completion'
    BY WentOn DEF ReleaseInv
<1> QED BY <1>1, <1>2, CompletionKeepsInv

\* Or only looks at what is there
LEMMA CheckKeepsInv ==
    ASSUME ReleaseInv, UNCHANGED <<canon, sums>>,
           "step" \in DOMAIN completion', StepHolds(completion', canon, sums)
    PROVE  ReleaseInv'
<1>1. ClaimsHold(sums') /\ StepHolds(completion', canon', sums')
    BY DEF ReleaseInv
<1> QED BY <1>1, CompletionKeepsInv

\* A run that ends without a release promises nothing.
LEMMA StoppedHolds ==
    ASSUME NEW step \in {"failed", "idle"}, Ends(step), NEW files, NEW checksums
    PROVE  "step" \in DOMAIN completion' /\ StepHolds(completion', files, checksums)
  BY DEF Ends, StepHolds, Filling, Bound, Declared, Passed, Ready

LEMMA StoppedKeepsInv ==
    ASSUME ReleaseInv, NEW step \in {"failed", "idle"}, Ends(step),
           UNCHANGED <<canon, sums>>
    PROVE  ReleaseInv'
  BY StoppedHolds, CheckKeepsInv

\* A check that passes goes on without a file written.
LEMMA PassedKeepsInv ==
    ASSUME ReleaseInv, completion.step \in Passed \ Ready, UNCHANGED <<canon, sums>>,
           NEW step \in Passed \ Ready, Goes(step)
    PROVE  ReleaseInv'
<1>1. "step" \in DOMAIN completion' /\ completion'.step = step
    BY WentOn DEF ReleaseInv
<1>2. /\ {"articles", "chunks", "binding", "review", "manifest"} \subseteq DOMAIN canon
      /\ ClaimsHold(canon) /\ canon["manifest"].technical
    BY DEF ReleaseInv, StepHolds, Passed
<1>3. StepHolds(completion', canon, sums)
    BY <1>1, <1>2 DEF StepHolds, Filling, Bound, Declared, Passed, Ready
<1> QED BY <1>1, <1>3, CheckKeepsInv

-----------------------------------------------------------------------------

LEMMA ReleaseInitInv == ReleaseInit => ReleaseInv
  BY DEF ReleaseInit, ReleaseInv, NoCompletion, ClaimsHold, StepHolds,
         Filling, Bound, Declared, Passed, Ready

LEMMA BeginKeepsInv ==
    ASSUME ReleaseInv, NEW s, IsSource(s), NEW ruling \in Rulings, BeginCompletion(s, ruling)
    PROVE  ReleaseInv'
<1>1. {"step", "from", "ruling"} \subseteq DOMAIN completion' /\ completion'.step = "articles"
    BY DEF BeginCompletion
<1>2. UNCHANGED <<canon, sums>>
    BY DEF BeginCompletion
<1>3. FromSource(completion')
    BY DEF BeginCompletion, FromSource
<1>4. StepHolds(completion', canon, sums)
    BY <1>1, <1>3 DEF StepHolds, Filling, Bound, Declared, Passed, Ready
<1> QED BY <1>1, <1>2, <1>4, CheckKeepsInv

LEMMA WriteArticlesKeepsInv == ASSUME ReleaseInv, WriteArticles PROVE ReleaseInv'
<1>1. Goes("chunks") /\ UNCHANGED sums
    BY DEF WriteArticles
<1>2. {"from", "ruling"} \subseteq DOMAIN completion
    BY DEF WriteArticles, Reached, ReleaseInv, StepHolds
<1>3. /\ completion'.step = "chunks" /\ {"from", "ruling"} \subseteq DOMAIN completion'
      /\ completion'.from = completion.from /\ completion'.ruling = completion.ruling
    BY <1>1, <1>2, WentOn DEF ReleaseInv
<1>4. PICK bound : bound = Applied(completion.from.articles, completion.ruling)
    OBVIOUS
<1>5. Write("articles", bound)
    BY <1>4 DEF WriteArticles
<1>6. "articles" \in DOMAIN canon' /\ canon'["articles"] = bound
    BY <1>5, Wrote
<1>7. FromSource(completion')
    BY <1>1, <1>2, WentOn DEF WriteArticles, Reached, ReleaseInv, StepHolds
<1>8. StepHolds(completion', canon', sums)
    BY <1>3, <1>4, <1>6, <1>7 DEF StepHolds, Filling, Bound, Declared, Passed, Ready
<1> QED BY <1>1, <1>8, WriteKeepsInv

\* What is there while the files are filled in, and the file written next
FilledIn ==
    /\ {"from", "ruling"} \subseteq DOMAIN completion
    /\ "articles" \in DOMAIN canon
    /\ canon["articles"] = Applied(completion.from.articles, completion.ruling)

LEMMA FillingHas ==
    ASSUME ReleaseInv, completion.step \in Filling
    PROVE  FilledIn
  BY DEF ReleaseInv, StepHolds, FilledIn

LEMMA FilledOn ==
    ASSUME ReleaseInv, FilledIn, NEW step, Goes(step),
           NEW file, file # "articles", NEW content, Write(file, content)
    PROVE  FilledIn' /\ completion'.step = step
             /\ completion'.from = completion.from /\ completion'.ruling = completion.ruling
<1>1. /\ completion'.step = step /\ {"from", "ruling"} \subseteq DOMAIN completion'
      /\ completion'.from = completion.from /\ completion'.ruling = completion.ruling
    BY WentOn DEF ReleaseInv, FilledIn
<1>2. "articles" \in DOMAIN canon' /\ canon'["articles"] = canon["articles"]
    BY Wrote DEF FilledIn
<1> QED BY <1>1, <1>2 DEF FilledIn

\* The text of the release stays whole when another file is written.
LEMMA WholeOn ==
    ASSUME ReleaseInv, completion.step \in Filling \ {"chunks"},
           NEW file, file \notin {"articles", "chunks"}, NEW content, Write(file, content)
    PROVE  Whole(canon')
<1>1. {"articles", "chunks"} \subseteq DOMAIN canon /\ Whole(canon)
    BY DEF ReleaseInv, StepHolds
<1>2. canon'["articles"] = canon["articles"] /\ canon'["chunks"] = canon["chunks"]
    BY <1>1, Wrote
<1> QED BY <1>1, <1>2 DEF Whole

LEMMA WriteChunksKeepsInv == ASSUME ReleaseInv, WriteChunks PROVE ReleaseInv'
<1>1. Goes("binding") /\ UNCHANGED sums
    BY DEF WriteChunks
<1>2. PICK chunks : Write("chunks", chunks) /\ chunks = Rebuilt(completion.from.chunks, canon["articles"], completion.changed)
    BY DEF WriteChunks
<1>3. FilledIn
    BY FillingHas DEF WriteChunks, Reached, Filling
<1>4. FilledIn' /\ completion'.step = "binding"
    BY <1>1, <1>2, <1>3, FilledOn
<1>5. "chunks" \in DOMAIN canon' /\ canon'["chunks"] = chunks /\ canon'["articles"] = canon["articles"]
    BY <1>2, <1>3, Wrote DEF FilledIn
<1>6. FromSource(completion)
    BY DEF WriteChunks, Reached, ReleaseInv, StepHolds
<1>7. Whole(canon')
  <2>1. UnitsIn(chunks) = UnitsIn(canon["articles"])
      BY <1>2, <1>3, <1>6, RebuiltIsWhole DEF FromSource, IsSource, FilledIn
  <2> QED BY <1>5, <2>1 DEF Whole
<1>8. StepHolds(completion', canon', sums)
    BY <1>4, <1>5, <1>7 DEF FilledIn, StepHolds, Filling, Bound, Declared, Passed, Ready
<1> QED BY <1>1, <1>8, WriteKeepsInv

\* The manifest will claim the exact audit only if it covers these chunks.
LEMMA BindAuditKeepsInv == ASSUME ReleaseInv, BindAudit PROVE ReleaseInv'
<1>1. Goes("review") /\ UNCHANGED sums
    BY DEF BindAudit
<1>2. PICK binding : /\ Write("binding", binding) /\ binding.summary = audited
                     /\ binding.verified = AuditCovers(audited, canon["chunks"])
    BY DEF BindAudit
<1>3. "chunks" \in DOMAIN canon /\ FilledIn
    BY FillingHas DEF BindAudit, Reached, ReleaseInv, StepHolds, Filling
<1>4. /\ DOMAIN canon' = DOMAIN canon \cup {"binding"}
      /\ canon'["chunks"] = canon["chunks"] /\ canon'["binding"] = binding
    BY <1>2, <1>3, Wrote
<1>5. binding.verified => binding.summary.chunks = canon["chunks"] /\ Clean(binding.summary)
    BY <1>2, CoveredClean
<1>6. Binds(canon')
    BY <1>4, <1>5 DEF Binds
<1>7. FilledIn' /\ completion'.step = "review"
    BY <1>1, <1>2, <1>3, FilledOn
<1>8. Whole(canon')
    BY <1>2, WholeOn DEF BindAudit, Reached, Filling
<1>9. StepHolds(completion', canon', sums)
    BY <1>3, <1>4, <1>6, <1>7, <1>8 DEF FilledIn, StepHolds, Filling, Bound, Declared, Passed, Ready
<1> QED BY <1>1, <1>9, WriteKeepsInv

\* The binding, once written, stays the one of these chunks.
LEMMA BoundOn ==
    ASSUME ReleaseInv, completion.step \in Bound,
           NEW file, file \notin {"chunks", "binding"}, NEW content, Write(file, content)
    PROVE  /\ {"chunks", "binding"} \subseteq DOMAIN canon'
           /\ canon'["chunks"] = canon["chunks"] /\ canon'["binding"] = canon["binding"]
           /\ Binds(canon')
<1>1. {"chunks", "binding"} \subseteq DOMAIN canon /\ Binds(canon)
    BY DEF ReleaseInv, StepHolds, Filling, Bound
<1>2. /\ {"chunks", "binding"} \subseteq DOMAIN canon'
      /\ canon'["chunks"] = canon["chunks"] /\ canon'["binding"] = canon["binding"]
    BY <1>1, Wrote
<1> QED BY <1>1, <1>2 DEF Binds

LEMMA WriteReviewKeepsInv == ASSUME ReleaseInv, WriteReview PROVE ReleaseInv'
<1>1. Goes("golden") /\ UNCHANGED sums
    BY DEF WriteReview
<1>2. PICK review : /\ Write("review", review)
                    /\ review.from = completion.from /\ review.ruling = completion.ruling
    BY DEF WriteReview
<1>3. FilledIn /\ completion.step \in Bound
    BY FillingHas DEF WriteReview, Reached, Filling, Bound
<1>4. /\ FilledIn' /\ completion'.step = "golden"
      /\ completion'.from = completion.from /\ completion'.ruling = completion.ruling
    BY <1>1, <1>2, <1>3, FilledOn
<1>5. {"chunks", "binding"} \subseteq DOMAIN canon' /\ Binds(canon')
    BY <1>2, <1>3, BoundOn
<1>6. "review" \in DOMAIN canon' /\ canon'["review"] = review
    BY <1>2, Wrote
<1>7. Whole(canon')
    BY <1>2, WholeOn DEF WriteReview, Reached, Filling
<1>8. StepHolds(completion', canon', sums)
    BY <1>2, <1>4, <1>5, <1>6, <1>7 DEF FilledIn, StepHolds, Filling, Bound, Declared, Passed, Ready
<1> QED BY <1>1, <1>8, WriteKeepsInv

LEMMA RebaseGoldenKeepsInv == ASSUME ReleaseInv, RebaseGolden PROVE ReleaseInv'
<1>1. Goes("manifest") /\ UNCHANGED sums
    BY DEF RebaseGolden
<1>2. PICK content : Write("golden", content)
    BY DEF RebaseGolden
<1>3. FilledIn /\ completion.step \in Bound
    BY FillingHas DEF RebaseGolden, Reached, Filling, Bound
<1>4. /\ FilledIn' /\ completion'.step = "manifest"
      /\ completion'.from = completion.from /\ completion'.ruling = completion.ruling
    BY <1>1, <1>2, <1>3, FilledOn
<1>5. {"chunks", "binding"} \subseteq DOMAIN canon' /\ Binds(canon')
    BY <1>2, <1>3, BoundOn
<1>6. /\ "review" \in DOMAIN canon
      /\ canon["review"].from = completion.from /\ canon["review"].ruling = completion.ruling
    BY DEF RebaseGolden, Reached, ReleaseInv, StepHolds, Bound
<1>7. "review" \in DOMAIN canon' /\ canon'["review"] = canon["review"]
  <2>1. "review" \in DOMAIN canon /\ "review" # "golden"
      BY <1>6
  <2> QED BY <1>2, <2>1, Wrote
<1>8. Whole(canon')
    BY <1>2, WholeOn DEF RebaseGolden, Reached, Filling
<1>9. StepHolds(completion', canon', sums)
    BY <1>4, <1>5, <1>6, <1>7, <1>8 DEF FilledIn, StepHolds, Filling, Bound, Declared, Passed, Ready
<1> QED BY <1>1, <1>9, WriteKeepsInv

\* The gates are checked against the decisions the review file records.
LEMMA WriteGatesKeepsInv == ASSUME ReleaseInv, WriteGates PROVE ReleaseInv'
<1>1. Goes("sums") /\ UNCHANGED sums
    BY DEF WriteGates
<1>2. PICK manifest : /\ Write("manifest", manifest) /\ manifest.exact = canon["binding"].verified
                      /\ manifest.technical = TechnicalGates
    BY DEF WriteGates
<1>3. FilledIn /\ completion.step \in Bound /\ "manifest" \notin {"chunks", "binding"}
    BY FillingHas DEF WriteGates, Reached, Filling, Bound
<1>4. completion'.step = "sums"
    BY <1>1, WentOn DEF ReleaseInv
<1>5. /\ {"chunks", "binding"} \subseteq DOMAIN canon' /\ canon'["chunks"] = canon["chunks"]
      /\ canon'["binding"] = canon["binding"] /\ Binds(canon')
    BY <1>2, <1>3, BoundOn
<1>6. /\ "review" \in DOMAIN canon
      /\ canon["review"].from = completion.from /\ canon["review"].ruling = completion.ruling
    BY DEF WriteGates, Reached, ReleaseInv, StepHolds, Bound
<1>7. /\ {"articles", "review", "manifest"} \subseteq DOMAIN canon'
      /\ canon'["review"] = canon["review"] /\ canon'["articles"] = canon["articles"]
      /\ canon'["manifest"] = manifest
  <2>1. {"articles", "review"} \subseteq DOMAIN canon
      BY <1>3, <1>6 DEF FilledIn
  <2>2. Write("manifest", manifest)
      BY <1>2
  <2>3. DOMAIN canon' = DOMAIN canon \cup {"manifest"} /\ canon'["manifest"] = manifest
      BY <2>2, Wrote
  <2>4. \A f \in DOMAIN canon : f # "manifest" => canon'[f] = canon[f]
      BY <2>2, Wrote
  <2> QED BY <2>1, <2>3, <2>4
<1>8. canon'["articles"] = Applied(canon'["review"].from.articles, canon'["review"].ruling)
    BY <1>3, <1>6, <1>7 DEF FilledIn
<1>9. canon'["manifest"].exact = canon'["binding"].verified /\ Binds(canon')
    BY <1>2, <1>5, <1>7
<1>10. TechnicalGates =>
          \A c \in canon["chunks"] : \A p \in Paths(c.units) : ~Excluded(p, completion.ruling)
    BY DEF TechnicalGates, Traceable, ExclusionsAbsent
<1>11. canon'["manifest"].technical =>
          \A c \in canon'["chunks"] : \A p \in Paths(c.units) : ~Excluded(p, canon'["review"].ruling)
    BY <1>2, <1>5, <1>6, <1>7, <1>10
<1>12. Whole(canon')
    BY <1>2, WholeOn DEF WriteGates, Reached, Filling
<1>13. ClaimsHold(canon')
    BY <1>8, <1>9, <1>11, <1>12 DEF ClaimsHold
<1>14. StepHolds(completion', canon', sums)
    BY <1>4, <1>5, <1>7, <1>13 DEF StepHolds, Filling, Bound, Declared, Passed, Ready
<1> QED BY <1>1, <1>14, WriteKeepsInv

-----------------------------------------------------------------------------

LEMMA DeclaredHas ==
    ASSUME ReleaseInv, completion.step \in Declared
    PROVE  {"articles", "chunks", "binding", "review", "manifest"} \subseteq DOMAIN canon /\ ClaimsHold(canon)
  BY DEF ReleaseInv, StepHolds

LEMMA WriteSumsKeepsInv == ASSUME ReleaseInv, WriteSums PROVE ReleaseInv'
<1>1. {"articles", "chunks", "binding", "review", "manifest"} \subseteq DOMAIN canon /\ ClaimsHold(canon)
    BY DeclaredHas DEF WriteSums, Reached, Declared
<1>2. UNCHANGED canon /\ sums' = canon
    BY DEF WriteSums
<1>3. ClaimsHold(sums')
    BY <1>1, <1>2
<1>4. CASE canon["manifest"].technical
  <2>1. Goes("check")
      BY <1>4 DEF WriteSums
  <2>2. "step" \in DOMAIN completion' /\ completion'.step = "check"
      BY <2>1, WentOn DEF ReleaseInv
  <2>3. StepHolds(completion', canon, canon)
      BY <1>1, <1>4, <2>2 DEF StepHolds, Filling, Bound, Declared, Passed, Ready
  <2> QED BY <1>2, <1>3, <2>2, <2>3, CompletionKeepsInv
<1>5. CASE ~canon["manifest"].technical
  <2>1. Ends("failed")
      BY <1>5 DEF WriteSums
  <2> QED BY <1>2, <1>3, <2>1, StoppedHolds, CompletionKeepsInv
<1> QED BY <1>4, <1>5

LEMMA CheckGoldenKeepsInv == ASSUME ReleaseInv, CheckGolden PROVE ReleaseInv'
<1>1. UNCHANGED <<canon, sums>>
    BY DEF CheckGolden
<1>2. completion.step \in Passed \ Ready /\ "preflight" \in Passed \ Ready
    BY DEF CheckGolden, Reached, Passed, Declared, Ready
<1>3. Goes("preflight") \/ Ends("failed")
    BY DEF CheckGolden
<1> QED BY <1>1, <1>2, <1>3, PassedKeepsInv, StoppedKeepsInv

LEMMA PreflightKeepsInv == ASSUME ReleaseInv, Preflight PROVE ReleaseInv'
<1>1. UNCHANGED <<canon, sums>>
    BY DEF Preflight
<1>2. completion.step \in Passed \ Ready /\ "readiness" \in Passed \ Ready
    BY DEF Preflight, Reached, Passed, Declared, Ready
<1>3. Goes("readiness") \/ Ends("failed")
    BY DEF Preflight
<1> QED BY <1>1, <1>2, <1>3, PassedKeepsInv, StoppedKeepsInv

LEMMA WriteReadinessKeepsInv == ASSUME ReleaseInv, WriteReadiness PROVE ReleaseInv'
<1>1. UNCHANGED sums
    BY DEF WriteReadiness
<1>2. CASE Ends("failed") /\ UNCHANGED canon
    BY <1>1, <1>2, StoppedKeepsInv
<1>3. CASE /\ canon["manifest"].exact /\ Goes("seal")
           /\ Write("readiness", canon["chunks"])
  <2>1. /\ {"articles", "chunks", "binding", "review", "manifest"} \subseteq DOMAIN canon
        /\ ClaimsHold(canon) /\ canon["manifest"].technical
      BY DeclaredHas DEF WriteReadiness, Reached, ReleaseInv, StepHolds, Declared, Passed
  <2>2. PICK chunks : chunks = canon["chunks"]
      OBVIOUS
  <2>3. Write("readiness", chunks)
      BY <1>3, <2>2
  <2>4. /\ DOMAIN canon' = DOMAIN canon \cup {"readiness"} /\ canon'["readiness"] = chunks
        /\ canon'["chunks"] = canon["chunks"] /\ canon'["manifest"] = canon["manifest"]
        /\ canon'["articles"] = canon["articles"] /\ canon'["review"] = canon["review"]
        /\ canon'["binding"] = canon["binding"]
    <3>1. DOMAIN canon' = DOMAIN canon \cup {"readiness"} /\ canon'["readiness"] = chunks
        BY <2>3, Wrote
    <3>2. \A f \in DOMAIN canon : f # "readiness" => canon'[f] = canon[f]
        BY <2>3, Wrote
    <3> QED BY <2>1, <3>1, <3>2
  <2>5. ClaimsHold(canon')
      BY <2>1, <2>4 DEF ClaimsHold, Binds, Whole
  <2>6. completion'.step = "seal"
      BY <1>3, WentOn DEF ReleaseInv
  <2>7. StepHolds(completion', canon', sums)
      BY <1>3, <2>1, <2>2, <2>4, <2>5, <2>6 DEF StepHolds, Filling, Bound, Declared, Passed, Ready
  <2> QED BY <1>1, <1>3, <2>7, WriteKeepsInv
<1> QED BY <1>2, <1>3 DEF WriteReadiness

LEMMA ReadyHas ==
    ASSUME ReleaseInv, completion.step \in Ready
    PROVE  /\ {"articles", "chunks", "binding", "review", "manifest", "readiness"} \subseteq DOMAIN canon
           /\ ClaimsHold(canon) /\ canon["manifest"].technical /\ canon["manifest"].exact
           /\ canon["readiness"] = canon["chunks"]
  BY DEF ReleaseInv, StepHolds, Declared, Passed, Ready

LEMMA SealKeepsInv == ASSUME ReleaseInv, Seal PROVE ReleaseInv'
<1>1. UNCHANGED canon /\ sums' = canon /\ Goes("verify")
    BY DEF Seal
<1>2. completion.step \in Ready
    BY DEF Seal, Reached, Ready
<1>3. "step" \in DOMAIN completion' /\ completion'.step = "verify"
    BY <1>1, WentOn DEF ReleaseInv
<1>4. StepHolds(completion', canon, canon)
    BY <1>2, <1>3, ReadyHas DEF StepHolds, Filling, Bound, Declared, Passed, Ready
<1> QED BY <1>1, <1>2, <1>3, <1>4, ReadyHas, CompletionKeepsInv

LEMMA VerifySealKeepsInv == ASSUME ReleaseInv, VerifySeal PROVE ReleaseInv'
<1>1. UNCHANGED <<canon, sums>>
    BY DEF VerifySeal
<1>2. completion.step \in Ready
    BY DEF VerifySeal, Reached, Ready
<1>3. CASE sums = canon /\ Ends("released")
  <2>1. "step" \in DOMAIN completion' /\ completion'.step = "released"
      BY <1>3 DEF Ends
  <2>2. StepHolds(completion', canon, sums)
      BY <1>2, <1>3, <2>1, ReadyHas DEF StepHolds, Filling, Bound, Declared, Passed, Ready
  <2> QED BY <1>1, <2>1, <2>2, CheckKeepsInv
<1>4. CASE Ends("failed")
    BY <1>1, <1>4, StoppedKeepsInv
<1> QED BY <1>3, <1>4 DEF VerifySeal

\* A source release is whole when it gets its name, and never changes.
SourcesAreWhole == \A s \in sourceReleases : IsSource(s)

LEMMA SourcesStayWhole == ASSUME SourcesAreWhole, [ReleaseNext]_releaseVars PROVE SourcesAreWhole'
<1>1. CASE PublishSource
    BY <1>1, StagedIsSource DEF PublishSource, SourcesAreWhole
<1>2. ASSUME NEW s \in sourceReleases, VerifyProvenance(s) PROVE SourcesAreWhole'
  <2>1. PICK v : v = [s EXCEPT !.verified = TRUE]
      OBVIOUS
  <2>2. IsSource(s)
      BY DEF SourcesAreWhole
  <2>3. DOMAIN v = DOMAIN s /\ v.articles = s.articles /\ v.chunks = s.chunks
      BY <2>1, <2>2 DEF IsSource
  <2>4. IsSource(v)
      BY <2>2, <2>3 DEF IsSource
  <2>5. sourceReleases' = (sourceReleases \ {s}) \cup {v}
      BY <1>2, <2>1 DEF VerifyProvenance
  <2> QED BY <2>4, <2>5 DEF SourcesAreWhole
<1>3. CASE UNCHANGED sourceReleases
    BY <1>3 DEF SourcesAreWhole
<1>4. CASE \/ ExtractDocx \/ HashDocx \/ SnapshotDocx \/ CopyDocx \/ AbandonBuild \/ ReplaceDocx
           \/ UNCHANGED releaseVars \/ \E s \in sourceReleases : AuditSource(s)
           \/ LoadChunks \/ HashChunks \/ WriteAudit
           \/ \E s \in sourceReleases, ruling \in Rulings : BeginCompletion(s, ruling)
    BY <1>3, <1>4 DEF ExtractDocx, HashDocx, SnapshotDocx, CopyDocx, AbandonBuild, ReplaceDocx, AuditSource,
                      LoadChunks, HashChunks, WriteAudit, BeginCompletion, releaseVars
<1>5. CASE \/ WriteArticles \/ WriteChunks \/ BindAudit \/ WriteReview \/ RebaseGolden \/ WriteGates \/ WriteSums
           \/ CheckGolden \/ Preflight \/ WriteReadiness \/ Seal \/ VerifySeal \/ AbandonCompletion
    BY <1>3, <1>5 DEF WriteArticles, WriteChunks, BindAudit, WriteReview, RebaseGolden, WriteGates, WriteSums,
                      CheckGolden, Preflight, WriteReadiness, Seal, VerifySeal, AbandonCompletion
<1> QED BY <1>1, <1>2, <1>4, <1>5 DEF ReleaseNext

LEMMA ReleaseNextKeepsInv ==
    ASSUME ReleaseInv, SourcesAreWhole, [ReleaseNext]_releaseVars
    PROVE  ReleaseInv'
<1>1. CASE \/ ExtractDocx \/ HashDocx \/ SnapshotDocx \/ CopyDocx \/ PublishSource
           \/ AbandonBuild \/ ReplaceDocx \/ UNCHANGED releaseVars
           \/ \E s \in sourceReleases : VerifyProvenance(s)
           \/ \E s \in sourceReleases : AuditSource(s)
           \/ LoadChunks \/ HashChunks \/ WriteAudit
  <2>1. UNCHANGED <<canon, sums, completion>>
      BY <1>1 DEF ExtractDocx, HashDocx, SnapshotDocx, CopyDocx, PublishSource, AbandonBuild,
                  ReplaceDocx, VerifyProvenance, AuditSource, LoadChunks, HashChunks, WriteAudit,
                  releaseVars
  <2> QED BY <2>1, BuilderKeepsInv
<1>2. CASE \E s \in sourceReleases, ruling \in Rulings : BeginCompletion(s, ruling)
    BY <1>2, BeginKeepsInv DEF SourcesAreWhole
<1>3. CASE WriteArticles
    BY <1>3, WriteArticlesKeepsInv
<1>4. CASE WriteChunks
    BY <1>4, WriteChunksKeepsInv
<1>5. CASE BindAudit
    BY <1>5, BindAuditKeepsInv
<1>6. CASE WriteReview
    BY <1>6, WriteReviewKeepsInv
<1>7. CASE RebaseGolden
    BY <1>7, RebaseGoldenKeepsInv
<1>8. CASE WriteGates
    BY <1>8, WriteGatesKeepsInv
<1>9. CASE WriteSums
    BY <1>9, WriteSumsKeepsInv
<1>10. CASE CheckGolden
    BY <1>10, CheckGoldenKeepsInv
<1>11. CASE Preflight
    BY <1>11, PreflightKeepsInv
<1>12. CASE WriteReadiness
    BY <1>12, WriteReadinessKeepsInv
<1>13. CASE Seal
    BY <1>13, SealKeepsInv
<1>14. CASE VerifySeal
    BY <1>14, VerifySealKeepsInv
<1>15. CASE AbandonCompletion
    BY <1>15, StoppedKeepsInv DEF AbandonCompletion
<1> QED
  BY <1>1, <1>2, <1>3, <1>4, <1>5, <1>6, <1>7, <1>8, <1>9, <1>10, <1>11, <1>12, <1>13, <1>14,
     <1>15 DEF ReleaseNext

\* The inductive invariant holds for any sources, decisions and audits, and
\* wherever runs die.
THEOREM ReleaseInvariance == ReleaseSpec => []ReleaseInv
<1>1. ReleaseInit => ReleaseInv /\ SourcesAreWhole
    BY ReleaseInitInv DEF ReleaseInit, SourcesAreWhole
<1>2. ReleaseInv /\ SourcesAreWhole /\ [ReleaseNext]_releaseVars => ReleaseInv' /\ SourcesAreWhole'
    BY ReleaseNextKeepsInv, SourcesStayWhole
<1> QED BY <1>1, <1>2, PTL DEF ReleaseSpec

LEMMA ReleasedIsReady ==
    ASSUME ReleaseInv, Reached("released")
    PROVE  /\ Sealed /\ canon["manifest"].exact /\ canon["manifest"].technical
           /\ canon["readiness"] = canon["chunks"]
<1>1. completion.step \in Ready
    BY DEF Reached, Ready
<1>2. sums = canon
    BY DEF Reached, ReleaseInv, StepHolds
<1> QED BY <1>1, <1>2, ReadyHas DEF Sealed, Holds

\* What the script lets through is sealed, passed its technical gates and is
\* what its readiness report is about.  Like every sealed release that claims
\* the exact audit it is bound to a summary of its own chunks, and holds no text
\* too long for the embedding model unless they changed between the two reads of
\* that audit (audit_e5_token_lengths.py, run_canonical_completion.sh).
THEOREM ReleasesFitTheModel == ReleaseSpec => []AuditCoversRelease
<1>1. ReleaseInv => AuditCoversRelease
  <2> SUFFICES ASSUME ReleaseInv PROVE AuditCoversRelease
      OBVIOUS
  <2>1. Sealed => ClaimsHold(canon) /\ "manifest" \in DOMAIN canon
      BY DEF ReleaseInv, Sealed, Holds
  <2>2. Sealed /\ canon["manifest"].exact =>
            canon["binding"].summary.chunks = canon["chunks"] /\ Clean(canon["binding"].summary)
      BY <2>1 DEF ClaimsHold, Binds
  <2>3. Reached("released") =>
            /\ Sealed /\ canon["manifest"].exact /\ canon["manifest"].technical
            /\ canon["readiness"] = canon["chunks"]
      BY ReleasedIsReady
  <2>4. (Sealed /\ canon["manifest"].exact) \/ Reached("released") =>
            canon["binding"].summary.chunks = canon["chunks"] /\ Clean(canon["binding"].summary)
      BY <2>2, <2>3
  <2> QED BY <2>3, <2>4 DEF AuditCoversRelease, Clean
<1> QED BY <1>1, ReleaseInvariance, PTL

\* A release that agrees with its checksums is of one build: it holds the articles
\* of the source it names after the decisions it records, its chunks carry exactly
\* the text of these articles, and as a technical candidate it holds nothing that
\* was decided to be without effect, wherever runs died before
\* (complete_canonical_corpus.py, run_canonical_completion.sh).
THEOREM SealedBelongsTogether == ReleaseSpec => []SealedIsOneBuild
<1>1. ReleaseInv => SealedIsOneBuild
  <2>1. ReleaseInv => SealedAsDecided
      BY DEF ReleaseInv, ClaimsHold, Sealed, Holds, SealedAsDecided
  <2>2. ReleaseInv => SealedTextIsWhole
      BY DEF ReleaseInv, ClaimsHold, Sealed, Holds, SealedTextIsWhole, Whole, UnitsIn
  <2> QED BY <2>1, <2>2 DEF SealedIsOneBuild
<1> QED BY <1>1, ReleaseInvariance, PTL

-----------------------------------------------------------------------------
(* Numbers                                                                   *)

LEMMA LeastNumber ==
    ASSUME NEW T, T \subseteq Nat, T # {}
    PROVE  \E x \in T : \A y \in T : x <= y
<1>1. PICK W : W = {0..x : x \in T}
    OBVIOUS
<1>2. W \subseteq FiniteSubsetsOf(Nat)
  <2>1. ASSUME NEW x \in T
        PROVE  0..x \in FiniteSubsetsOf(Nat)
    <3>1. x \in Int /\ 0 \in Int
        OBVIOUS
    <3>2. IsFiniteSet(0..x)
        BY <3>1, FS_Interval
    <3> QED BY <3>2 DEF FiniteSubsetsOf
  <2> QED BY <1>1, <2>1
<1>3. W # {}
    BY <1>1
<1>4. PICK w \in W : \A v \in W : ~(<<v, w>> \in StrictSubsetOrdering(Nat))
    BY <1>2, <1>3, FS_StrictSubsetOrderingWellFounded, WFMin
<1>5. PICK x \in T : w = 0..x
    BY <1>1
<1>6. ASSUME NEW y \in T
      PROVE  x <= y
  <2>1. 0..y \in W /\ 0..y \in SUBSET Nat /\ 0..x \in SUBSET Nat
      BY <1>1
  <2>2. ASSUME y < x
        PROVE  FALSE
    <3>1. 0..y \subseteq 0..x
        BY <2>2
    <3>2. x \in 0..x /\ x \notin 0..y
        BY <2>2
    <3>3. <<0..y, 0..x>> \in StrictSubsetOrdering(Nat)
        BY <2>1, <3>1, <3>2 DEF StrictSubsetOrdering
    <3> QED BY <1>4, <1>5, <2>1, <3>3
  <2> QED BY <2>2
<1> QED BY <1>6

LEMMA LastNumber ==
    ASSUME NEW n \in Nat, NEW T, T \subseteq 1..n, T # {}
    PROVE  \E x \in T : \A y \in T : y <= x
<1>1. PICK U : U = {n - x : x \in T}
    OBVIOUS
<1>2. U \subseteq Nat /\ U # {}
  <2>1. \A x \in T : n - x \in Nat
      OBVIOUS
  <2> QED BY <1>1, <2>1
<1>3. PICK u \in U : \A v \in U : u <= v
    BY <1>2, LeastNumber
<1>4. PICK x \in T : u = n - x
    BY <1>1
<1>5. ASSUME NEW y \in T PROVE y <= x
  <2>1. n - y \in U
      BY <1>1
  <2> QED BY <2>1, <1>3, <1>4
<1> QED BY <1>5

-----------------------------------------------------------------------------
(* WordDocument                                                              *)

WordSpec == WordInit /\ [][ReadNext]_wordVars

\* Whether a paragraph is counted for a list and a level, and whether it makes
\* them start again
Counts(p, list, level) == Numbered(p) /\ ListOf(p) = list /\ LevelOf(p) = level
Clears(p, list, level) == Numbered(p) /\ ListOf(p) = list /\ Restarts(list, level, LevelOf(p))

Clearings(w, i, list, level) == {j \in 1..i : Clears(w[j], list, level)}
Latest(places) == IF places = {} THEN 0 ELSE CHOOSE j \in places : \A k \in places : k <= j
ClearedAt(w, i, list, level) == Latest(Clearings(w, i, list, level))
CountedAt(w, i, list, level) == {j \in (ClearedAt(w, i, list, level) + 1)..i : Counts(w[j], list, level)}
CountIn(w, i, list, level) == Cardinality(CountedAt(w, i, list, level))

LEMMA CountedDef ==
    ASSUME NEW i, NEW list, NEW level
    PROVE  Counted(i, list, level) = CountIn(word, i, list, level)
<1>1. ASSUME NEW j PROVE Resets(j, list, level) <=> Clears(word[j], list, level)
    BY DEF Resets, Clears, Restarts
<1>2. {j \in 1..i : Resets(j, list, level)} = Clearings(word, i, list, level)
    BY <1>1 DEF Clearings
<1> QED BY <1>2 DEF Counted, CountIn, CountedAt, ClearedAt, Latest, Counts

LEMMA CountedPrimed ==
    ASSUME NEW i, NEW list, NEW level
    PROVE  Counted(i, list, level)' = CountIn(word', i, list, level)
<1>1. ASSUME NEW j PROVE Resets(j, list, level)' <=> Clears(word'[j], list, level)
    BY DEF Resets, Clears, Restarts, Numbered, ListOf, LevelOf
<1>2. {j \in 1..i : Resets(j, list, level)'} = Clearings(word', i, list, level)
    BY <1>1 DEF Clearings
<1> QED BY <1>2 DEF Counted, CountIn, CountedAt, ClearedAt, Latest, Counts

LEMMA ClearedBefore ==
    ASSUME NEW w, NEW i \in Nat, NEW list, NEW level
    PROVE  ClearedAt(w, i, list, level) \in 0..i
<1>1. CASE Clearings(w, i, list, level) = {}
    BY <1>1 DEF ClearedAt, Latest
<1>2. CASE Clearings(w, i, list, level) # {}
  <2>1. Clearings(w, i, list, level) \subseteq 1..i
      BY DEF Clearings
  <2>2. \E x \in Clearings(w, i, list, level) : \A y \in Clearings(w, i, list, level) : y <= x
      BY <1>2, <2>1, LastNumber
  <2>3. ClearedAt(w, i, list, level) \in Clearings(w, i, list, level)
      BY <1>2, <2>2 DEF ClearedAt, Latest
  <2> QED BY <2>1, <2>3
<1> QED BY <1>1, <1>2

LEMMA CountIsFinite ==
    ASSUME NEW w, NEW i \in Nat, NEW list, NEW level
    PROVE  IsFiniteSet(CountedAt(w, i, list, level)) /\ CountIn(w, i, list, level) \in Nat
<1>1. ClearedAt(w, i, list, level) \in 0..i
    BY ClearedBefore
<1>2. CountedAt(w, i, list, level) \subseteq 1..i
    BY <1>1 DEF CountedAt
<1>3. IsFiniteSet(1..i)
    BY FS_Interval
<1> QED BY <1>2, <1>3, FS_Subset, FS_CardinalityType DEF CountIn

\* The count of a place depends on what was read up to there alone.
LEMMA CountOfPrefix ==
    ASSUME NEW w, NEW v, NEW i \in Nat, NEW list, NEW level, \A j \in 1..i : w[j] = v[j]
    PROVE  CountIn(w, i, list, level) = CountIn(v, i, list, level)
<1>1. Clearings(w, i, list, level) = Clearings(v, i, list, level)
    BY DEF Clearings
<1>2. ClearedAt(w, i, list, level) = ClearedAt(v, i, list, level)
    BY <1>1 DEF ClearedAt
<1>3. ClearedAt(w, i, list, level) \in 0..i
    BY ClearedBefore
<1>4. CountedAt(w, i, list, level) = CountedAt(v, i, list, level)
    BY <1>2, <1>3 DEF CountedAt
<1> QED BY <1>4 DEF CountIn

LEMMA CountAfter ==
    ASSUME NEW w, NEW i \in Nat, NEW list, NEW level, LevelOf(w[i + 1]) \in Int
    PROVE  CountIn(w, i + 1, list, level) =
              IF Counts(w[i + 1], list, level) THEN CountIn(w, i, list, level) + 1
              ELSE IF Clears(w[i + 1], list, level) THEN 0
              ELSE CountIn(w, i, list, level)
<1>1. CASE Clears(w[i + 1], list, level)
  <2>1. ~Counts(w[i + 1], list, level)
      BY <1>1 DEF Counts, Clears, Restarts
  <2>2. i + 1 \in Clearings(w, i + 1, list, level)
      BY <1>1 DEF Clearings
  <2>3. \A k \in Clearings(w, i + 1, list, level) : k \in Int /\ k <= i + 1
      BY DEF Clearings
  <2>4. ClearedAt(w, i + 1, list, level) = i + 1
    <3>1. PICK c : c = ClearedAt(w, i + 1, list, level)
        OBVIOUS
    <3>2. c \in Clearings(w, i + 1, list, level) /\ \A k \in Clearings(w, i + 1, list, level) : k <= c
        BY <2>2, <2>3, <3>1 DEF ClearedAt, Latest
    <3> QED BY <2>2, <2>3, <3>1, <3>2
  <2>5. CountedAt(w, i + 1, list, level) = {}
      BY <2>4 DEF CountedAt
  <2> QED BY <1>1, <2>1, <2>5, FS_EmptySet DEF CountIn
<1>2. CASE ~Clears(w[i + 1], list, level)
  <2>1. Clearings(w, i + 1, list, level) = Clearings(w, i, list, level)
      BY <1>2 DEF Clearings
  <2>2. PICK c : c = ClearedAt(w, i, list, level)
      OBVIOUS
  <2>3. c \in 0..i /\ ClearedAt(w, i + 1, list, level) = c
    <3>1. ClearedAt(w, i, list, level) \in 0..i
        BY ClearedBefore
    <3>2. ClearedAt(w, i + 1, list, level) = ClearedAt(w, i, list, level)
        BY <2>1 DEF ClearedAt
    <3> QED BY <2>2, <3>1, <3>2
  <2>4. CASE Counts(w[i + 1], list, level)
    <3>1. CountedAt(w, i + 1, list, level) = CountedAt(w, i, list, level) \cup {i + 1}
        BY <2>2, <2>3, <2>4 DEF CountedAt
    <3>2. i + 1 \notin CountedAt(w, i, list, level)
        BY <2>2, <2>3 DEF CountedAt
    <3>3. IsFiniteSet(CountedAt(w, i, list, level))
        BY CountIsFinite
    <3> QED BY <2>4, <3>1, <3>2, <3>3, FS_AddElement DEF CountIn
  <2>5. CASE ~Counts(w[i + 1], list, level)
    <3>1. CountedAt(w, i + 1, list, level) = CountedAt(w, i, list, level)
        BY <2>2, <2>3, <2>5 DEF CountedAt
    <3> QED BY <1>2, <2>5, <3>1 DEF CountIn
  <2> QED BY <2>4, <2>5
<1> QED BY <1>1, <1>2

-----------------------------------------------------------------------------

LEMMA StartIsANumber ==
    ASSUME NEW list \in DOMAIN Lists, NEW level, HasLevel(list, level)
    PROVE  Start(list, level) \in Int
BY NumberingAssumption DEF Start, HasLevel, LevelDefinition

\* What is counted of one list and level at the end of what was read
AsCounted(list, level) ==
    LET count == CountIn(word, Len(word), list, level)
    IN  IF count = 0 THEN level \notin DOMAIN counters[list]
        ELSE level \in DOMAIN counters[list] /\ counters[list][level] = Start(list, level) + count - 1

WordShapes ==
    /\ word \in Seq(Paragraphs)
    /\ labels \in Seq(ToSet(labels)) /\ Len(labels) = Len(word)
    /\ counters = [list \in DOMAIN Lists |-> counters[list]]

\* As long as labels are rendered, the counters are those of the whole prefix;
\* a paragraph that cannot be resolved ends the rendering, uncounted.
WordInv ==
    /\ WordShapes
    /\ Renderable(word) => \A list \in DOMAIN Lists : \A level : AsCounted(list, level)
    /\ LabelsAsCounted

LEMMA NoNumbersYet == WordInit => WordInv
<1> SUFFICES ASSUME WordInit PROVE WordInv
    OBVIOUS
<1>1. word = <<>> /\ labels = <<>> /\ counters = [list \in DOMAIN Lists |-> <<>>]
    BY DEF WordInit
<1>2. WordShapes
    BY <1>1 DEF WordShapes, ToSet
<1>3. ASSUME NEW list \in DOMAIN Lists, NEW level
      PROVE  AsCounted(list, level)
  <2>1. Clearings(word, 0, list, level) = {}
      BY DEF Clearings
  <2>2. ClearedAt(word, 0, list, level) = 0
      BY <2>1 DEF ClearedAt, Latest
  <2>3. CountedAt(word, 0, list, level) = {}
      BY <2>2 DEF CountedAt
  <2>4. CountIn(word, 0, list, level) = 0
      BY <2>3, FS_EmptySet DEF CountIn
  <2>5. Len(word) = 0 /\ DOMAIN counters[list] = {}
      BY <1>1
  <2> QED BY <2>4, <2>5 DEF AsCounted
<1>4. LabelsAsCounted
    BY <1>1 DEF LabelsAsCounted
<1> QED BY <1>2, <1>3, <1>4 DEF WordInv

\* One more paragraph: the count at each earlier place stays what it was.
LEMMA OneMoreParagraph ==
    ASSUME WordShapes, NEW p \in Paragraphs, word' = Append(word, p)
    PROVE  /\ Len(word) \in Nat /\ word' \in Seq(Paragraphs) /\ Len(word') = Len(word) + 1
           /\ \A i \in 1..Len(word) : word'[i] = word[i]
           /\ word'[Len(word) + 1] = p
           /\ \A i \in 0..Len(word) : \A list, level : CountIn(word', i, list, level) = CountIn(word, i, list, level)
           /\ \A list, level : CountIn(word', Len(word) + 1, list, level) =
                  IF Counts(p, list, level) THEN CountIn(word, Len(word), list, level) + 1
                  ELSE IF Clears(p, list, level) THEN 0
                  ELSE CountIn(word, Len(word), list, level)
<1>1. /\ Len(word) \in Nat /\ word' \in Seq(Paragraphs) /\ Len(word') = Len(word) + 1
      /\ \A i \in 1..Len(word) : word'[i] = word[i]
      /\ word'[Len(word) + 1] = p
    BY AppendProperties DEF WordShapes
<1>2. ASSUME NEW i \in 0..Len(word), NEW list, NEW level
      PROVE  CountIn(word', i, list, level) = CountIn(word, i, list, level)
  <2>1. PICK v : v = word'
      OBVIOUS
  <2>2. i \in Nat /\ \A j \in 1..i : v[j] = word[j]
      BY <1>1, <2>1
  <2>3. CountIn(v, i, list, level) = CountIn(word, i, list, level)
      BY <2>2, CountOfPrefix
  <2> QED BY <2>1, <2>3
<1>3. ASSUME NEW list, NEW level
      PROVE  CountIn(word', Len(word) + 1, list, level) =
                  IF Counts(p, list, level) THEN CountIn(word, Len(word), list, level) + 1
                  ELSE IF Clears(p, list, level) THEN 0
                  ELSE CountIn(word, Len(word), list, level)
  <2>1. PICK v, n : v = word' /\ n = Len(word)
      OBVIOUS
  <2>2. n \in Nat /\ v[n + 1] = p /\ LevelOf(v[n + 1]) \in Int
      BY <1>1, <2>1, NumberingAssumption
  <2>3. CountIn(v, n, list, level) = CountIn(word, n, list, level)
      BY <1>1, <1>2, <2>1, <2>2
  <2>4. CountIn(v, n + 1, list, level) =
                  IF Counts(v[n + 1], list, level) THEN CountIn(v, n, list, level) + 1
                  ELSE IF Clears(v[n + 1], list, level) THEN 0
                  ELSE CountIn(v, n, list, level)
      BY <2>2, CountAfter
  <2> QED BY <2>1, <2>2, <2>3, <2>4
<1> QED BY <1>1, <1>2, <1>3

\* A label says what was counted.
SaysCounted(w, label, i) ==
    label # NoValue =>
        LET list == ListOf(w[i])
            refs == LevelDefinition(list, LevelOf(w[i])).refs
        IN  \A r \in DOMAIN refs :
               label.numbers[r] =
                   Start(list, refs[r])
                     + (IF CountIn(w, i, list, refs[r]) = 0 THEN 0 ELSE CountIn(w, i, list, refs[r]) - 1)

LEMMA LabelsSay == LabelsAsCounted <=> \A i \in DOMAIN labels : SaysCounted(word, labels[i], i)
BY CountedDef DEF LabelsAsCounted, SaysCounted

LEMMA LabelsSayPrimed == LabelsAsCounted' <=> \A i \in DOMAIN labels' : SaysCounted(word', labels'[i], i)
BY CountedPrimed DEF LabelsAsCounted, SaysCounted

\* A label that is added says what was counted; the others are left alone.
LEMMA OneMoreLabel ==
    ASSUME WordInv, NEW p \in Paragraphs, word' = Append(word, p), NEW label, labels' = Append(labels, label),
           SaysCounted(word', label, Len(word) + 1)
    PROVE  /\ LabelsAsCounted'
           /\ labels' \in Seq(ToSet(labels')) /\ Len(labels') = Len(word')
<1>1. /\ Len(word) \in Nat /\ Len(word') = Len(word) + 1
      /\ \A i \in 1..Len(word) : word'[i] = word[i]
      /\ \A i \in 0..Len(word) : \A list, level : CountIn(word', i, list, level) = CountIn(word, i, list, level)
    BY OneMoreParagraph DEF WordInv
<1>2. /\ labels' \in Seq(ToSet(labels')) /\ Len(labels') = Len(labels) + 1
      /\ DOMAIN labels = 1..Len(labels) /\ DOMAIN labels' = 1..(Len(labels) + 1)
      /\ \A i \in 1..Len(labels) : labels'[i] = labels[i]
      /\ labels'[Len(labels) + 1] = label
    BY Appended DEF WordInv, WordShapes
<1>3. Len(labels) = Len(word)
    BY DEF WordInv, WordShapes
<1>4. ASSUME NEW i \in 1..Len(word)
      PROVE  SaysCounted(word', labels'[i], i)
  <2>1. SaysCounted(word, labels[i], i)
      BY <1>2, <1>3, LabelsSay DEF WordInv
  <2>2. word'[i] = word[i] /\ labels'[i] = labels[i] /\ i \in 0..Len(word)
      BY <1>1, <1>2, <1>3
  <2> QED BY <1>1, <2>1, <2>2 DEF SaysCounted
<1>5. \A i \in DOMAIN labels' : SaysCounted(word', labels'[i], i)
    BY <1>1, <1>2, <1>3, <1>4
<1> QED BY <1>1, <1>2, <1>3, <1>5, LabelsSayPrimed

\* The counters of a list after a paragraph of it
LEMMA OneMoreCount ==
    ASSUME WordInv, Renderable(word), NEW p \in Paragraphs, word' = Append(word, p), Numbered(p),
           ListOf(p) \in DOMAIN Lists, HasLevel(ListOf(p), LevelOf(p)),
           counters' = [counters EXCEPT ![ListOf(p)] = Advanced(ListOf(p), LevelOf(p))]
    PROVE  /\ counters' = [list \in DOMAIN Lists |-> counters'[list]]
           /\ \A list \in DOMAIN Lists : \A level : AsCounted(list, level)'
<1> PICK one, depth : one = ListOf(p) /\ depth = LevelOf(p)
    OBVIOUS
<1>1. /\ Len(word) \in Nat /\ Len(word') = Len(word) + 1
      /\ \A list, level : CountIn(word', Len(word) + 1, list, level) =
                  IF Counts(p, list, level) THEN CountIn(word, Len(word), list, level) + 1
                  ELSE IF Clears(p, list, level) THEN 0
                  ELSE CountIn(word, Len(word), list, level)
    BY OneMoreParagraph DEF WordInv
<1>2. /\ counters' = [list \in DOMAIN Lists |-> counters'[list]]
      /\ counters'[one] = Advanced(one, depth)
      /\ \A list \in DOMAIN Lists : list # one => counters'[list] = counters[list]
    BY DEF WordInv, WordShapes
<1>3. ASSUME NEW list \in DOMAIN Lists, NEW level
      PROVE  AsCounted(list, level)'
  <2>0. PICK before, after : before = CountIn(word, Len(word), list, level) /\ after = CountIn(word', Len(word'), list, level)
      OBVIOUS
  <2>1. before \in Nat
      BY <1>1, <2>0, CountIsFinite
  <2>2. /\ before = 0 => level \notin DOMAIN counters[list]
        /\ before # 0 => level \in DOMAIN counters[list] /\ counters[list][level] = Start(list, level) + before - 1
      BY <2>0 DEF WordInv, AsCounted
  <2>3. after = IF Counts(p, list, level) THEN before + 1 ELSE IF Clears(p, list, level) THEN 0 ELSE before
      BY <1>1, <2>0
  <2>4. CASE list # one
    <3>1. after = before /\ counters'[list] = counters[list]
        BY <1>2, <2>3, <2>4 DEF Counts, Clears
    <3> QED BY <2>0, <2>2, <3>1 DEF AsCounted
  <2>5. CASE list = one
    <3>1. PICK now : now = counters[one]
        OBVIOUS
    <3>2. PICK next : next = IF depth \in DOMAIN now THEN now[depth] + 1 ELSE Start(one, depth)
        OBVIOUS
    <3>3. PICK kept : kept = {l \in DOMAIN now : ~Restarts(one, l, depth)} \cup {depth}
        OBVIOUS
    <3>4. counters'[list] = [l \in kept |-> IF l = depth THEN next ELSE now[l]]
        BY <1>2, <2>5, <3>1, <3>2, <3>3 DEF Advanced
    <3>5. Counts(p, list, level) <=> level = depth
        BY <2>5 DEF Counts
    <3>6. Clears(p, list, level) <=> Restarts(one, level, depth)
        BY <2>5 DEF Clears
    <3>7. CASE level = depth
      <4>1. Start(list, level) \in Int
          BY <2>5, <3>7, StartIsANumber
      <4>2. after = before + 1
          BY <2>3, <3>5, <3>7
      <4>3. level \in DOMAIN counters'[list] /\ counters'[list][level] = next
          BY <3>3, <3>4, <3>7
      <4>4. next = Start(list, level) + before
          BY <2>1, <2>2, <2>5, <3>1, <3>2, <3>7, <4>1
      <4>5. after # 0 /\ counters'[list][level] = Start(list, level) + after - 1
          BY <2>1, <4>1, <4>2, <4>3, <4>4
      <4> QED BY <2>0, <4>3, <4>5 DEF AsCounted
    <3>8. CASE level # depth /\ Restarts(one, level, depth)
      <4>1. after = 0 /\ level \notin DOMAIN counters'[list]
          BY <2>3, <3>3, <3>4, <3>5, <3>6, <3>8
      <4> QED BY <2>0, <4>1 DEF AsCounted
    <3>9. CASE level # depth /\ ~Restarts(one, level, depth)
      <4>1. after = before
          BY <2>3, <3>5, <3>6, <3>9
      <4>2. /\ level \in DOMAIN counters'[list] <=> level \in DOMAIN counters[list]
            /\ level \in DOMAIN counters[list] => counters'[list][level] = counters[list][level]
          BY <2>5, <3>1, <3>3, <3>4, <3>9
      <4> QED BY <2>0, <2>2, <4>1, <4>2 DEF AsCounted
    <3> QED BY <3>7, <3>8, <3>9
  <2> QED BY <2>4, <2>5
<1> QED BY <1>2, <1>3

LEMMA ReadParagraphKeeps ==
    ASSUME WordInv, NEW p \in Paragraphs, ReadParagraph(p)
    PROVE  WordInv'
<1>1. /\ reading = Unread /\ word' = Append(word, p)
    BY DEF ReadParagraph
<1>2. word' \in Seq(Paragraphs) /\ Len(word) \in Nat /\ Len(word') = Len(word) + 1 /\ word'[Len(word) + 1] = p
    BY <1>1, OneMoreParagraph DEF WordInv
<1>3. Renderable(word') <=> Renderable(word) /\ Resolvable(p)
  <2>1. /\ DOMAIN word = 1..Len(word) /\ DOMAIN word' = 1..(Len(word) + 1)
        /\ \A i \in 1..Len(word) : word'[i] = word[i]
      BY <1>1, <1>2, OneMoreParagraph DEF WordInv, WordShapes
  <2>2. \A i \in 1..(Len(word) + 1) : i \in 1..Len(word) \/ i = Len(word) + 1
      BY <1>2
  <2> QED BY <1>2, <2>1, <2>2 DEF Renderable
<1>4. CASE labels' = Append(labels, NoValue) /\ counters' = counters /\ ~(Renderable(word') /\ Numbered(p))
  <2>1. SaysCounted(word', NoValue, Len(word) + 1)
      BY DEF SaysCounted
  <2>2. LabelsAsCounted' /\ labels' \in Seq(ToSet(labels')) /\ Len(labels') = Len(word')
      BY <1>1, <1>4, <2>1, OneMoreLabel
  <2>3. counters' = [list \in DOMAIN Lists |-> counters'[list]]
      BY <1>4 DEF WordInv, WordShapes
  <2>4. ASSUME Renderable(word'), NEW list \in DOMAIN Lists, NEW level PROVE AsCounted(list, level)'
    <3>1. AsCounted(list, level) /\ ~Numbered(p)
        BY <1>3, <1>4, <2>4 DEF WordInv
    <3>2. CountIn(word', Len(word'), list, level) = CountIn(word, Len(word), list, level)
        BY <1>1, <1>2, <3>1, OneMoreParagraph DEF WordInv, Counts, Clears
    <3> QED BY <1>4, <3>1, <3>2 DEF AsCounted
  <2> QED BY <1>2, <2>2, <2>3, <2>4 DEF WordInv, WordShapes
<1>5. CASE /\ Renderable(word') /\ Numbered(p)
           /\ counters' = [counters EXCEPT ![ListOf(p)] = Advanced(ListOf(p), LevelOf(p))]
           /\ labels' = Append(labels, Label(ListOf(p), LevelOf(p), counters'[ListOf(p)]))
  <2>1. PICK one, depth, refs : one = ListOf(p) /\ depth = LevelOf(p) /\ refs = LevelDefinition(one, depth).refs
      OBVIOUS
  <2>2. one \in DOMAIN Lists /\ HasLevel(one, depth) /\ \A r \in DOMAIN refs : HasLevel(one, refs[r])
      BY <1>3, <1>5, <2>1 DEF Resolvable, ToSet
  <2>3. /\ counters' = [list \in DOMAIN Lists |-> counters'[list]]
        /\ \A list \in DOMAIN Lists : \A level : AsCounted(list, level)'
      BY <1>1, <1>3, <1>5, <2>1, <2>2, OneMoreCount
  <2>4. PICK label, now : label = Label(one, depth, now) /\ now = counters'[one]
      OBVIOUS
  <2>5. ASSUME NEW r \in DOMAIN refs
        PROVE  label.numbers[r] =
                   Start(one, refs[r])
                     + (IF CountIn(word', Len(word) + 1, one, refs[r]) = 0 THEN 0
                        ELSE CountIn(word', Len(word) + 1, one, refs[r]) - 1)
    <3>1. label.numbers[r] = IF refs[r] \in DOMAIN now THEN now[refs[r]] ELSE Start(one, refs[r])
        BY <2>1, <2>4 DEF Label
    <3>2. Start(one, refs[r]) \in Int
        BY <2>2, StartIsANumber
    <3>3. PICK count : count = CountIn(word', Len(word) + 1, one, refs[r])
        OBVIOUS
    <3>4. count \in Nat
        BY <1>2, <3>3, CountIsFinite
    <3>5. IF count = 0 THEN refs[r] \notin DOMAIN now
          ELSE refs[r] \in DOMAIN now /\ now[refs[r]] = Start(one, refs[r]) + count - 1
      <4>1. AsCounted(one, refs[r])'
          BY <2>2, <2>3
      <4> QED BY <1>2, <2>4, <3>3, <4>1 DEF AsCounted
    <3> QED BY <3>1, <3>2, <3>3, <3>4, <3>5
  <2>6. SaysCounted(word', label, Len(word) + 1)
      BY <1>2, <2>1, <2>5 DEF SaysCounted
  <2>7. labels' = Append(labels, label)
      BY <1>5, <2>1, <2>4
  <2>8. LabelsAsCounted' /\ labels' \in Seq(ToSet(labels')) /\ Len(labels') = Len(word')
      BY <1>1, <2>6, <2>7, OneMoreLabel
  <2> QED BY <1>2, <2>3, <2>8 DEF WordInv, WordShapes
<1> QED BY <1>4, <1>5 DEF ReadParagraph

LEMMA WordInvariance == WordSpec => []WordInv
<1>1. WordInv /\ [ReadNext]_wordVars => WordInv'
  <2> SUFFICES ASSUME WordInv, [ReadNext]_wordVars PROVE WordInv'
      OBVIOUS
  <2>1. ASSUME NEW layout \in Layouts, Len(word) < Len(layout),
               NEW p \in layout[Len(word) + 1], ReadParagraph(p)
        PROVE  WordInv'
    <3>1. Len(word) \in Nat /\ Len(layout) \in Nat
        BY NumberingAssumption DEF WordInv, WordShapes
    <3>2. Len(word) + 1 \in 1..Len(layout)
        BY <2>1, <3>1
    <3>3. p \in Paragraphs
        BY <2>1, <3>2 DEF Paragraphs
    <3> QED BY <2>1, <3>3, ReadParagraphKeeps
  <2>2. CASE BuildArticles \/ (\E titled : ExtractArticles(titled)) \/ UNCHANGED wordVars
    <3>1. word' = word /\ labels' = labels /\ counters' = counters
        BY <2>2 DEF BuildArticles, ExtractArticles, wordVars
    <3>2. WordShapes'
        BY <3>1 DEF WordInv, WordShapes
    <3>3. LabelsAsCounted'
        BY <3>1, LabelsSay, LabelsSayPrimed DEF WordInv
    <3>4. ASSUME NEW list \in DOMAIN Lists, NEW level, Renderable(word)
          PROVE  AsCounted(list, level)'
      <4>1. AsCounted(list, level)
          BY <3>4 DEF WordInv
      <4> QED BY <3>1, <4>1 DEF AsCounted
    <3> QED BY <3>1, <3>2, <3>3, <3>4 DEF WordInv
  <2> QED BY <2>1, <2>2 DEF ReadNext
<1> QED BY <1>1, NoNumbersYet, PTL DEF WordSpec

\* The numbers of the labels that Word shows before a document's paragraphs are
\* those of the document as a whole, for any numbering definitions, styles and
\* documents (docx_numbering.py).
THEOREM LabelsFollowTheDocument == WordSpec => []LabelsAsCounted
<1>1. WordInv => LabelsAsCounted
    BY DEF WordInv
<1> QED BY <1>1, WordInvariance, PTL

-----------------------------------------------------------------------------
(* The main articles of a document                                           *)

\* A function over 0..n that starts with a value and follows a step
Follows(g, S, first, n, step) ==
    g \in [0..n -> S] /\ g[0] = first /\ \A i \in 1..n : g[i] = step[i][g[i - 1]]

\* A recursive function over 0..n is what its equation says: it exists.
LEMMA RecursionExists ==
    ASSUME NEW S, NEW first \in S, NEW n \in Nat, NEW step \in [1..n -> [S -> S]]
    PROVE  \E g : Follows(g, S, first, n, step)
<1>1. PICK bad : bad = {m \in 0..n : ~\E g \in [0..m -> S] :
                           g[0] = first /\ \A i \in 1..m : g[i] = step[i][g[i - 1]]}
    OBVIOUS
<1>2. ASSUME bad # {} PROVE FALSE
  <2>1. PICK m \in bad : \A y \in bad : m <= y
    <3>1. bad \subseteq Nat
        BY <1>1
    <3> QED BY <1>2, <3>1, LeastNumber
  <2>2. m \in 0..n
      BY <1>1
  <2>3. CASE m = 0
    <3>1. PICK g : g = [i \in 0..0 |-> first]
        OBVIOUS
    <3>2. g \in [0..m -> S] /\ g[0] = first
        BY <2>3, <3>1
    <3>3. \A i \in 1..m : g[i] = step[i][g[i - 1]]
        BY <2>3
    <3> QED BY <1>1, <3>2, <3>3
  <2>4. CASE m # 0
    <3>1. m - 1 \in 0..n /\ m - 1 \notin bad
        BY <2>1, <2>2, <2>4
    <3>2. PICK g \in [0..(m - 1) -> S] :
                  g[0] = first /\ \A i \in 1..(m - 1) : g[i] = step[i][g[i - 1]]
        BY <1>1, <3>1
    <3>3. PICK h : h = [i \in 0..m |-> IF i < m THEN g[i] ELSE step[m][g[m - 1]]]
        OBVIOUS
    <3>4. step[m][g[m - 1]] \in S
        BY <2>2, <2>4, <3>1, <3>2
    <3>5. h \in [0..m -> S] /\ h[0] = first
        BY <2>2, <2>4, <3>2, <3>3, <3>4
    <3>6. ASSUME NEW i \in 1..m
          PROVE  h[i] = step[i][h[i - 1]]
      <4>1. h[i - 1] = g[i - 1]
          BY <2>2, <3>3
      <4>2. i < m => i \in 1..(m - 1) /\ h[i] = g[i]
          BY <2>2, <3>3
      <4>3. i = m => h[i] = step[m][g[m - 1]]
          BY <2>2, <3>3
      <4>4. CASE i < m
          BY <3>2, <4>1, <4>2, <4>4
      <4>5. CASE i = m
          BY <4>1, <4>3, <4>5
      <4> QED BY <2>2, <4>4, <4>5
    <3> QED BY <1>1, <3>5, <3>6
  <2> QED BY <2>3, <2>4
<1>3. n \in 0..n
    OBVIOUS
<1>4. \E g \in [0..n -> S] : g[0] = first /\ \A i \in 1..n : g[i] = step[i][g[i - 1]]
    BY <1>1, <1>2, <1>3
<1> QED BY <1>4 DEF Follows

\* Lines as they are read out of a document
IsLines(lines, size) == size \in Nat /\ DOMAIN lines = 1..size /\ Len(lines) = size

LEMMA FoundCounts ==
    ASSUME NEW lines, NEW size, IsLines(lines, size)
    PROVE  /\ FoundBy(lines) \in [0..size -> 0..Wanted]
           /\ FoundBy(lines)[0] = 0
           /\ \A i \in 1..size : FoundBy(lines)[i] =
                 IF IsNext(lines[i], FoundBy(lines)[i - 1]) THEN FoundBy(lines)[i - 1] + 1 ELSE FoundBy(lines)[i - 1]
<1> DEFINE step == [i \in 1..size |-> [found \in 0..Wanted |-> IF IsNext(lines[i], found) THEN found + 1 ELSE found]]
<1>1. step \in [1..size -> [0..Wanted -> 0..Wanted]]
    BY WantedAssumption DEF IsNext
<1>2. 0 \in 0..Wanted /\ size \in Nat
    BY WantedAssumption DEF IsLines
<1>3. PICK s \in [1..size -> [0..Wanted -> 0..Wanted]] : s = step
    BY <1>1
<1>4. PICK g \in [0..size -> 0..Wanted] :
              g[0] = 0 /\ \A i \in 1..size : g[i] = s[i][g[i - 1]]
  <2>1. PICK T, none : T = 0..Wanted /\ none = 0
      OBVIOUS
  <2>2. none \in T
      BY <1>2, <2>1
  <2>4. size \in Nat
      BY <1>2, <2>1
  <2>5. s \in [1..size -> [T -> T]]
      BY <1>2, <1>3, <2>1
  <2>3. PICK g : Follows(g, T, none, size, s)
      BY <2>2, <2>4, <2>5, RecursionExists
  <2>6. g \in [0..size -> 0..Wanted] /\ g[0] = 0 /\ \A i \in 1..size : g[i] = s[i][g[i - 1]]
      BY <2>1, <2>3 DEF Follows
  <2> QED BY <2>6
<1>5. ASSUME NEW i \in 1..size
      PROVE  g[i] = IF IsNext(lines[i], g[i - 1]) THEN g[i - 1] + 1 ELSE g[i - 1]
  <2>1. g[i - 1] \in 0..Wanted
      BY <1>2, <1>4
  <2> QED BY <1>3, <1>4, <2>1
<1>6. g = [i \in 0..size |-> IF i = 0 THEN 0
                             ELSE IF IsNext(lines[i], g[i - 1]) THEN g[i - 1] + 1 ELSE g[i - 1]]
  <2>1. PICK h : h = [i \in 0..size |-> IF i = 0 THEN 0
                             ELSE IF IsNext(lines[i], g[i - 1]) THEN g[i - 1] + 1 ELSE g[i - 1]]
      OBVIOUS
  <2>2. h[0] = g[0]
      BY <1>2, <1>4, <2>1
  <2>3. ASSUME NEW i \in 1..size PROVE g[i] = h[i]
      BY <1>2, <1>5, <2>1
  <2>4. \A i \in 0..size : g[i] = h[i]
      BY <1>2, <2>2, <2>3
  <2>5. DOMAIN g = 0..size /\ DOMAIN h = 0..size /\ g = [i \in 0..size |-> g[i]] /\ h = [i \in 0..size |-> h[i]]
      BY <2>1
  <2> QED BY <2>1, <2>4, <2>5
<1>7. PICK f : f = FoundBy(lines)
    OBVIOUS
<1>8. f = [i \in 0..size |-> IF i = 0 THEN 0
                             ELSE IF IsNext(lines[i], f[i - 1]) THEN f[i - 1] + 1 ELSE f[i - 1]]
    BY <1>6, <1>7 DEF FoundBy, IsLines
<1>9. DOMAIN f = 0..size /\ f[0] = 0
    BY <1>2, <1>8
<1>10. \A i \in 1..size : f[i] = IF IsNext(lines[i], f[i - 1]) THEN f[i - 1] + 1 ELSE f[i - 1]
    BY <1>2, <1>8
<1>11. f = g
  <2> DEFINE Bad == {i \in 0..size : f[i] # g[i]}
  <2>1. ASSUME Bad # {} PROVE FALSE
    <3>1. Bad \subseteq Nat
        OBVIOUS
    <3>2. PICK m \in Bad : \A y \in Bad : m <= y
        BY <2>1, <3>1, LeastNumber
    <3>3. m # 0
        BY <1>4, <1>9, <3>2, <1>2
    <3>4. m \in 1..size /\ m - 1 \in 0..size /\ m - 1 \notin Bad
        BY <3>2, <3>3, <1>2
    <3>5. f[m - 1] = g[m - 1]
        BY <3>4
    <3>6. f[m] = g[m]
        BY <1>5, <1>10, <3>4, <3>5
    <3> QED BY <3>2, <3>6
  <2>2. \A i \in 0..size : f[i] = g[i]
      BY <2>1
  <2>3. f = [i \in 0..size |-> f[i]]
      BY <1>8
  <2>4. g = [i \in 0..size |-> g[i]]
      BY <1>4
  <2> QED BY <2>2, <2>3, <2>4
<1> QED BY <1>4, <1>7, <1>9, <1>10, <1>11

LEMMA FoundGrows ==
    ASSUME NEW lines, NEW size, IsLines(lines, size), NEW i \in 0..size, NEW j \in i..size
    PROVE  FoundBy(lines)[i] <= FoundBy(lines)[j]
<1>1. PICK f : f = FoundBy(lines)
    OBVIOUS
<1>2. /\ size \in Nat /\ f \in [0..size -> 0..Wanted]
      /\ \A k \in 1..size : f[k] = IF IsNext(lines[k], f[k - 1]) THEN f[k - 1] + 1 ELSE f[k - 1]
    BY <1>1, FoundCounts DEF IsLines
<1>3. PICK bad : bad = {k \in i..size : f[i] > f[k]}
    OBVIOUS
<1>4. ASSUME bad # {} PROVE FALSE
  <2>1. bad \subseteq Nat
      BY <1>2, <1>3
  <2>2. PICK m \in bad : \A y \in bad : m <= y
      BY <1>4, <2>1, LeastNumber
  <2>3. m \in i..size /\ f[i] > f[m]
      BY <1>3, <2>2
  <2>4. m # i
      BY <1>2, <2>3
  <2>5. m - 1 \in i..size /\ m - 1 \notin bad
      BY <1>2, <2>2, <2>3, <2>4
  <2>6. f[i] <= f[m - 1]
      BY <1>2, <1>3, <2>5
  <2>7. f[m - 1] <= f[m]
    <3>1. m \in 1..size /\ m - 1 \in 0..size
        BY <1>2, <2>3, <2>4
    <3>2. f[m - 1] \in Nat /\ (f[m] = f[m - 1] + 1 \/ f[m] = f[m - 1])
        BY <1>2, <3>1
    <3> QED BY <3>2
  <2>8. f[i] \in Nat /\ f[m] \in Nat /\ f[m - 1] \in Nat
      BY <1>2, <2>3, <2>5
  <2> QED BY <2>3, <2>6, <2>7, <2>8
<1>5. f[i] \in Nat /\ f[j] \in Nat
    BY <1>2
<1> QED BY <1>1, <1>3, <1>4, <1>5

\* The place of each main heading: the one line at which the count reaches it
PlaceOf(lines, n) == CHOOSE i \in DOMAIN lines : FoundBy(lines)[i] = n /\ FoundBy(lines)[i - 1] # n

LEMMA PlaceIsThere ==
    ASSUME NEW lines, NEW size, IsLines(lines, size), NEW n \in 1..FoundBy(lines)[size]
    PROVE  PlaceOf(lines, n) \in 1..size /\ FoundBy(lines)[PlaceOf(lines, n)] = n
           /\ FoundBy(lines)[PlaceOf(lines, n) - 1] = n - 1
<1>1. PICK f : f = FoundBy(lines)
    OBVIOUS
<1>2. /\ size \in Nat /\ f \in [0..size -> 0..Wanted] /\ f[0] = 0
      /\ \A k \in 1..size : f[k] = IF IsNext(lines[k], f[k - 1]) THEN f[k - 1] + 1 ELSE f[k - 1]
    BY <1>1, FoundCounts DEF IsLines
<1>3. PICK some : some = {k \in 0..size : f[k] >= n}
    OBVIOUS
<1>4. f[size] \in Nat /\ size \in some
    BY <1>1, <1>2, <1>3
<1>5. PICK m \in some : \A y \in some : m <= y
  <2>1. some \subseteq Nat
      BY <1>3
  <2> QED BY <1>4, <2>1, LeastNumber
<1>6. m \in 1..size /\ f[m] >= n
    BY <1>2, <1>3, <1>5
<1>7. m - 1 \in 0..size /\ m - 1 \notin some
    BY <1>2, <1>5, <1>6
<1>8. f[m - 1] \in Nat /\ f[m - 1] < n
    BY <1>2, <1>3, <1>7
<1>9. f[m] = n /\ f[m - 1] # n
    BY <1>2, <1>6, <1>8
<1>10. PICK place : place = PlaceOf(lines, n)
    OBVIOUS
<1>11. place \in 1..size /\ f[place] = n /\ f[place - 1] # n
    BY <1>1, <1>6, <1>9, <1>10 DEF PlaceOf, IsLines
<1>12. f[place - 1] \in Nat /\ f[place - 1] = n - 1
  <2>1. place - 1 \in 0..size
      BY <1>2, <1>11
  <2>2. f[place - 1] \in Nat /\ (f[place] = f[place - 1] + 1 \/ f[place] = f[place - 1])
      BY <1>2, <1>11, <2>1
  <2> QED BY <1>11, <2>2
<1> QED BY <1>1, <1>10, <1>11, <1>12

\* Headings in the order of the document, one for each wanted article
InOrder(headings, size) ==
    /\ DOMAIN headings = 1..Wanted /\ Len(headings) = Wanted
    /\ \A p \in 1..Wanted : headings[p].at \in 1..size
    /\ \A p, q \in 1..Wanted : p < q => headings[p].at < headings[q].at

\* No main heading between two of them
HidesNone(lines, headings) ==
    \A p \in 1..(Wanted - 1) : \A i \in (headings[p].at + 1)..(headings[p + 1].at - 1) :
        lines[i].kind = "article" => lines[i].n \notin 1..Wanted

LEMMA LocatedInOrder ==
    ASSUME NEW lines, NEW size, IsLines(lines, size), Complete(Located(lines))
    PROVE  InOrder(Located(lines).headings, size) /\ HidesNone(lines, Located(lines).headings)
<1>1. PICK f : f = FoundBy(lines)
    OBVIOUS
<1>2. /\ size \in Nat /\ f \in [0..size -> 0..Wanted] /\ f[0] = 0 /\ Wanted \in Nat
      /\ \A k \in 1..size : f[k] = IF IsNext(lines[k], f[k - 1]) THEN f[k - 1] + 1 ELSE f[k - 1]
    BY <1>1, FoundCounts, WantedAssumption DEF IsLines
<1>3. PICK headings : headings = Located(lines).headings
    OBVIOUS
<1>4. headings = [n \in 1..f[size] |-> [n |-> n, at |-> PlaceOf(lines, n), title |-> lines[PlaceOf(lines, n)].title]]
    BY <1>1, <1>3 DEF Located, PlaceOf, IsLines
<1>5. \A i \in 1..size : ~IsMisplaced(lines[i], f[i - 1])
    BY <1>1 DEF Complete, Located, IsLines
<1>6. f[size] = Wanted /\ Len(headings) = Wanted
    BY <1>2, <1>3, <1>4 DEF Complete
<1>7. DOMAIN headings = 1..Wanted
    BY <1>4, <1>6
<1>8. ASSUME NEW p \in 1..Wanted
      PROVE  headings[p].at \in 1..size /\ f[headings[p].at] = p /\ f[headings[p].at - 1] = p - 1
  <2>1. p \in 1..FoundBy(lines)[size]
      BY <1>1, <1>6
  <2>2. headings[p].at = PlaceOf(lines, p)
      BY <1>4, <1>6
  <2> QED BY <1>1, <2>1, <2>2, PlaceIsThere
<1>9. ASSUME NEW p \in 1..Wanted, NEW q \in 1..Wanted, p < q
      PROVE  headings[p].at < headings[q].at
  <2>1. PICK a, b : a = headings[p].at /\ b = headings[q].at
      OBVIOUS
  <2>2. a \in 1..size /\ b \in 1..size /\ f[a] = p /\ f[b] = q
      BY <1>8, <2>1
  <2>3. ASSUME b <= a PROVE FALSE
    <3>1. b \in 0..size /\ a \in b..size
        BY <2>2, <2>3
    <3>2. f[b] <= f[a]
        BY <1>1, <3>1, FoundGrows
    <3> QED BY <1>9, <2>2, <3>2
  <2> QED BY <2>1, <2>2, <2>3
<1>10. ASSUME NEW p \in 1..(Wanted - 1), NEW i \in (headings[p].at + 1)..(headings[p + 1].at - 1),
              lines[i].kind = "article"
       PROVE  lines[i].n \notin 1..Wanted
  <2>0. p \in 1..Wanted /\ p + 1 \in 1..Wanted
      BY <1>2
  <2>1. PICK a, b : a = headings[p].at /\ b = headings[p + 1].at
      OBVIOUS
  <2>2. a \in 1..size /\ b \in 1..size /\ f[a] = p /\ f[b - 1] = (p + 1) - 1
      BY <1>8, <2>0, <2>1
  <2>3. i \in 1..size /\ a <= i - 1 /\ i <= b - 1
    <3>1. i \in (a + 1)..(b - 1)
        BY <2>1
    <3>2. a \in Nat /\ b \in Nat /\ a >= 1 /\ b <= size
        BY <1>2, <2>2
    <3> QED BY <1>2, <3>1, <3>2
  <2>4. f[a] <= f[i - 1] /\ f[i - 1] <= f[i] /\ f[i] <= f[b - 1]
    <3>1. a \in 0..size /\ i - 1 \in a..size
        BY <1>2, <2>2, <2>3
    <3>2. i - 1 \in 0..size /\ i \in (i - 1)..size
        BY <1>2, <2>3
    <3>3. i \in 0..size /\ b - 1 \in i..size
        BY <1>2, <2>2, <2>3
    <3> QED BY <1>1, <3>1, <3>2, <3>3, FoundGrows
  <2>5. f[i - 1] = p /\ f[i] = p
    <3>1. i - 1 \in 0..size /\ i \in 0..size
        BY <2>3, <1>2
    <3> QED BY <1>2, <2>0, <2>2, <2>4, <3>1
  <2>6. ~IsNext(lines[i], p)
      BY <1>2, <2>0, <2>3, <2>5
  <2>7. ~IsMisplaced(lines[i], p)
      BY <1>5, <2>3, <2>5
  <2> QED BY <1>2, <1>10, <2>0, <2>6, <2>7 DEF IsNext, IsMisplaced
<1> QED BY <1>3, <1>6, <1>7, <1>8, <1>9, <1>10 DEF InOrder, HidesNone

\* The article a line stands in
Owner(headings, i) ==
    CHOOSE p \in DOMAIN headings :
        /\ headings[p].at <= i
        /\ p < Wanted => headings[p + 1].at > i

LEMMA OwnerIsOne ==
    ASSUME NEW size \in Nat, NEW headings, InOrder(headings, size), NEW i \in Nat, headings[1].at <= i
    PROVE  /\ Owner(headings, i) \in 1..Wanted
           /\ headings[Owner(headings, i)].at <= i
           /\ Owner(headings, i) < Wanted => headings[Owner(headings, i) + 1].at > i
           /\ \A p \in 1..Wanted :
                 headings[p].at <= i /\ (p < Wanted => headings[p + 1].at > i) => p = Owner(headings, i)
<1>1. /\ DOMAIN headings = 1..Wanted /\ Wanted \in Nat \ {0}
      /\ \A p \in 1..Wanted : headings[p].at \in 1..size
      /\ \A p, q \in 1..Wanted : p < q => headings[p].at < headings[q].at
    BY WantedAssumption DEF InOrder
<1>2. PICK begun : begun = {p \in 1..Wanted : headings[p].at <= i}
    OBVIOUS
<1>3. 1 \in begun
    BY <1>1, <1>2
<1>4. PICK o \in begun : \A p \in begun : p <= o
  <2>1. begun \subseteq 1..Wanted
      BY <1>2
  <2> QED BY <1>1, <1>3, <2>1, LastNumber
<1>5. o \in 1..Wanted /\ headings[o].at <= i
    BY <1>2, <1>4
<1>6. o < Wanted => headings[o + 1].at > i
  <2>1. ASSUME o < Wanted, ~(headings[o + 1].at > i)
        PROVE  FALSE
    <3>1. o + 1 \in 1..Wanted /\ headings[o + 1].at \in 1..size
        BY <1>1, <1>5, <2>1
    <3>2. o + 1 \in begun
        BY <1>2, <2>1, <3>1
    <3> QED BY <1>4, <1>5, <3>2
  <2> QED BY <2>1
<1>7. PICK own : own = Owner(headings, i)
    OBVIOUS
<1>8. own \in 1..Wanted /\ headings[own].at <= i /\ (own < Wanted => headings[own + 1].at > i)
    BY <1>1, <1>5, <1>6, <1>7 DEF Owner
<1>9. ASSUME NEW p \in 1..Wanted, headings[p].at <= i, p < Wanted => headings[p + 1].at > i,
             NEW q \in 1..Wanted, headings[q].at <= i, q < Wanted => headings[q + 1].at > i, p < q
      PROVE  FALSE
  <2>1. p + 1 \in 1..Wanted /\ p < Wanted
      BY <1>1, <1>9
  <2>2. headings[p + 1].at \in 1..size /\ headings[q].at \in 1..size
      BY <1>1, <2>1
  <2>3. headings[p + 1].at > i
      BY <1>9, <2>1
  <2>4. p + 1 = q \/ p + 1 < q
      BY <1>1, <1>9
  <2>5. headings[p + 1].at <= headings[q].at
      BY <1>1, <2>1, <2>2, <2>4
  <2> QED BY <1>9, <2>2, <2>3, <2>5
<1>10. ASSUME NEW p \in 1..Wanted, headings[p].at <= i, p < Wanted => headings[p + 1].at > i
       PROVE  p = own
  <2>1. ~(p < own)
      BY <1>8, <1>9, <1>10
  <2>2. ~(own < p)
      BY <1>8, <1>9, <1>10
  <2>3. own \in Int
      BY <1>8
  <2> QED BY <2>1, <2>2, <2>3
<1> QED BY <1>7, <1>8, <1>10

LEMMA TailIsBehind ==
    ASSUME NEW lines, NEW size, IsLines(lines, size), NEW from \in 1..(size + 1)
    PROVE  TailIndex(lines, from) \in from..(size + 1)
<1>1. PICK tails : tails = {i \in from..size : lines[i].kind \in {"signature", "appendix"}}
    OBVIOUS
<1>2. size \in Nat /\ tails \subseteq Nat
    BY <1>1 DEF IsLines
<1>3. TailIndex(lines, from) = IF tails = {} THEN size + 1 ELSE CHOOSE i \in tails : \A j \in tails : i <= j
    BY <1>1 DEF TailIndex, IsLines
<1>4. CASE tails = {}
    BY <1>2, <1>3, <1>4
<1>5. CASE tails # {}
  <2>1. \E i \in tails : \A j \in tails : i <= j
      BY <1>2, <1>5, LeastNumber
  <2>2. TailIndex(lines, from) \in tails
      BY <1>3, <1>5, <2>1
  <2> QED BY <1>1, <1>2, <2>2
<1> QED BY <1>4, <1>5

\* What EveryLineHasAPlace says of lines, headings and bodies
HasAPlace(by, lines, headings, bodies, i) ==
    LET own == Owner(headings, i)
        holders == {p \in DOMAIN headings : i \in bodies[p]}
    IN  IF i = headings[own].at THEN holders = {}
        ELSE /\ holders \subseteq {own}
             /\ holders = {} => \/ lines[i].kind \in {"page", "empty"}
                                \/ \E j \in (headings[own].at + 1)..i : lines[j].kind = "chapter"
                                \/ SignedBetween(lines, headings[own].at + 1, i)
             /\ (by # "titles" /\ own < Wanted /\ lines[i].kind = "article") => lines[i].n \notin 1..Wanted

\* A line of an article that is not in its body is cut off behind a signature.
LEMMA CutIsSigned ==
    ASSUME NEW lines, NEW from \in Nat, NEW to \in Int, NEW body,
           body = {k \in from..to : lines[k].kind \notin {"page", "empty"}
                                   /\ \A j \in from..k : lines[j].kind # "chapter"},
           NEW i \in body, i \notin BeforeInlineTail(lines, body)
    PROVE  SignedBetween(lines, from, i)
<1>1. PICK j \in body : j < i /\ IsSignedAt(lines, body, j)
    BY DEF BeforeInlineTail
<1>2. i \in from..to /\ j \in from..to /\ j \in from..(i - 1)
    BY <1>1
<1>3. CASE lines[j].kind = "signed"
    BY <1>2, <1>3 DEF SignedBetween
<1>4. CASE lines[j].kind # "signed"
  <2>1. PICK k \in body : /\ k > j /\ lines[k].kind \in {"office", "signature"}
                          /\ \A l \in body : l > j => k <= l
      BY <1>1, <1>4 DEF IsSignedAt
  <2>2. k \in from..to /\ k <= i /\ k \in (j + 1)..i
      BY <1>1, <1>2, <2>1
  <2>3. ASSUME NEW m \in (j + 1)..(k - 1) PROVE lines[m].kind \in {"page", "empty"}
    <3>1. m \in from..to /\ m > j /\ ~(k <= m) /\ \A l \in from..m : l \in from..k
        BY <1>2, <2>2
    <3>2. m \notin body
        BY <2>1, <3>1
    <3>3. \A l \in from..k : lines[l].kind # "chapter"
        OBVIOUS
    <3> QED BY <3>1, <3>2, <3>3
  <2> QED BY <1>1, <1>2, <1>4, <2>1, <2>2, <2>3 DEF SignedBetween, IsSignedAt
<1> QED BY <1>3, <1>4

LEMMA PlacesInOrder ==
    ASSUME NEW lines, NEW size, IsLines(lines, size), NEW headings, InOrder(headings, size),
           NEW bodies, bodies = [p \in DOMAIN headings |-> BeforeInlineTail(lines, BodyLines(lines, headings, p))],
           NEW by, by # "titles" => HidesNone(lines, headings),
           NEW i \in headings[1].at..(TailIndex(lines, headings[Wanted].at + 1) - 1)
    PROVE  HasAPlace(by, lines, headings, bodies, i)
<1>1. /\ size \in Nat /\ DOMAIN headings = 1..Wanted /\ Wanted \in Nat \ {0} /\ Len(headings) = Wanted
      /\ \A p \in 1..Wanted : headings[p].at \in 1..size
    BY WantedAssumption DEF InOrder, IsLines
<1>2. PICK tail : tail = TailIndex(lines, headings[Wanted].at + 1)
    OBVIOUS
<1>3. headings[Wanted].at + 1 \in 1..(size + 1)
    BY <1>1
<1>4. tail \in 1..(size + 1)
    BY <1>1, <1>2, <1>3, TailIsBehind
<1>5. i \in Nat /\ headings[1].at <= i /\ i < tail
    BY <1>1, <1>2, <1>4
<1>6. PICK own : own = Owner(headings, i)
    OBVIOUS
<1>7. /\ own \in 1..Wanted /\ headings[own].at <= i
      /\ own < Wanted => headings[own + 1].at > i
      /\ \A p \in 1..Wanted : headings[p].at <= i /\ (p < Wanted => headings[p + 1].at > i) => p = own
    BY <1>1, <1>5, <1>6, OwnerIsOne
<1>8. PICK last : last = [p \in 1..Wanted |-> IF p < Wanted THEN headings[p + 1].at - 1 ELSE tail - 1]
    OBVIOUS
<1> PICK whole : whole = [p \in 1..Wanted |-> BodyLines(lines, headings, p)]
    OBVIOUS
<1>9. ASSUME NEW p \in 1..Wanted
      PROVE  whole[p] = {k \in (headings[p].at + 1)..last[p] :
                 lines[k].kind \notin {"page", "empty"}
                 /\ \A j \in (headings[p].at + 1)..k : lines[j].kind # "chapter"}
  <2>1. whole[p] = BodyLines(lines, headings, p)
      OBVIOUS
  <2>2. p = Wanted \/ p < Wanted
      BY <1>1
  <2> QED BY <1>1, <1>2, <1>8, <2>1, <2>2 DEF BodyLines, Stripped
<1>14. \A p \in 1..Wanted : bodies[p] = BeforeInlineTail(lines, whole[p]) /\ bodies[p] \subseteq whole[p]
    BY <1>1 DEF BeforeInlineTail
<1>10. ASSUME NEW p \in 1..Wanted, i \in bodies[p]
       PROVE  p = own /\ i # headings[p].at
  <2>1. i \in (headings[p].at + 1)..last[p] /\ headings[p].at \in Nat
      BY <1>1, <1>9, <1>10, <1>14
  <2>2. p < Wanted => headings[p + 1].at \in Nat /\ i < headings[p + 1].at
    <3>1. ASSUME p < Wanted PROVE headings[p + 1].at \in Nat /\ i < headings[p + 1].at
      <4>1. p + 1 \in 1..Wanted
          BY <1>1, <3>1
      <4>2. last[p] = headings[p + 1].at - 1 /\ headings[p + 1].at \in Nat
          BY <1>1, <1>8, <3>1, <4>1
      <4> QED BY <1>5, <2>1, <4>2
    <3> QED BY <3>1
  <2>3. headings[p].at <= i /\ headings[p].at # i
      BY <1>5, <2>1
  <2> QED BY <1>5, <1>7, <2>2, <2>3
<1>11. PICK holders : holders = {p \in DOMAIN headings : i \in bodies[p]}
    OBVIOUS
<1>12. CASE i = headings[own].at
  <2>1. holders = {}
      BY <1>1, <1>10, <1>11, <1>12
  <2> QED BY <1>6, <1>11, <1>12, <2>1 DEF HasAPlace
<1>13. CASE i # headings[own].at
  <2>1. holders \subseteq {own}
      BY <1>1, <1>10, <1>11
  <2>2. headings[own].at \in Nat /\ i \in (headings[own].at + 1)..last[own]
    <3>1. headings[own].at \in Nat
        BY <1>1, <1>7
    <3>2. CASE own < Wanted
      <4>1. own + 1 \in 1..Wanted
          BY <1>1, <1>7, <3>2
      <4>2. last[own] = headings[own + 1].at - 1 /\ headings[own + 1].at \in Nat
          BY <1>1, <1>7, <1>8, <3>2, <4>1
      <4> QED BY <1>5, <1>7, <1>13, <3>1, <3>2, <4>2
    <3>3. CASE own = Wanted
      <4>1. last[own] = tail - 1
          BY <1>1, <1>7, <1>8, <3>3
      <4> QED BY <1>4, <1>5, <1>7, <1>13, <3>1, <4>1
    <3> QED BY <1>1, <1>7, <3>2, <3>3
  <2>3. ASSUME holders = {}
        PROVE  \/ lines[i].kind \in {"page", "empty"}
               \/ \E j \in (headings[own].at + 1)..i : lines[j].kind = "chapter"
               \/ SignedBetween(lines, headings[own].at + 1, i)
    <3>1. i \notin bodies[own]
        BY <1>1, <1>7, <1>11, <2>3
    <3>2. CASE i \notin whole[own]
        BY <1>7, <1>9, <2>2, <3>2
    <3>3. CASE i \in whole[own]
      <4> PICK body, from, to : body = whole[own] /\ from = headings[own].at + 1 /\ to = last[own]
          OBVIOUS
      <4>1. from \in Nat /\ i \in body /\ i \notin BeforeInlineTail(lines, body)
          BY <1>7, <1>14, <2>2, <3>1, <3>3
      <4>2. to \in Int
        <5>1. own < Wanted => headings[own + 1].at \in Nat
            BY <1>1, <1>7
        <5> QED BY <1>1, <1>4, <1>7, <1>8, <5>1
      <4>3. body = {k \in from..to : lines[k].kind \notin {"page", "empty"}
                                    /\ \A j \in from..k : lines[j].kind # "chapter"}
          BY <1>7, <1>9
      <4>4. SignedBetween(lines, from, i)
          BY <4>1, <4>2, <4>3, CutIsSigned
      <4> QED BY <4>4
    <3> QED BY <3>2, <3>3
  <2>4. ASSUME by # "titles", own < Wanted, lines[i].kind = "article"
        PROVE  lines[i].n \notin 1..Wanted
    <3>1. own \in 1..(Wanted - 1) /\ last[own] = headings[own + 1].at - 1
        BY <1>1, <1>7, <1>8, <2>4
    <3> QED BY <2>2, <2>4, <3>1 DEF HidesNone
  <2> QED BY <1>6, <1>11, <1>13, <2>1, <2>3, <2>4 DEF HasAPlace
<1> QED BY <1>12, <1>13

-----------------------------------------------------------------------------
(* The titles                                                                *)

LEMMA SumIsCapped ==
    ASSUME NEW count, NEW i
    PROVE  CappedSum(count, i) \in 0..2
BY DEF CappedSum

LEMMA WaysAre ==
    ASSUME NEW lines, NEW size, IsLines(lines, size)
    PROVE  /\ \A n \in 1..Wanted : Ways(lines)[n] \in [1..size -> 0..2]
           /\ \A n \in 1..Wanted : \A i \in 1..size :
                 Ways(lines)[n][i] = IF i \notin Places(lines, n) THEN 0
                                     ELSE IF n = 1 THEN 1 ELSE CappedSum(Ways(lines)[n - 1], i)
<1>1. size \in Nat /\ Wanted \in Nat /\ DOMAIN lines = 1..size
    BY WantedAssumption DEF IsLines
<1>2. ASSUME NEW n, NEW count
      PROVE  NextWays(lines, n, count) \in [1..size -> 0..2]
    BY <1>1, SumIsCapped DEF NextWays
<1>3. PICK S, first : S = [1..size -> 0..2] /\ first = [i \in 1..size |-> 0]
    OBVIOUS
<1>4. PICK step : step = [n \in 1..Wanted |-> [count \in S |-> NextWays(lines, n, count)]]
    OBVIOUS
<1>5. first \in S /\ step \in [1..Wanted -> [S -> S]]
    BY <1>2, <1>3, <1>4
<1>6. PICK g : Follows(g, S, first, Wanted, step)
    BY <1>1, <1>5, RecursionExists
<1>7. ASSUME NEW n \in 1..Wanted
      PROVE  g[n] = NextWays(lines, n, g[n - 1])
  <2>1. g[n - 1] \in S /\ g[n] = step[n][g[n - 1]]
      BY <1>1, <1>6 DEF Follows
  <2> QED BY <1>4, <2>1
<1>8. g = [n \in 0..Wanted |-> IF n = 0 THEN first ELSE NextWays(lines, n, g[n - 1])]
  <2>1. PICK h : h = [n \in 0..Wanted |-> IF n = 0 THEN first ELSE NextWays(lines, n, g[n - 1])]
      OBVIOUS
  <2>2. h[0] = g[0]
      BY <1>1, <1>6, <2>1 DEF Follows
  <2>3. ASSUME NEW n \in 1..Wanted PROVE h[n] = g[n]
      BY <1>1, <1>7, <2>1
  <2>4. g = [n \in 0..Wanted |-> g[n]] /\ h = [n \in 0..Wanted |-> h[n]]
      BY <1>6, <2>1 DEF Follows
  <2>5. \A n \in 0..Wanted : g[n] = h[n]
      BY <1>1, <2>2, <2>3
  <2> QED BY <2>1, <2>4, <2>5
<1>9. PICK f : f = Ways(lines)
    OBVIOUS
<1>10. f = [n \in 0..Wanted |-> IF n = 0 THEN first ELSE NextWays(lines, n, f[n - 1])]
    BY <1>1, <1>3, <1>8, <1>9 DEF Ways
<1>11. ASSUME NEW n \in 1..Wanted
       PROVE  f[n] = NextWays(lines, n, f[n - 1])
    BY <1>1, <1>10
<1>12. ASSUME NEW n \in 1..Wanted, NEW i \in 1..size
       PROVE  f[n][i] = IF i \notin Places(lines, n) THEN 0 ELSE IF n = 1 THEN 1 ELSE CappedSum(f[n - 1], i)
    BY <1>1, <1>11 DEF NextWays
<1> QED BY <1>2, <1>9, <1>11, <1>12

\* The increasing choices of one place for each title up to a number
Selections(lines, size, n) ==
    {c \in [1..n -> 1..size] : /\ \A m \in 1..n : c[m] \in Places(lines, m)
                               /\ \A m \in 1..(n - 1) : c[m] < c[m + 1]}
Ending(lines, size, n, i) == {c \in Selections(lines, size, n) : c[n] = i}

LEMMA Prolonged ==
    ASSUME NEW lines, NEW size \in Nat, NEW n \in Nat \ {0}, NEW j, NEW d \in Ending(lines, size, n, j),
           NEW i \in 1..size, i \in Places(lines, n + 1), j < i
    PROVE  [m \in 1..(n + 1) |-> IF m = n + 1 THEN i ELSE d[m]] \in Ending(lines, size, n + 1, i)
<1>1. /\ d \in [1..n -> 1..size] /\ d[n] = j /\ j \in 1..size
      /\ \A m \in 1..n : d[m] \in Places(lines, m)
      /\ \A m \in 1..(n - 1) : d[m] < d[m + 1]
    BY DEF Ending, Selections
<1>2. PICK c : c = [m \in 1..(n + 1) |-> IF m = n + 1 THEN i ELSE d[m]]
    OBVIOUS
<1>3. c \in [1..(n + 1) -> 1..size] /\ c[n + 1] = i
    BY <1>1, <1>2
<1>4. \A m \in 1..(n + 1) : c[m] \in Places(lines, m)
    BY <1>1, <1>2
<1>5. ASSUME NEW m \in 1..((n + 1) - 1)
      PROVE  c[m] < c[m + 1]
  <2>1. c[m] = d[m]
      BY <1>2
  <2>2. CASE m = n
      BY <1>1, <1>3, <2>1, <2>2
  <2>3. CASE m # n
    <3>1. m \in 1..(n - 1) /\ c[m + 1] = d[m + 1]
        BY <1>2, <2>3
    <3> QED BY <1>1, <2>1, <3>1
  <2> QED BY <2>2, <2>3
<1> QED BY <1>2, <1>3, <1>4, <1>5 DEF Ending, Selections

LEMMA Shortened ==
    ASSUME NEW lines, NEW size \in Nat, NEW n \in Nat, NEW k \in 1..n, NEW c \in Selections(lines, size, n)
    PROVE  [m \in 1..k |-> c[m]] \in Ending(lines, size, k, c[k])
<1>1. /\ c \in [1..n -> 1..size]
      /\ \A m \in 1..n : c[m] \in Places(lines, m)
      /\ \A m \in 1..(n - 1) : c[m] < c[m + 1]
    BY DEF Selections
<1>2. PICK d : d = [m \in 1..k |-> c[m]]
    OBVIOUS
<1>3. d \in [1..k -> 1..size] /\ d[k] = c[k]
    BY <1>1, <1>2
<1>4. \A m \in 1..k : d[m] \in Places(lines, m)
    BY <1>1, <1>2
<1>5. ASSUME NEW m \in 1..(k - 1) PROVE d[m] < d[m + 1]
  <2>1. m \in 1..k /\ m + 1 \in 1..k /\ m \in 1..(n - 1)
      OBVIOUS
  <2> QED BY <1>1, <1>2, <2>1
<1> QED BY <1>2, <1>3, <1>4, <1>5 DEF Ending, Selections

\* The count is right for the chains that end at each line.
RightCount(lines, size, n) ==
    \A i \in 1..size :
        /\ Ways(lines)[n][i] = 0 <=> Ending(lines, size, n, i) = {}
        /\ Ways(lines)[n][i] = 1 => \A c, d \in Ending(lines, size, n, i) : c = d
        /\ Ways(lines)[n][i] = 2 => \E c, d \in Ending(lines, size, n, i) : c # d

LEMMA FirstCount ==
    ASSUME NEW lines, NEW size, IsLines(lines, size)
    PROVE  RightCount(lines, size, 1)
<1> SUFFICES ASSUME NEW i \in 1..size
             PROVE  /\ Ways(lines)[1][i] = 0 <=> Ending(lines, size, 1, i) = {}
                    /\ Ways(lines)[1][i] = 1 => \A c, d \in Ending(lines, size, 1, i) : c = d
                    /\ Ways(lines)[1][i] = 2 => \E c, d \in Ending(lines, size, 1, i) : c # d
    BY DEF RightCount
<1>1. size \in Nat /\ 1 \in 1..Wanted
    BY WantedAssumption DEF IsLines
<1>2. Ways(lines)[1][i] = IF i \notin Places(lines, 1) THEN 0 ELSE 1
    BY <1>1, WaysAre
<1>3. ASSUME NEW c \in Ending(lines, size, 1, i)
      PROVE  c = [m \in 1..1 |-> i] /\ i \in Places(lines, 1)
    BY DEF Ending, Selections
<1>4. i \in Places(lines, 1) => [m \in 1..1 |-> i] \in Ending(lines, size, 1, i)
    BY <1>1 DEF Ending, Selections
<1> QED BY <1>2, <1>3, <1>4

LEMMA NextCount ==
    ASSUME NEW lines, NEW size, IsLines(lines, size), NEW n \in 1..Wanted, n + 1 \in 1..Wanted,
           RightCount(lines, size, n)
    PROVE  RightCount(lines, size, n + 1)
<1> SUFFICES ASSUME NEW i \in 1..size
             PROVE  /\ Ways(lines)[n + 1][i] = 0 <=> Ending(lines, size, n + 1, i) = {}
                    /\ Ways(lines)[n + 1][i] = 1 => \A c, d \in Ending(lines, size, n + 1, i) : c = d
                    /\ Ways(lines)[n + 1][i] = 2 => \E c, d \in Ending(lines, size, n + 1, i) : c # d
    BY DEF RightCount
<1>1. size \in Nat /\ Wanted \in Nat /\ n \in Nat \ {0}
    BY WantedAssumption DEF IsLines
<1>2. PICK now, next : now = Ways(lines)[n] /\ next = Ways(lines)[n + 1]
    OBVIOUS
<1>3. now \in [1..size -> 0..2] /\ next \in [1..size -> 0..2]
    BY <1>2, WaysAre
<1>4. next[i] = IF i \notin Places(lines, n + 1) THEN 0 ELSE CappedSum(now, i)
  <2>1. next[i] = IF i \notin Places(lines, n + 1) THEN 0
                  ELSE IF n + 1 = 1 THEN 1 ELSE CappedSum(Ways(lines)[(n + 1) - 1], i)
      BY <1>2, WaysAre
  <2>2. n + 1 # 1 /\ (n + 1) - 1 = n
      BY <1>1
  <2> QED BY <1>2, <2>1, <2>2
<1>5. PICK before : before = {j \in 1..size : j < i /\ now[j] > 0}
    OBVIOUS
<1>6. CappedSum(now, i) = IF before = {} THEN 0 ELSE IF \E j \in before : before = {j} /\ now[j] = 1 THEN 1 ELSE 2
    BY <1>3, <1>5 DEF CappedSum
<1>7. ASSUME NEW j \in 1..size
      PROVE  /\ now[j] > 0 <=> Ending(lines, size, n, j) # {}
             /\ now[j] = 1 => \A c, d \in Ending(lines, size, n, j) : c = d
             /\ now[j] = 2 => \E c, d \in Ending(lines, size, n, j) : c # d
             /\ now[j] \in 0..2
  <2>1. now[j] \in 0..2
      BY <1>3
  <2>2. /\ now[j] = 0 <=> Ending(lines, size, n, j) = {}
        /\ now[j] = 1 => \A c, d \in Ending(lines, size, n, j) : c = d
        /\ now[j] = 2 => \E c, d \in Ending(lines, size, n, j) : c # d
      BY <1>2 DEF RightCount
  <2>3. now[j] > 0 <=> now[j] # 0
      BY <2>1
  <2> QED BY <2>1, <2>2, <2>3
<1>8. ASSUME NEW c \in Ending(lines, size, n + 1, i)
      PROVE  /\ i \in Places(lines, n + 1) /\ c[n] \in before
             /\ [m \in 1..n |-> c[m]] \in Ending(lines, size, n, c[n])
             /\ c \in [1..(n + 1) -> 1..size] /\ c[n + 1] = i
  <2>1. c \in Selections(lines, size, n + 1) /\ c[n + 1] = i
      BY DEF Ending
  <2>2. /\ c \in [1..(n + 1) -> 1..size]
        /\ \A m \in 1..(n + 1) : c[m] \in Places(lines, m)
        /\ \A m \in 1..((n + 1) - 1) : c[m] < c[m + 1]
      BY <2>1 DEF Selections
  <2>3. c[n] \in 1..size /\ c[n] < i /\ i \in Places(lines, n + 1)
      BY <1>1, <2>1, <2>2
  <2>4. n \in 1..(n + 1) /\ n + 1 \in Nat
      BY <1>1
  <2>5. [m \in 1..n |-> c[m]] \in Ending(lines, size, n, c[n])
      BY <1>1, <2>1, <2>4, Shortened
  <2>6. now[c[n]] > 0
      BY <1>7, <2>3, <2>5
  <2> QED BY <1>5, <2>1, <2>2, <2>3, <2>5, <2>6
<1>9. ASSUME NEW j \in before, NEW d \in Ending(lines, size, n, j), i \in Places(lines, n + 1)
      PROVE  /\ [m \in 1..(n + 1) |-> IF m = n + 1 THEN i ELSE d[m]] \in Ending(lines, size, n + 1, i)
             /\ d \in [1..n -> 1..size] /\ d[n] = j
  <2>1. j < i
      BY <1>5
  <2>2. [m \in 1..(n + 1) |-> IF m = n + 1 THEN i ELSE d[m]] \in Ending(lines, size, n + 1, i)
      BY <1>1, <1>9, <2>1, Prolonged
  <2>3. d \in [1..n -> 1..size] /\ d[n] = j
      BY DEF Ending, Selections
  <2> QED BY <2>2, <2>3
<1>10. ASSUME NEW j \in before
       PROVE  Ending(lines, size, n, j) # {}
    BY <1>5, <1>7
<1>11. CASE i \notin Places(lines, n + 1)
  <2>1. Ending(lines, size, n + 1, i) = {}
      BY <1>8, <1>11
  <2> QED BY <1>2, <1>4, <1>11, <2>1
<1>12. CASE i \in Places(lines, n + 1) /\ before = {}
  <2>1. Ending(lines, size, n + 1, i) = {}
      BY <1>8, <1>12
  <2> QED BY <1>2, <1>4, <1>6, <1>12, <2>1
<1>13. CASE i \in Places(lines, n + 1) /\ \E j \in before : before = {j} /\ now[j] = 1
  <2>1. PICK j \in before : before = {j} /\ now[j] = 1
      BY <1>13
  <2>2. next[i] = 1
      BY <1>4, <1>6, <1>13
  <2>3. ASSUME NEW c \in Ending(lines, size, n + 1, i), NEW d \in Ending(lines, size, n + 1, i)
        PROVE  c = d
    <3>1. c[n] = j /\ d[n] = j /\ j \in 1..size
        BY <1>5, <1>8, <2>1
    <3>2. [m \in 1..n |-> c[m]] = [m \in 1..n |-> d[m]]
        BY <1>7, <1>8, <2>1, <3>1
    <3>3. \A m \in 1..n : c[m] = d[m]
        BY <3>2
    <3>4. c \in [1..(n + 1) -> 1..size] /\ d \in [1..(n + 1) -> 1..size] /\ c[n + 1] = d[n + 1]
        BY <1>8
    <3>5. \A m \in 1..(n + 1) : c[m] = d[m]
        BY <1>1, <3>3, <3>4
    <3> QED BY <3>4, <3>5
  <2>4. Ending(lines, size, n + 1, i) # {}
      BY <1>9, <1>10, <1>13, <2>1
  <2> QED BY <1>2, <2>2, <2>3, <2>4
<1>14. CASE i \in Places(lines, n + 1) /\ before # {} /\ ~\E j \in before : before = {j} /\ now[j] = 1
  <2>1. next[i] = 2
      BY <1>4, <1>6, <1>14
  <2>2. \E c, d \in Ending(lines, size, n + 1, i) : c # d
    <3>1. PICK j \in before : TRUE
        BY <1>14
    <3>2. CASE \E k \in before : k # j
      <4>1. PICK k \in before : k # j
          BY <3>2
      <4>2. PICK u \in Ending(lines, size, n, j), v \in Ending(lines, size, n, k) : TRUE
          BY <1>10
      <4>3. PICK c, d : /\ c = [m \in 1..(n + 1) |-> IF m = n + 1 THEN i ELSE u[m]]
                        /\ d = [m \in 1..(n + 1) |-> IF m = n + 1 THEN i ELSE v[m]]
          OBVIOUS
      <4>4. c \in Ending(lines, size, n + 1, i) /\ d \in Ending(lines, size, n + 1, i) /\ u[n] = j /\ v[n] = k
          BY <1>9, <1>14, <4>2, <4>3
      <4>5. c[n] = j /\ d[n] = k
          BY <1>1, <4>3, <4>4
      <4> QED BY <4>1, <4>4, <4>5
    <3>3. CASE ~\E k \in before : k # j
      <4>1. before = {j} /\ now[j] # 1 /\ j \in 1..size
          BY <1>5, <1>14, <3>1, <3>3
      <4>2. now[j] = 2
          BY <1>5, <1>7, <3>1, <4>1
      <4>3. PICK u \in Ending(lines, size, n, j), v \in Ending(lines, size, n, j) : u # v
          BY <1>7, <4>1, <4>2
      <4>4. PICK c, d : /\ c = [m \in 1..(n + 1) |-> IF m = n + 1 THEN i ELSE u[m]]
                        /\ d = [m \in 1..(n + 1) |-> IF m = n + 1 THEN i ELSE v[m]]
          OBVIOUS
      <4>5. c \in Ending(lines, size, n + 1, i) /\ d \in Ending(lines, size, n + 1, i)
            /\ u \in [1..n -> 1..size] /\ v \in [1..n -> 1..size]
          BY <1>9, <1>14, <3>1, <4>3, <4>4
      <4>6. PICK m \in 1..n : u[m] # v[m]
          BY <4>3, <4>5
      <4>7. c[m] = u[m] /\ d[m] = v[m]
          BY <1>1, <4>4
      <4> QED BY <4>5, <4>6, <4>7
    <3> QED BY <3>2, <3>3
  <2> QED BY <1>2, <2>1, <2>2
<1> QED BY <1>11, <1>12, <1>13, <1>14

LEMMA EveryCount ==
    ASSUME NEW lines, NEW size, IsLines(lines, size), NEW n \in 1..Wanted
    PROVE  RightCount(lines, size, n)
<1>1. PICK bad : bad = {k \in 1..Wanted : ~RightCount(lines, size, k)}
    OBVIOUS
<1>2. ASSUME bad # {} PROVE FALSE
  <2>1. bad \subseteq Nat
      BY <1>1
  <2>2. PICK m \in bad : \A y \in bad : m <= y
      BY <1>2, <2>1, LeastNumber
  <2>3. m \in 1..Wanted /\ ~RightCount(lines, size, m)
      BY <1>1, <2>2
  <2>4. m # 1
      BY <2>3, FirstCount
  <2>5. PICK k : k = m - 1
      OBVIOUS
  <2>6. k \in 1..Wanted /\ k + 1 = m
      BY WantedAssumption, <2>3, <2>4, <2>5
  <2>7. k \notin bad
      BY <2>2, <2>6
  <2>8. RightCount(lines, size, k)
      BY <1>1, <2>6, <2>7
  <2> QED BY <2>3, <2>6, <2>8, NextCount
<1> QED BY <1>1, <1>2

\* One chain in all, exactly when it is counted once
LEMMA CountOfAll ==
    ASSUME NEW lines, NEW size, IsLines(lines, size)
    PROVE  CappedSum(Ways(lines)[Wanted], Len(lines) + 1) = 1
              <=> \E c \in Selections(lines, size, Wanted) : Selections(lines, size, Wanted) = {c}
<1>1. size \in Nat /\ Wanted \in Nat /\ Wanted \in 1..Wanted /\ Len(lines) = size
    BY WantedAssumption DEF IsLines
<1>2. PICK now, all : now = Ways(lines)[Wanted] /\ all = Selections(lines, size, Wanted)
    OBVIOUS
<1>3. now \in [1..size -> 0..2]
    BY <1>1, <1>2, WaysAre
<1>4. ASSUME NEW j \in 1..size
      PROVE  /\ now[j] > 0 <=> Ending(lines, size, Wanted, j) # {}
             /\ now[j] = 1 => \A c, d \in Ending(lines, size, Wanted, j) : c = d
             /\ now[j] = 2 => \E c, d \in Ending(lines, size, Wanted, j) : c # d
             /\ now[j] \in 0..2
  <2>1. now[j] \in 0..2
      BY <1>3
  <2>2. /\ now[j] = 0 <=> Ending(lines, size, Wanted, j) = {}
        /\ now[j] = 1 => \A c, d \in Ending(lines, size, Wanted, j) : c = d
        /\ now[j] = 2 => \E c, d \in Ending(lines, size, Wanted, j) : c # d
      BY <1>1, <1>2, EveryCount DEF RightCount
  <2>3. now[j] > 0 <=> now[j] # 0
      BY <2>1
  <2> QED BY <2>1, <2>2, <2>3
<1>5. PICK ends : ends = {j \in 1..size : now[j] > 0}
    OBVIOUS
<1>6. {j \in DOMAIN now : j < Len(lines) + 1 /\ now[j] > 0} = ends
    BY <1>1, <1>3, <1>5
<1>7. CappedSum(now, Len(lines) + 1) =
          IF ends = {} THEN 0 ELSE IF \E j \in ends : ends = {j} /\ now[j] = 1 THEN 1 ELSE 2
    BY <1>6 DEF CappedSum
<1>8. ASSUME NEW c \in all
      PROVE  c[Wanted] \in ends /\ c \in Ending(lines, size, Wanted, c[Wanted])
  <2>1. c \in Ending(lines, size, Wanted, c[Wanted]) /\ c[Wanted] \in 1..size
      BY <1>1, <1>2 DEF Ending, Selections
  <2> QED BY <1>4, <1>5, <2>1
<1>9. ASSUME NEW j, NEW c \in Ending(lines, size, Wanted, j)
      PROVE  c \in all /\ c[Wanted] = j
    BY <1>2 DEF Ending
<1>10. CASE ends = {}
  <2>1. all = {}
      BY <1>8, <1>10
  <2> QED BY <1>2, <1>7, <1>10, <2>1
<1>11. CASE \E j \in ends : ends = {j} /\ now[j] = 1
  <2>1. PICK j \in ends : ends = {j} /\ now[j] = 1
      BY <1>11
  <2>2. PICK c \in Ending(lines, size, Wanted, j) : TRUE
      BY <1>4, <1>5, <2>1
  <2>3. \A d \in all : d = c
      BY <1>4, <1>5, <1>8, <2>1, <2>2
  <2>4. all = {c}
      BY <1>9, <2>2, <2>3
  <2> QED BY <1>2, <1>7, <1>11, <2>4
<1>12. CASE ends # {} /\ ~\E j \in ends : ends = {j} /\ now[j] = 1
  <2>1. PICK j \in ends : TRUE
      BY <1>12
  <2>2. PICK u \in Ending(lines, size, Wanted, j) : TRUE
      BY <1>4, <1>5, <2>1
  <2>3. \E v \in all : v # u
    <3>1. CASE \E k \in ends : k # j
      <4>1. PICK k \in ends : k # j
          BY <3>1
      <4>2. PICK v \in Ending(lines, size, Wanted, k) : TRUE
          BY <1>4, <1>5, <4>1
      <4> QED BY <1>9, <2>2, <4>1, <4>2
    <3>2. CASE ~\E k \in ends : k # j
      <4>1. ends = {j} /\ now[j] # 1 /\ j \in 1..size
          BY <1>5, <1>12, <2>1, <3>2
      <4>2. now[j] = 2
          BY <1>4, <1>5, <2>1, <4>1
      <4>3. PICK v \in Ending(lines, size, Wanted, j), w \in Ending(lines, size, Wanted, j) : v # w
          BY <1>4, <4>1, <4>2
      <4> QED BY <1>9, <4>3
    <3> QED BY <3>1, <3>2
  <2>4. ~\E c \in all : all = {c}
      BY <1>9, <2>2, <2>3
  <2> QED BY <1>2, <1>7, <1>12, <2>4
<1> QED BY <1>10, <1>11, <1>12

\* A chain up to a title, and another one from there on
Splice(d, k, c, n) == [m \in 1..n |-> IF m <= k THEN d[m] ELSE c[m]]

LEMMA Spliced ==
    ASSUME NEW lines, NEW size \in Nat, NEW n \in Nat, NEW k \in 1..(n - 1),
           NEW c \in Selections(lines, size, n), NEW j, NEW d \in Ending(lines, size, k, j), j < c[k + 1]
    PROVE  Splice(d, k, c, n) \in Selections(lines, size, n)
<1>1. /\ c \in [1..n -> 1..size]
      /\ \A m \in 1..n : c[m] \in Places(lines, m)
      /\ \A m \in 1..(n - 1) : c[m] < c[m + 1]
    BY DEF Selections
<1>2. /\ d \in [1..k -> 1..size] /\ d[k] = j
      /\ \A m \in 1..k : d[m] \in Places(lines, m)
      /\ \A m \in 1..(k - 1) : d[m] < d[m + 1]
    BY DEF Ending, Selections
<1>3. PICK e : e = Splice(d, k, c, n) /\ e = [m \in 1..n |-> IF m <= k THEN d[m] ELSE c[m]]
    BY DEF Splice
<1>4. e \in [1..n -> 1..size]
    BY <1>1, <1>2, <1>3
<1>5. \A m \in 1..n : e[m] \in Places(lines, m)
    BY <1>1, <1>2, <1>3
<1>6. ASSUME NEW m \in 1..(n - 1)
      PROVE  e[m] < e[m + 1]
  <2>1. CASE m < k
    <3>1. e[m] = d[m] /\ e[m + 1] = d[m + 1] /\ m \in 1..(k - 1)
        BY <1>3, <2>1
    <3> QED BY <1>2, <3>1
  <2>2. CASE m = k
    <3>1. e[m] = j /\ e[m + 1] = c[k + 1]
        BY <1>2, <1>3, <2>2
    <3> QED BY <3>1
  <2>3. CASE m > k
    <3>1. e[m] = c[m] /\ e[m + 1] = c[m + 1]
        BY <1>3, <2>3
    <3> QED BY <1>1, <3>1
  <2> QED BY <2>1, <2>2, <2>3
<1> QED BY <1>3, <1>4, <1>5, <1>6 DEF Selections

\* The only chain is found from its end.
LEMMA WalkedBack ==
    ASSUME NEW lines, NEW size, IsLines(lines, size), NEW c, Selections(lines, size, Wanted) = {c}
    PROVE  WalkBack(lines) = c
<1>1. size \in Nat /\ Wanted \in Nat /\ Wanted \in 1..Wanted /\ DOMAIN lines = 1..size
    BY WantedAssumption DEF IsLines
<1>2. /\ c \in Selections(lines, size, Wanted)
      /\ c \in [1..Wanted -> 1..size]
      /\ \A m \in 1..(Wanted - 1) : c[m] < c[m + 1]
    BY DEF Selections
<1>3. ASSUME NEW n \in 1..Wanted
      PROVE  /\ Ways(lines)[n] \in [1..size -> 0..2]
             /\ \A j \in 1..size : Ways(lines)[n][j] > 0 <=> Ending(lines, size, n, j) # {}
             /\ \A j \in 1..size : Ways(lines)[n][j] = 2 => \E u, v \in Ending(lines, size, n, j) : u # v
  <2>1. Ways(lines)[n] \in [1..size -> 0..2]
      BY WaysAre
  <2>2. \A j \in 1..size : /\ Ways(lines)[n][j] = 0 <=> Ending(lines, size, n, j) = {}
                           /\ Ways(lines)[n][j] = 2 => \E u, v \in Ending(lines, size, n, j) : u # v
      BY EveryCount DEF RightCount
  <2>3. ASSUME NEW j \in 1..size
        PROVE  Ways(lines)[n][j] > 0 <=> Ways(lines)[n][j] # 0
    <3>1. PICK x : x = Ways(lines)[n][j]
        OBVIOUS
    <3>2. x \in 0..2
        BY <2>1, <3>1
    <3> QED BY <3>1, <3>2
  <2> QED BY <2>1, <2>2, <2>3
<1>4. TheEnd(Ways(lines)[Wanted]) = c[Wanted]
  <2>1. PICK now : now = Ways(lines)[Wanted]
      OBVIOUS
  <2>2. /\ now \in [1..size -> 0..2]
        /\ \A j \in 1..size : now[j] > 0 <=> Ending(lines, size, Wanted, j) # {}
        /\ \A j \in 1..size : now[j] = 2 => \E u, v \in Ending(lines, size, Wanted, j) : u # v
      BY <1>1, <1>3, <2>1
  <2>3. \A j : \A u \in Ending(lines, size, Wanted, j) : u = c /\ u[Wanted] = j
      BY DEF Ending
  <2>4. c \in Ending(lines, size, Wanted, c[Wanted]) /\ c[Wanted] \in 1..size
      BY <1>1, <1>2 DEF Ending
  <2>5. now[c[Wanted]] > 0 /\ now[c[Wanted]] # 2 /\ now[c[Wanted]] \in 0..2
      BY <2>2, <2>3, <2>4
  <2>6. now[c[Wanted]] = 1
      BY <2>5
  <2>7. ASSUME NEW j \in 1..size, now[j] = 1
        PROVE  j = c[Wanted]
      BY <2>2, <2>3, <2>7
  <2> QED BY <2>1, <2>2, <2>4, <2>6, <2>7 DEF TheEnd
<1>5. ASSUME NEW n \in 1..(Wanted - 1)
      PROVE  TheOneBefore(Ways(lines)[n], c[n + 1]) = c[n]
  <2>1. PICK now : now = Ways(lines)[n]
      OBVIOUS
  <2>2. n \in 1..Wanted /\ n + 1 \in 1..Wanted
      BY <1>1
  <2>3. now \in [1..size -> 0..2] /\ \A j \in 1..size : now[j] > 0 <=> Ending(lines, size, n, j) # {}
      BY <1>3, <2>1, <2>2
  <2>4. [m \in 1..n |-> c[m]] \in Ending(lines, size, n, c[n])
      BY <1>1, <1>2, <2>2, Shortened
  <2>5. c[n] \in 1..size /\ c[n] < c[n + 1] /\ now[c[n]] > 0
      BY <1>2, <2>2, <2>3, <2>4
  <2>6. ASSUME NEW j \in 1..size, j < c[n + 1], now[j] > 0
        PROVE  j = c[n]
    <3>1. PICK d \in Ending(lines, size, n, j) : TRUE
        BY <2>3, <2>6
    <3>2. Splice(d, n, c, Wanted) \in Selections(lines, size, Wanted)
        BY <1>1, <1>2, <2>6, <3>1, Spliced
    <3>3. Splice(d, n, c, Wanted) = c
        BY <3>2
    <3>4. c[n] = d[n]
        BY <2>2, <3>3 DEF Splice
    <3>5. d[n] = j
        BY <3>1 DEF Ending
    <3> QED BY <3>4, <3>5
  <2> QED BY <2>1, <2>3, <2>5, <2>6 DEF TheOneBefore
<1>6. PICK g : g = [k \in 0..(Wanted - 1) |-> c[Wanted - k]]
    OBVIOUS
<1>7. g = [k \in 0..(Wanted - 1) |-> IF k = 0 THEN TheEnd(Ways(lines)[Wanted])
                                     ELSE TheOneBefore(Ways(lines)[Wanted - k], g[k - 1])]
  <2>1. ASSUME NEW k \in 0..(Wanted - 1)
        PROVE  g[k] = IF k = 0 THEN TheEnd(Ways(lines)[Wanted])
                      ELSE TheOneBefore(Ways(lines)[Wanted - k], g[k - 1])
    <3>1. CASE k = 0
        BY <1>1, <1>4, <1>6, <3>1
    <3>2. CASE k # 0
      <4>1. PICK n : n = Wanted - k
          OBVIOUS
      <4>2. n \in 1..(Wanted - 1) /\ k - 1 \in 0..(Wanted - 1) /\ Wanted - (k - 1) = n + 1
          BY <1>1, <3>2, <4>1
      <4>3. g[k] = c[n] /\ g[k - 1] = c[n + 1]
          BY <1>6, <4>1, <4>2
      <4> QED BY <1>5, <3>2, <4>1, <4>2, <4>3
    <3> QED BY <3>1, <3>2
  <2>2. PICK h : h = [k \in 0..(Wanted - 1) |-> IF k = 0 THEN TheEnd(Ways(lines)[Wanted])
                                     ELSE TheOneBefore(Ways(lines)[Wanted - k], g[k - 1])]
      OBVIOUS
  <2>3. \A k \in 0..(Wanted - 1) : g[k] = h[k]
      BY <2>1, <2>2
  <2>4. g = [k \in 0..(Wanted - 1) |-> g[k]] /\ h = [k \in 0..(Wanted - 1) |-> h[k]]
      BY <1>6, <2>2
  <2> QED BY <2>2, <2>3, <2>4
<1>8. PICK f : /\ f = [k \in 0..(Wanted - 1) |-> IF k = 0 THEN TheEnd(Ways(lines)[Wanted])
                                     ELSE TheOneBefore(Ways(lines)[Wanted - k], f[k - 1])]
               /\ WalkBack(lines) = [n \in 1..Wanted |-> f[Wanted - n]]
  <2>1. PICK f : f = CHOOSE q : q = [k \in 0..(Wanted - 1) |-> IF k = 0 THEN TheEnd(Ways(lines)[Wanted])
                                     ELSE TheOneBefore(Ways(lines)[Wanted - k], q[k - 1])]
      OBVIOUS
  <2>2. f = [k \in 0..(Wanted - 1) |-> IF k = 0 THEN TheEnd(Ways(lines)[Wanted])
                                     ELSE TheOneBefore(Ways(lines)[Wanted - k], f[k - 1])]
      BY <1>7, <2>1
  <2>3. WalkBack(lines) = [n \in 1..Wanted |-> f[Wanted - n]]
      BY <2>1 DEF WalkBack
  <2> QED BY <2>2, <2>3
<1>9. ASSUME NEW k \in 0..(Wanted - 1)
      PROVE  f[k] = c[Wanted - k]
  <2>1. PICK bad : bad = {i \in 0..(Wanted - 1) : f[i] # c[Wanted - i]}
      OBVIOUS
  <2>2. ASSUME bad # {} PROVE FALSE
    <3>1. bad \subseteq Nat
        BY <2>1
    <3>2. PICK i \in bad : \A y \in bad : i <= y
        BY <2>2, <3>1, LeastNumber
    <3>3. i \in 0..(Wanted - 1) /\ f[i] # c[Wanted - i]
        BY <2>1, <3>2
    <3>4. i # 0
      <4>1. f[0] = c[Wanted]
          BY <1>1, <1>4, <1>8
      <4>2. Wanted - 0 = Wanted
          BY <1>1
      <4> QED BY <3>3, <4>1, <4>2
    <3>5. PICK n : n = Wanted - i
        OBVIOUS
    <3>6. n \in 1..(Wanted - 1) /\ i - 1 \in 0..(Wanted - 1) /\ Wanted - (i - 1) = n + 1
        BY <1>1, <3>3, <3>4, <3>5
    <3>7. i - 1 \notin bad
        BY <3>2, <3>3, <3>6
    <3>8. f[i - 1] = c[n + 1]
        BY <2>1, <3>6, <3>7
    <3>9. f[i] = TheOneBefore(Ways(lines)[n], f[i - 1])
        BY <1>8, <3>3, <3>4, <3>5
    <3> QED BY <1>5, <3>3, <3>5, <3>6, <3>8, <3>9
  <2> QED BY <2>1, <2>2
<1>10. ASSUME NEW n \in 1..Wanted
       PROVE  f[Wanted - n] = c[n]
  <2>1. Wanted - n \in 0..(Wanted - 1) /\ Wanted - (Wanted - n) = n
      BY <1>1
  <2> QED BY <1>9, <2>1
<1> QED BY <1>2, <1>8, <1>10

LEMMA DocumentLines ==
    ASSUME WordShapes
    PROVE  IsLines(StoredLines, Len(word)) /\ IsLines(DisplayedLines, Len(word))
<1>1. Len(word) \in Nat /\ DOMAIN word = 1..Len(word)
    BY DEF WordShapes
<1> QED BY <1>1 DEF IsLines, StoredLines, DisplayedLines

LEMMA TitlesInOrder ==
    ASSUME NEW lines, NEW size, IsLines(lines, size), NEW titled, UniqueChain(lines, titled) # <<>>
    PROVE  /\ InOrder(TitleHeadings(lines, titled), size)
           /\ Selections(lines, size, Wanted) = {[n \in 1..Wanted |-> TitleHeadings(lines, titled)[n].at]}
<1>1. size \in Nat /\ Wanted \in Nat \ {0} /\ DOMAIN lines = 1..size
    BY WantedAssumption DEF IsLines
<1>2. titled = 1..Wanted /\ CappedSum(Ways(lines)[Wanted], Len(lines) + 1) = 1
    BY DEF UniqueChain
<1>3. PICK c : Selections(lines, size, Wanted) = {c}
    BY <1>2, CountOfAll
<1>4. UniqueChain(lines, titled) = c
    BY <1>2, <1>3, WalkedBack DEF UniqueChain
<1>5. /\ c \in [1..Wanted -> 1..size]
      /\ \A m \in 1..(Wanted - 1) : c[m] < c[m + 1]
    BY <1>3 DEF Selections
<1>6. PICK headings : headings = TitleHeadings(lines, titled)
    OBVIOUS
<1>7. headings = [n \in 1..Wanted |-> [n |-> n, at |-> c[n], title |-> BaseTitles[n]]]
    BY <1>4, <1>5, <1>6 DEF TitleHeadings
<1>8. DOMAIN headings = 1..Wanted /\ Len(headings) = Wanted /\ \A p \in 1..Wanted : headings[p].at = c[p]
    BY <1>1, <1>7
<1>9. ASSUME NEW p \in 1..Wanted, NEW q \in 1..Wanted, p < q
      PROVE  c[p] < c[q]
  <2>1. PICK bad : bad = {k \in (p + 1)..Wanted : ~(c[p] < c[k])}
      OBVIOUS
  <2>2. ASSUME bad # {} PROVE FALSE
    <3>1. bad \subseteq Nat
        BY <2>1
    <3>2. PICK k \in bad : \A y \in bad : k <= y
        BY <2>2, <3>1, LeastNumber
    <3>3. k \in (p + 1)..Wanted /\ ~(c[p] < c[k])
        BY <2>1, <3>2
    <3>4. k - 1 \in p..(Wanted - 1) /\ c[k - 1] < c[k]
      <4>1. k - 1 \in 1..(Wanted - 1) /\ (k - 1) + 1 = k /\ k - 1 \in p..(Wanted - 1)
          BY <1>1, <3>3
      <4> QED BY <1>5, <4>1
    <3>5. k - 1 = p \/ c[p] < c[k - 1]
      <4>1. k - 1 \notin bad
          BY <3>2, <3>3
      <4>2. k - 1 = p \/ k - 1 \in (p + 1)..Wanted
          BY <3>4, <1>1
      <4> QED BY <2>1, <4>1, <4>2
    <3>6. c[p] \in Nat /\ c[k] \in Nat /\ c[k - 1] \in Nat
      <4>1. k \in 1..Wanted /\ k - 1 \in 1..Wanted
          BY <1>1, <3>3, <3>4
      <4> QED BY <1>5, <4>1
    <3> QED BY <3>3, <3>4, <3>5, <3>6
  <2>3. q \in (p + 1)..Wanted
      BY <1>9
  <2> QED BY <2>1, <2>2, <2>3
<1>10. InOrder(headings, size)
    BY <1>5, <1>8, <1>9 DEF InOrder
<1>11. [n \in 1..Wanted |-> headings[n].at] = c
    BY <1>5, <1>8
<1> QED BY <1>3, <1>6, <1>10, <1>11

\* What a reading says of the lines it was made from
GoodReading(r, lines, size) ==
    /\ InOrder(r.headings, size)
    /\ r.bodies = [p \in DOMAIN r.headings |-> BeforeInlineTail(lines, BodyLines(lines, r.headings, p))]
    /\ r.by # "titles" => HidesNone(lines, r.headings)

\* The properties, of a reading and the stored and displayed lines
EachPlaced(r, stored, displayed) ==
    r.headings # <<>> =>
        LET lines == IF r.by = "displayed" THEN displayed ELSE stored
        IN  \A i \in r.headings[1].at..(TailIndex(lines, r.headings[Wanted].at + 1) - 1) :
                HasAPlace(r.by, lines, r.headings, r.bodies, i)

OneReading(r, stored) ==
    LET choices == {c \in [1..Wanted -> DOMAIN stored] :
                      /\ \A n \in 1..Wanted : c[n] \in Places(stored, n)
                      /\ \A n \in 1..(Wanted - 1) : c[n] < c[n + 1]}
    IN  r.by \in {"titles", "refused audit"} =>
            IF \E c \in choices : choices = {c}
            THEN r.by = "titles" /\ {[n \in 1..Wanted |-> r.headings[n].at]} = choices
            ELSE r.by = "refused audit"

LEMMA PlacedIs == EveryLineHasAPlace <=> EachPlaced(reading, StoredLines, DisplayedLines)
BY DEF EveryLineHasAPlace, EachPlaced, LinesRead, HasAPlace, Owner

LEMMA OneReadingIs == OneReadingOnly <=> OneReading(reading, StoredLines)
BY DEF OneReadingOnly, OneReading

LEMMA GoodIsPlaced ==
    ASSUME NEW r, NEW stored, NEW displayed, NEW size,
           IsLines(stored, size), IsLines(displayed, size),
           GoodReading(r, IF r.by = "displayed" THEN displayed ELSE stored, size)
    PROVE  EachPlaced(r, stored, displayed)
<1>1. PICK lines : lines = IF r.by = "displayed" THEN displayed ELSE stored
    OBVIOUS
<1>2. IsLines(lines, size) /\ GoodReading(r, lines, size)
    BY <1>1
<1>3. PICK headings, bodies, by : headings = r.headings /\ bodies = r.bodies /\ by = r.by
    OBVIOUS
<1>4. /\ InOrder(headings, size)
      /\ bodies = [p \in DOMAIN headings |-> BeforeInlineTail(lines, BodyLines(lines, headings, p))]
      /\ by # "titles" => HidesNone(lines, headings)
    BY <1>2, <1>3 DEF GoodReading
<1>5. ASSUME NEW i \in headings[1].at..(TailIndex(lines, headings[Wanted].at + 1) - 1)
      PROVE  HasAPlace(by, lines, headings, bodies, i)
    BY <1>2, <1>4, PlacesInOrder
<1> QED BY <1>1, <1>3, <1>5 DEF EachPlaced

\* The articles of located headings
LEMMA LocatedReading ==
    ASSUME NEW lines, NEW size, IsLines(lines, size), Complete(Located(lines)), NEW by
    PROVE  GoodReading(Articles(by, lines, Located(lines).headings), lines, size)
BY LocatedInOrder DEF GoodReading, Articles

\* What the builder and the audit can make of the document
IsNewReading(r, stored, displayed) ==
    \/ r \in {Rejected("refused build"), Rejected("too few titles")}
    \/ r = Rejected("refused audit") /\ UniqueChain(stored, 1..Wanted) = <<>>
    \/ Complete(Located(stored)) /\ r = Articles("builder", stored, Located(stored).headings)
    \/ Complete(Located(stored)) /\ r = Articles("stored", stored, Located(stored).headings)
    \/ Complete(Located(displayed)) /\ r = Articles("displayed", displayed, Located(displayed).headings)
    \/ \E titled : /\ UniqueChain(stored, titled) # <<>>
                   /\ r = Articles("titles", stored, TitleHeadings(stored, titled))

LEMMA NewIsGood ==
    ASSUME NEW stored, NEW displayed, NEW size, IsLines(stored, size), IsLines(displayed, size), NEW r,
           IsNewReading(r, stored, displayed)
    PROVE  EachPlaced(r, stored, displayed) /\ OneReading(r, stored)
<1>1. PICK choices : choices = Selections(stored, size, Wanted)
    OBVIOUS
<1>2. OneReading(r, stored) <=>
          (r.by \in {"titles", "refused audit"} =>
              IF \E c \in choices : choices = {c}
              THEN r.by = "titles" /\ {[n \in 1..Wanted |-> r.headings[n].at]} = choices
              ELSE r.by = "refused audit")
    BY <1>1 DEF OneReading, Selections, IsLines
<1>3. CASE r \in {Rejected("refused build"), Rejected("too few titles")}
  <2>1. r.headings = <<>> /\ r.by \notin {"titles", "refused audit"}
    <3>1. \A by : Rejected(by).headings = <<>> /\ Rejected(by).by = by
        BY DEF Rejected
    <3>2. r.headings = <<>> /\ (r.by = "refused build" \/ r.by = "too few titles")
        BY <1>3, <3>1
    <3> QED BY <3>2
  <2> QED BY <1>2, <2>1 DEF EachPlaced
<1>4. CASE r = Rejected("refused audit") /\ UniqueChain(stored, 1..Wanted) = <<>>
  <2>1. ~\E c \in choices : choices = {c}
    <3>1. ASSUME NEW c, choices = {c} PROVE FALSE
      <4>1. CappedSum(Ways(stored)[Wanted], Len(stored) + 1) = 1
          BY <1>1, <3>1, CountOfAll
      <4>2. UniqueChain(stored, 1..Wanted) = c
          BY <1>1, <3>1, <4>1, WalkedBack DEF UniqueChain
      <4>3. c \in [1..Wanted -> 1..size]
          BY <1>1, <3>1 DEF Selections
      <4>4. DOMAIN c = 1..Wanted /\ 1 \in 1..Wanted
          BY <4>3, WantedAssumption
      <4>5. c = <<>>
          BY <1>4, <4>2
      <4> QED BY <4>4, <4>5
    <3> QED BY <3>1
  <2>2. r.by = "refused audit" /\ r.headings = <<>>
      BY <1>4 DEF Rejected
  <2> QED BY <1>2, <2>1, <2>2 DEF EachPlaced
<1>5. ASSUME NEW titled, UniqueChain(stored, titled) # <<>>,
             r = Articles("titles", stored, TitleHeadings(stored, titled))
      PROVE  EachPlaced(r, stored, displayed) /\ OneReading(r, stored)
  <2>1. /\ InOrder(TitleHeadings(stored, titled), size)
        /\ choices = {[n \in 1..Wanted |-> TitleHeadings(stored, titled)[n].at]}
      BY <1>1, <1>5, TitlesInOrder
  <2>2. r.by = "titles" /\ r.headings = TitleHeadings(stored, titled)
      BY <1>5 DEF Articles
  <2>3. GoodReading(r, stored, size)
      BY <1>5, <2>1 DEF GoodReading, Articles
  <2>4. EachPlaced(r, stored, displayed)
      BY <2>2, <2>3, GoodIsPlaced
  <2> QED BY <1>2, <2>1, <2>2, <2>4
<1>6. ASSUME NEW by \in {"builder", "stored"}, Complete(Located(stored)),
             r = Articles(by, stored, Located(stored).headings)
      PROVE  EachPlaced(r, stored, displayed) /\ OneReading(r, stored)
  <2>1. r.by = by /\ by # "displayed" /\ by \notin {"titles", "refused audit"}
      BY <1>6 DEF Articles
  <2>2. GoodReading(r, stored, size)
      BY <1>6, LocatedReading
  <2> QED BY <1>2, <2>1, <2>2, GoodIsPlaced
<1>7. CASE Complete(Located(displayed)) /\ r = Articles("displayed", displayed, Located(displayed).headings)
  <2>1. r.by = "displayed"
      BY <1>7 DEF Articles
  <2>2. GoodReading(r, displayed, size)
      BY <1>7, LocatedReading
  <2> QED BY <1>2, <2>1, <2>2, GoodIsPlaced
<1> QED BY <1>3, <1>4, <1>5, <1>6, <1>7 DEF IsNewReading

\* Once the document is made something of, neither it nor the result changes.
LEMMA ReadingInvariance == WordSpec => [](EveryLineHasAPlace /\ OneReadingOnly /\ WordInv)
<1>1. WordInit => EveryLineHasAPlace /\ OneReadingOnly
    BY DEF WordInit, Unread, EveryLineHasAPlace, OneReadingOnly
<1>2. ASSUME EveryLineHasAPlace, OneReadingOnly, WordInv, WordInv', [ReadNext]_wordVars
      PROVE  EveryLineHasAPlace' /\ OneReadingOnly'
  <2>1. PICK stored, displayed, size :
            stored = StoredLines' /\ displayed = DisplayedLines' /\ size = Len(word')
      OBVIOUS
  <2>2. IsLines(stored, size) /\ IsLines(displayed, size)
    <3>1. Len(word') \in Nat /\ DOMAIN word' = 1..Len(word')
        BY DEF WordInv, WordShapes
    <3> QED BY <2>1, <3>1 DEF IsLines, StoredLines, DisplayedLines
  <2>3. EveryLineHasAPlace' <=> EachPlaced(reading', stored, displayed)
      BY <2>1 DEF EveryLineHasAPlace, EachPlaced, LinesRead, HasAPlace, Owner
  <2>4. OneReadingOnly' <=> OneReading(reading', stored)
      BY <2>1 DEF OneReadingOnly, OneReading
  <2>5. ASSUME EachPlaced(reading', stored, displayed), OneReading(reading', stored)
        PROVE  EveryLineHasAPlace' /\ OneReadingOnly'
      BY <2>3, <2>4, <2>5
  <2>6. CASE UNCHANGED <<word, labels, reading>>
    <3>1. stored = StoredLines /\ displayed = DisplayedLines /\ reading' = reading
        BY <2>1, <2>6 DEF StoredLines, DisplayedLines
    <3>2. EachPlaced(reading, stored, displayed) /\ OneReading(reading, stored)
        BY <1>2, <3>1, PlacedIs, OneReadingIs
    <3> QED BY <2>5, <3>1, <3>2
  <2>7. ASSUME NEW p, ReadParagraph(p)
        PROVE  EveryLineHasAPlace' /\ OneReadingOnly'
    <3>1. reading' = Unread
        BY <2>7 DEF ReadParagraph
    <3>2. reading' = Unread => EachPlaced(reading', stored, displayed) /\ OneReading(reading', stored)
        BY DEF Unread, EachPlaced, OneReading
    <3> QED BY <2>5, <3>1, <3>2
  <2>8. CASE BuildArticles
    <3>1. stored = StoredLines /\ displayed = DisplayedLines
        BY <2>1, <2>8 DEF BuildArticles, StoredLines, DisplayedLines
    <3>2. \/ reading' = Rejected("refused build")
          \/ Complete(Located(stored)) /\ reading' = Articles("builder", stored, Located(stored).headings)
        BY <2>8, <3>1 DEF BuildArticles
    <3> QED BY <2>2, <2>5, <3>2, NewIsGood DEF IsNewReading
  <2>9. ASSUME NEW titled, ExtractArticles(titled)
        PROVE  EveryLineHasAPlace' /\ OneReadingOnly'
    <3>1. stored = StoredLines /\ displayed = DisplayedLines
        BY <2>1, <2>9 DEF ExtractArticles, StoredLines, DisplayedLines
    <3>2. \/ reading' = Rejected("too few titles")
          \/ reading' = Rejected("refused audit") /\ UniqueChain(stored, 1..Wanted) = <<>>
          \/ Complete(Located(stored)) /\ reading' = Articles("stored", stored, Located(stored).headings)
          \/ Complete(Located(displayed)) /\ reading' = Articles("displayed", displayed, Located(displayed).headings)
          \/ /\ UniqueChain(stored, titled) # <<>>
             /\ reading' = Articles("titles", stored, TitleHeadings(stored, titled))
        BY <2>9, <3>1 DEF ExtractArticles
    <3> QED BY <2>2, <2>5, <3>2, NewIsGood DEF IsNewReading
  <2> QED BY <1>2, <2>6, <2>7, <2>8, <2>9 DEF ReadNext, wordVars
<1>3. EveryLineHasAPlace /\ OneReadingOnly /\ WordInv /\ WordInv' /\ [ReadNext]_wordVars
          => EveryLineHasAPlace' /\ OneReadingOnly'
    BY <1>2
<1> QED BY <1>1, <1>3, WordInvariance, PTL DEF WordSpec

\* Every line between the first heading and the tail of the last article ends in
\* exactly one place, however headings, page headers and chapters follow each
\* other (build_official_docx_release.py, audit_canonical_source_binding.py).
THEOREM LinesHaveTheirPlace == WordSpec => []EveryLineHasAPlace
BY ReadingInvariance, PTL

\* The capped counting of chains of titles finds the only way to read a document
\* by its titles, for any number of articles and lines, and refuses any other
\* document (audit_canonical_source_binding.py, _unique_title_sequence).
THEOREM TitlesHaveOneReading == WordSpec => []OneReadingOnly
BY ReadingInvariance, PTL

-----------------------------------------------------------------------------
(* LegalParser                                                               *)

ParserSpec == ParserInit /\ [][ParserNext]_parserVars

\* What ends an article
Boundary == {"chapter", "section", "heading", "article"}

\* Home, InAppendix, ArticleOf, AnchorAt and LinkPlaces of the tags h
BoundariesIn(h, p) == {q \in 1..(p - 1) : h[q].kind \in Boundary}
HomeIn(h, p) ==
    IF BoundariesIn(h, p) = {} \/ h[LastOf(BoundariesIn(h, p))].kind # "article"
    THEN 0 ELSE LastOf(BoundariesIn(h, p))
AppendixIn(h, p) == HomeIn(h, p) # 0 /\ \E q \in (HomeIn(h, p) + 1)..p : h[q].kind = "appendix"
ArticlesTo(h, p) == {q \in 1..p : h[q].kind = "article"}
ArticleIn(h, p) == Cardinality(ArticlesTo(h, HomeIn(h, p)))
MarkersIn(h, p) == {q \in 1..(p - 1) : h[q].kind \in {"chapter", "section"}}
AnchorIn(h, p) == IF MarkersIn(h, p) = {} THEN Nil ELSE h[LastOf(MarkersIn(h, p))].value

LEMMA LastIs ==
    ASSUME NEW n \in Nat, NEW T, T \subseteq 1..n, T # {}
    PROVE  LastOf(T) \in T /\ \A y \in T : y <= LastOf(T)
<1>1. \E x \in T : \A y \in T : y <= x
    BY LastNumber
<1> QED BY <1>1 DEF LastOf

LEMMA HomeBefore ==
    ASSUME NEW h, NEW p \in Nat \ {0}
    PROVE  HomeIn(h, p) \in 0..(p - 1)
<1>1. BoundariesIn(h, p) \subseteq 1..(p - 1) /\ p - 1 \in Nat
    BY DEF BoundariesIn
<1>2. CASE BoundariesIn(h, p) = {}
    BY <1>2 DEF HomeIn
<1>3. CASE BoundariesIn(h, p) # {}
  <2>1. LastOf(BoundariesIn(h, p)) \in 1..(p - 1)
      BY <1>1, <1>3, LastIs
  <2> QED BY <2>1 DEF HomeIn
<1> QED BY <1>2, <1>3

LEMMA ArticlesAreFinite ==
    ASSUME NEW h, NEW p \in Nat
    PROVE  IsFiniteSet(ArticlesTo(h, p)) /\ Cardinality(ArticlesTo(h, p)) \in Nat
<1>1. IsFiniteSet(1..p) /\ ArticlesTo(h, p) \subseteq 1..p
    BY FS_Interval DEF ArticlesTo
<1> QED BY <1>1, FS_Subset, FS_CardinalityType

\* Where a tag stands depends on what was read before it alone.
LEMMA StandsAsRead ==
    ASSUME NEW n \in Nat, NEW h, NEW g, \A q \in 1..n : g[q] = h[q], NEW p \in 1..(n + 1)
    PROVE  /\ HomeIn(g, p) = HomeIn(h, p)
           /\ ArticleIn(g, p) = ArticleIn(h, p)
           /\ AnchorIn(g, p) = AnchorIn(h, p)
           /\ p \in 1..n => (AppendixIn(g, p) <=> AppendixIn(h, p))
<1>1. BoundariesIn(g, p) = BoundariesIn(h, p) /\ MarkersIn(g, p) = MarkersIn(h, p)
    BY DEF BoundariesIn, MarkersIn
<1>2. BoundariesIn(h, p) # {} => LastOf(BoundariesIn(h, p)) \in 1..n
  <2>1. BoundariesIn(h, p) \subseteq 1..n
      BY DEF BoundariesIn
  <2> QED BY <2>1, LastIs
<1>3. MarkersIn(h, p) # {} => LastOf(MarkersIn(h, p)) \in 1..n
  <2>1. MarkersIn(h, p) \subseteq 1..n
      BY DEF MarkersIn
  <2> QED BY <2>1, LastIs
<1>4. HomeIn(g, p) = HomeIn(h, p)
    BY <1>1, <1>2 DEF HomeIn
<1>5. HomeIn(h, p) \in 0..n
  <2>1. HomeIn(h, p) \in 0..(p - 1)
      BY HomeBefore
  <2> QED BY <2>1
<1>6. ArticleIn(g, p) = ArticleIn(h, p)
  <2>1. ArticlesTo(g, HomeIn(h, p)) = ArticlesTo(h, HomeIn(h, p))
      BY <1>5 DEF ArticlesTo
  <2> QED BY <1>4, <2>1 DEF ArticleIn
<1>7. AnchorIn(g, p) = AnchorIn(h, p)
    BY <1>1, <1>3 DEF AnchorIn
<1>8. ASSUME p \in 1..n PROVE AppendixIn(g, p) <=> AppendixIn(h, p)
  <2>1. \A q \in (HomeIn(h, p) + 1)..p : q \in 1..n
      BY <1>5, <1>8
  <2> QED BY <1>4, <2>1 DEF AppendixIn
<1> QED BY <1>4, <1>6, <1>7, <1>8

\* What comes after a tag
LEMMA NextStands ==
    ASSUME NEW n \in Nat, NEW h
    PROVE  /\ HomeIn(h, n + 2) = IF h[n + 1].kind = "article" THEN n + 1
                                 ELSE IF h[n + 1].kind \in Boundary THEN 0
                                 ELSE HomeIn(h, n + 1)
           /\ AnchorIn(h, n + 2) = IF h[n + 1].kind \in {"chapter", "section"} THEN h[n + 1].value
                                   ELSE AnchorIn(h, n + 1)
<1>1. ASSUME h[n + 1].kind \in Boundary
      PROVE  BoundariesIn(h, n + 2) # {} /\ LastOf(BoundariesIn(h, n + 2)) = n + 1
  <2>1. n + 1 \in BoundariesIn(h, n + 2) /\ BoundariesIn(h, n + 2) \subseteq 1..(n + 1)
      BY <1>1 DEF BoundariesIn
  <2>2. LastOf(BoundariesIn(h, n + 2)) \in BoundariesIn(h, n + 2) /\ n + 1 <= LastOf(BoundariesIn(h, n + 2))
      BY <2>1, LastIs
  <2> QED BY <2>1, <2>2
<1>2. ASSUME h[n + 1].kind \notin Boundary
      PROVE  BoundariesIn(h, n + 2) = BoundariesIn(h, n + 1)
    BY <1>2 DEF BoundariesIn
<1>3. ASSUME h[n + 1].kind \in {"chapter", "section"}
      PROVE  MarkersIn(h, n + 2) # {} /\ LastOf(MarkersIn(h, n + 2)) = n + 1
  <2>1. n + 1 \in MarkersIn(h, n + 2) /\ MarkersIn(h, n + 2) \subseteq 1..(n + 1)
      BY <1>3 DEF MarkersIn
  <2>2. LastOf(MarkersIn(h, n + 2)) \in MarkersIn(h, n + 2) /\ n + 1 <= LastOf(MarkersIn(h, n + 2))
      BY <2>1, LastIs
  <2> QED BY <2>1, <2>2
<1>4. ASSUME h[n + 1].kind \notin {"chapter", "section"}
      PROVE  MarkersIn(h, n + 2) = MarkersIn(h, n + 1)
    BY <1>4 DEF MarkersIn
<1>5. AnchorIn(h, n + 2) = IF h[n + 1].kind \in {"chapter", "section"} THEN h[n + 1].value
                           ELSE AnchorIn(h, n + 1)
    BY <1>3, <1>4 DEF AnchorIn
<1>6. "article" \in Boundary
    BY DEF Boundary
<1>7. HomeIn(h, n + 2) = IF BoundariesIn(h, n + 2) = {} \/ h[LastOf(BoundariesIn(h, n + 2))].kind # "article"
                         THEN 0 ELSE LastOf(BoundariesIn(h, n + 2))
    BY DEF HomeIn
<1>8. HomeIn(h, n + 2) = IF h[n + 1].kind = "article" THEN n + 1
                         ELSE IF h[n + 1].kind \in Boundary THEN 0
                         ELSE HomeIn(h, n + 1)
  <2>1. CASE h[n + 1].kind \in Boundary
      BY <1>1, <1>7, <2>1
  <2>2. CASE h[n + 1].kind \notin Boundary
    <3>1. HomeIn(h, n + 2) = HomeIn(h, n + 1)
        BY <1>2, <1>7, <2>2 DEF HomeIn
    <3> QED BY <1>6, <2>2, <3>1
  <2> QED BY <2>1, <2>2
<1> QED BY <1>5, <1>8

\* Where the next tag goes, and how many articles there are
Contained(h, n, way, count) ==
    /\ count = Cardinality(ArticlesTo(h, n))
    /\ way \in {"outside", "article", "appendix"}
    /\ way = "outside" <=> HomeIn(h, n + 1) = 0
    /\ way = "appendix" <=> /\ HomeIn(h, n + 1) # 0
                            /\ \E q \in (HomeIn(h, n + 1) + 1)..n : h[q].kind = "appendix"
    /\ HomeIn(h, n + 1) # 0 => count > 0 /\ ArticleIn(h, n + 1) = count

LEMMA GoesFirst == ASSUME NEW h PROVE Contained(h, 0, "outside", 0)
<1>1. BoundariesIn(h, 1) = {} /\ ArticlesTo(h, 0) = {}
    BY DEF BoundariesIn, ArticlesTo
<1>2. HomeIn(h, 1) = 0 /\ 0 + 1 = 1
    BY <1>1 DEF HomeIn
<1> QED BY <1>1, <1>2, FS_EmptySet DEF Contained

LEMMA GoesOn ==
    ASSUME NEW n \in Nat, NEW h, NEW g, \A q \in 1..n : g[q] = h[q],
           NEW way, NEW count, Contained(h, n, way, count)
    PROVE  /\ g[n + 1].kind = "article" => Contained(g, n + 1, "article", count + 1)
           /\ g[n + 1].kind \in Boundary \ {"article"} => Contained(g, n + 1, "outside", count)
           /\ g[n + 1].kind = "appendix" /\ way # "outside" => Contained(g, n + 1, "appendix", count)
           /\ g[n + 1].kind \notin Boundary /\ (g[n + 1].kind = "appendix" => way = "outside") =>
                Contained(g, n + 1, way, count)
<1>1. n + 1 \in Nat /\ (n + 1) + 1 = n + 2 /\ n + 1 \in 1..(n + 1)
    OBVIOUS
<1> PICK home : home = HomeIn(h, n + 1)
    OBVIOUS
<1>2. home \in 0..n /\ HomeIn(g, n + 1) = home /\ ArticleIn(g, n + 1) = ArticleIn(h, n + 1)
  <2>1. home \in 0..((n + 1) - 1)
      BY HomeBefore
  <2>2. HomeIn(g, n + 1) = HomeIn(h, n + 1) /\ ArticleIn(g, n + 1) = ArticleIn(h, n + 1)
      BY <1>1, StandsAsRead
  <2> QED BY <2>1, <2>2
<1>3. count = Cardinality(ArticlesTo(h, n)) /\ count \in Nat /\ IsFiniteSet(ArticlesTo(h, n))
    BY ArticlesAreFinite DEF Contained
<1>4. ArticlesTo(g, n + 1) = IF g[n + 1].kind = "article" THEN ArticlesTo(h, n) \cup {n + 1} ELSE ArticlesTo(h, n)
    BY DEF ArticlesTo
<1>5. n + 1 \notin ArticlesTo(h, n)
    BY DEF ArticlesTo
<1>6. Cardinality(ArticlesTo(g, n + 1)) = IF g[n + 1].kind = "article" THEN count + 1 ELSE count
    BY <1>3, <1>4, <1>5, FS_AddElement
<1>7. HomeIn(g, n + 2) = IF g[n + 1].kind = "article" THEN n + 1
                         ELSE IF g[n + 1].kind \in Boundary THEN 0 ELSE home
    BY <1>2, NextStands
<1>8. ASSUME g[n + 1].kind = "article"
      PROVE  Contained(g, n + 1, "article", count + 1)
  <2>1. HomeIn(g, (n + 1) + 1) = n + 1
      BY <1>1, <1>7, <1>8
  <2>2. ArticleIn(g, (n + 1) + 1) = count + 1
      BY <1>6, <1>8, <2>1 DEF ArticleIn
  <2>3. ~\E q \in ((n + 1) + 1)..(n + 1) : g[q].kind = "appendix"
      OBVIOUS
  <2> QED BY <1>3, <1>6, <1>8, <2>1, <2>2, <2>3 DEF Contained
<1>9. ASSUME g[n + 1].kind \in Boundary \ {"article"}
      PROVE  Contained(g, n + 1, "outside", count)
  <2>1. HomeIn(g, (n + 1) + 1) = 0
      BY <1>1, <1>7, <1>9
  <2> QED BY <1>6, <1>9, <2>1 DEF Contained
<1>10. ASSUME g[n + 1].kind \notin Boundary
       PROVE  /\ HomeIn(g, (n + 1) + 1) = home
              /\ home # 0 => ArticleIn(g, (n + 1) + 1) = count
              /\ Cardinality(ArticlesTo(g, n + 1)) = count
              /\ way = "outside" <=> home = 0
              /\ way \in {"outside", "article", "appendix"}
              /\ home # 0 => count > 0
              /\ way = "appendix" <=> home # 0 /\ \E q \in (home + 1)..n : h[q].kind = "appendix"
  <2>1. "article" \in Boundary
      BY DEF Boundary
  <2>2. HomeIn(g, (n + 1) + 1) = home
      BY <1>1, <1>7, <1>10, <2>1
  <2>3. home # 0 => ArticleIn(g, n + 1) = count
      BY <1>2 DEF Contained
  <2>4. ArticleIn(g, (n + 1) + 1) = ArticleIn(g, n + 1)
      BY <1>2, <2>2 DEF ArticleIn
  <2> QED BY <1>6, <1>10, <2>1, <2>2, <2>3, <2>4 DEF Contained
<1>11. ASSUME g[n + 1].kind = "appendix", way # "outside"
       PROVE  Contained(g, n + 1, "appendix", count)
  <2>1. g[n + 1].kind \notin Boundary
      BY <1>11 DEF Boundary
  <2>2. home # 0 /\ n + 1 \in (home + 1)..(n + 1)
      BY <1>2, <1>10, <1>11, <2>1
  <2> QED BY <1>10, <1>11, <2>1, <2>2 DEF Contained
<1>12. ASSUME g[n + 1].kind \notin Boundary, g[n + 1].kind = "appendix" => way = "outside"
       PROVE  Contained(g, n + 1, way, count)
  <2>1. home # 0 => ((\E q \in (home + 1)..n : h[q].kind = "appendix") <=>
                     (\E q \in (home + 1)..(n + 1) : g[q].kind = "appendix"))
    <3>1. \A q \in (home + 1)..(n + 1) : q = n + 1 \/ (q \in (home + 1)..n /\ q \in 1..n)
        BY <1>2
    <3>2. \A q \in (home + 1)..n : q \in (home + 1)..(n + 1) /\ q \in 1..n
        BY <1>2
    <3>3. home # 0 => g[n + 1].kind # "appendix"
        BY <1>10, <1>12
    <3> QED BY <3>1, <3>2, <3>3
  <2> QED BY <1>10, <1>12, <2>1 DEF Contained
<1> QED BY <1>8, <1>9, <1>11, <1>12

\* Where the tag that is read stands
LEMMA GoesHere ==
    ASSUME NEW n \in Nat, NEW h, NEW g, \A q \in 1..n : g[q] = h[q],
           NEW way, NEW count, Contained(h, n, way, count)
    PROVE  /\ HomeIn(g, n + 1) = 0 <=> way = "outside"
           /\ AppendixIn(g, n + 1) <=> way = "appendix" \/ (way = "article" /\ g[n + 1].kind = "appendix")
           /\ way # "outside" => ArticleIn(g, n + 1) = count /\ count > 0
<1> PICK home : home = HomeIn(h, n + 1)
    OBVIOUS
<1>1. n + 1 \in 1..(n + 1) /\ n + 1 \in Nat
    OBVIOUS
<1>2. home \in 0..n /\ HomeIn(g, n + 1) = home /\ ArticleIn(g, n + 1) = ArticleIn(h, n + 1)
  <2>1. home \in 0..((n + 1) - 1)
      BY HomeBefore
  <2>2. HomeIn(g, n + 1) = HomeIn(h, n + 1) /\ ArticleIn(g, n + 1) = ArticleIn(h, n + 1)
      BY <1>1, StandsAsRead
  <2> QED BY <2>1, <2>2
<1>3. \A q \in (home + 1)..(n + 1) : q = n + 1 \/ (q \in (home + 1)..n /\ q \in 1..n)
    BY <1>2
<1>4. \A q \in (home + 1)..n : q \in (home + 1)..(n + 1) /\ q \in 1..n
    BY <1>2
<1>5. n + 1 \in (home + 1)..(n + 1)
    BY <1>2
<1>6. way = "appendix" <=> home # 0 /\ \E q \in (home + 1)..n : h[q].kind = "appendix"
    BY DEF Contained
<1>7. way = "outside" <=> home = 0
    BY DEF Contained
<1>8. (\E q \in (home + 1)..(n + 1) : g[q].kind = "appendix") <=>
          ((\E q \in (home + 1)..n : h[q].kind = "appendix") \/ g[n + 1].kind = "appendix")
    BY <1>3, <1>4, <1>5
<1>9. way \in {"outside", "article", "appendix"}
    BY DEF Contained
<1>10. way # "outside" => ArticleIn(h, n + 1) = count /\ count > 0
    BY DEF Contained
<1> QED BY <1>2, <1>6, <1>7, <1>8, <1>9, <1>10 DEF AppendixIn

\* No tag stands in an article that is not read yet.
LEMMA ArticlesSoFar ==
    ASSUME NEW n \in Nat, NEW h, NEW p \in 1..(n + 1)
    PROVE  ArticleIn(h, p) <= Cardinality(ArticlesTo(h, n)) /\ ArticleIn(h, p) \in Nat
<1>1. HomeIn(h, p) \in 0..n /\ p \in Nat \ {0}
  <2>1. HomeIn(h, p) \in 0..(p - 1)
      BY HomeBefore
  <2> QED BY <2>1
<1>2. ArticlesTo(h, HomeIn(h, p)) \subseteq ArticlesTo(h, n)
    BY <1>1 DEF ArticlesTo
<1>3. IsFiniteSet(ArticlesTo(h, n))
    BY ArticlesAreFinite
<1>4. Cardinality(ArticlesTo(h, HomeIn(h, p))) <= Cardinality(ArticlesTo(h, n))
    BY <1>2, <1>3, FS_Subset
<1> QED BY <1>1, <1>4, ArticlesAreFinite DEF ArticleIn

\* Outside the articles there is no article.
LEMMA NoArticleOutside ==
    ASSUME NEW h, NEW p \in Nat \ {0}
    PROVE  ArticleIn(h, p) = 0 <=> HomeIn(h, p) = 0
<1>1. HomeIn(h, p) \in 0..(p - 1)
    BY HomeBefore
<1>2. CASE HomeIn(h, p) = 0
  <2>1. ArticlesTo(h, 0) = {}
      BY DEF ArticlesTo
  <2> QED BY <1>2, <2>1, FS_EmptySet DEF ArticleIn
<1>3. CASE HomeIn(h, p) # 0
  <2>1. BoundariesIn(h, p) # {} /\ HomeIn(h, p) = LastOf(BoundariesIn(h, p))
             /\ h[LastOf(BoundariesIn(h, p))].kind = "article"
      BY <1>3 DEF HomeIn
  <2>2. HomeIn(h, p) \in ArticlesTo(h, HomeIn(h, p))
      BY <1>1, <1>3, <2>1 DEF ArticlesTo
  <2>3. IsFiniteSet(ArticlesTo(h, HomeIn(h, p)))
      BY <1>1, ArticlesAreFinite
  <2>4. Cardinality(ArticlesTo(h, HomeIn(h, p))) # 0
      BY <2>2, <2>3, FS_EmptySet
  <2> QED BY <1>3, <2>4 DEF ArticleIn
<1> QED BY <1>2, <1>3

-----------------------------------------------------------------------------
(* The units of an article                                                   *)

ArticleFields ==
    {"id", "chapter", "section", "note", "marked", "early", "citations", "blocks", "tables",
     "units", "clause", "preambles", "continuations", "stack"}

\* An article that differs from another in some fields at most
Differs(r, art, fields) ==
    DOMAIN r = ArticleFields /\ \A f \in ArticleFields \ fields : r[f] = art[f]

NewUnit(units, type, base, clause, at) ==
    [base |-> base, occurrence |-> Occurrences(units, base) + 1, type |-> type, clause |-> clause, at |-> at]

LEMMA AddsUnit ==
    ASSUME NEW art, DOMAIN art = ArticleFields, NEW type, NEW base, NEW clause, NEW at
    PROVE  /\ AddUnit(art, type, base, clause, at).units = Append(art.units, NewUnit(art.units, type, base, clause, at))
           /\ Differs(AddUnit(art, type, base, clause, at), art, {"units"})
<1>1. "units" \in DOMAIN art
    BY DEF ArticleFields
<1> PICK u : u = NewUnit(art.units, type, base, clause, at)
    OBVIOUS
<1> PICK us : us = Append(art.units, u)
    OBVIOUS
<1>2. AddUnit(art, type, base, clause, at) = [art EXCEPT !.units = us]
    BY DEF AddUnit, NewUnit
<1>3. [art EXCEPT !.units = us].units = us
    BY <1>1
<1>4. Differs([art EXCEPT !.units = us], art, {"units"})
    BY DEF Differs
<1> QED BY <1>2, <1>3, <1>4

LEMMA DiffersOn ==
    ASSUME NEW art, NEW r, NEW q, NEW F, NEW G, Differs(r, art, F), Differs(q, r, G)
    PROVE  Differs(q, art, F \cup G)
BY DEF Differs

\* The unit of a tag: a clause, or a part of the current clause
LEMMA TextUnit ==
    ASSUME NEW art, DOMAIN art = ArticleFields, NEW tag, NEW at
    PROVE  \E type, base, clause :
             /\ UnitOf(art, tag, at).units = Append(art.units, NewUnit(art.units, type, base, clause, at))
             /\ Differs(UnitOf(art, tag, at), art, {"units", "clause", "preambles", "continuations"})
             /\ type # "table"
             /\ clause = UnitOf(art, tag, at).clause
             /\ UnitOf(art, tag, at).clause = IF type = "clause" THEN tag.value ELSE art.clause
<1> PICK F : F = {"units", "clause", "preambles", "continuations"}
    OBVIOUS
<1>0. /\ "clause" \in ArticleFields \ {"units"} /\ "units" \in ArticleFields \ {"clause", "continuations"}
      /\ "units" \in ArticleFields \ {"preambles"} /\ "units" \in ArticleFields \ {"continuations"}
      /\ "clause" \in ArticleFields \ {"preambles"} /\ "clause" \in ArticleFields \ {"continuations"}
      /\ "clause" \in ArticleFields /\ "preambles" \in ArticleFields /\ "continuations" \in ArticleFields
    BY DEF ArticleFields
<1>1. CASE tag.kind = "clause"
  <2>1. PICK r : r = [art EXCEPT !.clause = tag.value, !.continuations = 0]
      OBVIOUS
  <2>2. Differs(r, art, {"clause", "continuations"}) /\ r.clause = tag.value
      BY <1>0, <2>1 DEF Differs
  <2>3. r.units = art.units
      BY <1>0, <2>2 DEF Differs
  <2>4. PICK base : base = <<"clause", tag.value>>
      OBVIOUS
  <2>5. PICK q : q = AddUnit(r, "clause", base, tag.value, at)
      OBVIOUS
  <2>6. UnitOf(art, tag, at) = q
      BY <1>1, <2>1, <2>4, <2>5 DEF UnitOf, ClauseUnit
  <2>7. q.units = Append(r.units, NewUnit(r.units, "clause", base, tag.value, at)) /\ Differs(q, r, {"units"})
      BY <2>2, <2>5, AddsUnit DEF Differs
  <2>8. q.clause = tag.value
      BY <1>0, <2>2, <2>7 DEF Differs
  <2>9. Differs(q, art, F)
      BY <2>2, <2>7 DEF Differs
  <2> QED BY <2>3, <2>6, <2>7, <2>8, <2>9
<1>2. CASE tag.kind = "point"
  <2>1. PICK base : base = <<"clause", IF art.clause = Nil THEN "unknown" ELSE art.clause, "point", tag.value>>
      OBVIOUS
  <2>2. PICK q : q = AddUnit(art, "point", base, art.clause, at)
      OBVIOUS
  <2>3. UnitOf(art, tag, at) = q
      BY <1>2, <2>1, <2>2 DEF UnitOf, PointUnit
  <2>4. q.units = Append(art.units, NewUnit(art.units, "point", base, art.clause, at)) /\ Differs(q, art, {"units"})
      BY <2>2, AddsUnit
  <2>5. q.clause = art.clause
      BY <1>0, <2>4 DEF Differs
  <2>6. Differs(q, art, F)
      BY <2>4 DEF Differs
  <2> QED BY <2>3, <2>4, <2>5, <2>6
<1>3. CASE tag.kind \notin {"clause", "point"}
  <2>0. UnitOf(art, tag, at) = PlainUnit(art, at)
      BY <1>3 DEF UnitOf
  <2>1. CASE art.clause = Nil
    <3>1. PICK r : r = [art EXCEPT !.preambles = art.preambles + 1]
        OBVIOUS
    <3>2. Differs(r, art, {"preambles"})
        BY <3>1 DEF Differs
    <3>3. r.units = art.units /\ r.clause = art.clause
        BY <1>0, <3>2 DEF Differs
    <3>4. PICK base : base = <<"preamble", ToString(art.preambles + 1)>>
        OBVIOUS
    <3>5. PICK q : q = AddUnit(r, "preamble", base, Nil, at)
        OBVIOUS
    <3>6. PlainUnit(art, at) = q
        BY <2>1, <3>1, <3>4, <3>5 DEF PlainUnit
    <3>7. q.units = Append(r.units, NewUnit(r.units, "preamble", base, Nil, at)) /\ Differs(q, r, {"units"})
        BY <3>2, <3>5, AddsUnit DEF Differs
    <3>8. q.clause = art.clause
        BY <1>0, <3>3, <3>7 DEF Differs
    <3>9. Differs(q, art, F)
        BY <3>2, <3>7 DEF Differs
    <3> QED BY <2>0, <2>1, <3>3, <3>6, <3>7, <3>8, <3>9
  <2>2. CASE art.clause # Nil
    <3>1. PICK r : r = [art EXCEPT !.continuations = art.continuations + 1]
        OBVIOUS
    <3>2. Differs(r, art, {"continuations"})
        BY <3>1 DEF Differs
    <3>3. r.units = art.units /\ r.clause = art.clause
        BY <1>0, <3>2 DEF Differs
    <3>4. PICK base : base = <<"clause", art.clause, "continuation", ToString(art.continuations + 1)>>
        OBVIOUS
    <3>5. PICK q : q = AddUnit(r, "clause_continuation", base, art.clause, at)
        OBVIOUS
    <3>6. PlainUnit(art, at) = q
        BY <2>2, <3>1, <3>4, <3>5 DEF PlainUnit
    <3>7. /\ q.units = Append(r.units, NewUnit(r.units, "clause_continuation", base, art.clause, at))
          /\ Differs(q, r, {"units"})
        BY <3>2, <3>5, AddsUnit DEF Differs
    <3>8. q.clause = art.clause
        BY <1>0, <3>3, <3>7 DEF Differs
    <3>9. Differs(q, art, F)
        BY <3>2, <3>7 DEF Differs
    <3> QED BY <2>0, <3>3, <3>6, <3>7, <3>8, <3>9
  <2> QED BY <2>1, <2>2
<1> QED BY <1>1, <1>2, <1>3

\* What a quotation does to the numbering that surrounds all quotations
Bottom(clause, stack) == IF stack = <<>> THEN clause ELSE stack[1][1]
OpenFor(tag, open) ==
    LET opened == IF tag.opens THEN open + 1 ELSE open
    IN  IF tag.closes /\ opened > 0 THEN opened - 1 ELSE opened

LEMMA OpensQuote ==
    ASSUME NEW art, DOMAIN art = ArticleFields, art.stack \in Seq(ToSet(art.stack)), NEW tag
    PROVE  LET r == OpenQuote(art, tag) IN
             /\ Differs(r, art, {"clause", "continuations", "stack"})
             /\ r.stack \in Seq(ToSet(r.stack))
             /\ Len(r.stack) = IF tag.opens THEN Len(art.stack) + 1 ELSE Len(art.stack)
             /\ Bottom(r.clause, r.stack) = Bottom(art.clause, art.stack)
<1> PICK r : r = OpenQuote(art, tag)
    OBVIOUS
<1>1. CASE ~tag.opens
    BY <1>1 DEF OpenQuote, Differs
<1>2. CASE tag.opens
  <2>1. PICK s, pair : s = Append(art.stack, pair) /\ pair = <<art.clause, art.continuations>>
      OBVIOUS
  <2>2. r = [art EXCEPT !.stack = s, !.clause = Nil, !.continuations = 0]
      BY <1>2, <2>1 DEF OpenQuote
  <2>3. Differs(r, art, {"clause", "continuations", "stack"}) /\ r.stack = s
      BY <2>2 DEF Differs, ArticleFields
  <2>4. /\ s \in Seq(ToSet(s)) /\ Len(s) = Len(art.stack) + 1 /\ Len(art.stack) \in Nat
        /\ \A i \in 1..Len(art.stack) : s[i] = art.stack[i]
        /\ s[Len(art.stack) + 1] = pair /\ pair[1] = art.clause
      BY <2>1, Appended
  <2>5. s # <<>> /\ (art.stack = <<>> => Len(art.stack) = 0) /\ (art.stack # <<>> => Len(art.stack) > 0)
      BY <2>4
  <2>6. Bottom(r.clause, s) = Bottom(art.clause, art.stack)
      BY <2>4, <2>5 DEF Bottom
  <2> QED BY <1>2, <2>3, <2>4, <2>6
<1> QED BY <1>1, <1>2

LEMMA ClosesQuote ==
    ASSUME NEW art, DOMAIN art = ArticleFields, art.stack \in Seq(ToSet(art.stack)), NEW tag
    PROVE  LET r == CloseQuote(art, tag) IN
             /\ Differs(r, art, {"clause", "continuations", "stack"})
             /\ r.stack \in Seq(ToSet(r.stack))
             /\ Len(r.stack) = IF tag.closes /\ Len(art.stack) > 0 THEN Len(art.stack) - 1 ELSE Len(art.stack)
             /\ Bottom(r.clause, r.stack) = Bottom(art.clause, art.stack)
<1> PICK r : r = CloseQuote(art, tag)
    OBVIOUS
<1>0. Len(art.stack) \in Nat /\ (art.stack = <<>> <=> Len(art.stack) = 0)
    OBVIOUS
<1>1. CASE ~(tag.closes /\ art.stack # <<>>)
  <2>1. r = art
      BY <1>1 DEF CloseQuote
  <2> QED BY <1>0, <1>1, <2>1 DEF Differs
<1>2. CASE tag.closes /\ art.stack # <<>>
  <2>1. PICK s, c, k : s = Front(art.stack) /\ c = Last(art.stack)[1] /\ k = Last(art.stack)[2]
      OBVIOUS
  <2>2. r = [art EXCEPT !.clause = c, !.continuations = k, !.stack = s]
      BY <1>2, <2>1 DEF CloseQuote
  <2>3. Differs(r, art, {"clause", "continuations", "stack"}) /\ r.stack = s /\ r.clause = c
      BY <2>2 DEF Differs, ArticleFields
  <2>4. /\ Len(s) = Len(art.stack) - 1 /\ s \in Seq(ToSet(art.stack))
        /\ \A i \in 1..Len(s) : s[i] = art.stack[i]
      BY <1>0, <1>2, <2>1 DEF Front
  <2>5. s \in Seq(ToSet(s))
      BY <2>4 DEF ToSet
  <2>6. Bottom(c, s) = Bottom(art.clause, art.stack)
    <3>1. CASE s = <<>>
      <4>1. Len(art.stack) = 1
          BY <1>0, <2>4, <3>1
      <4> QED BY <1>2, <2>1, <3>1, <4>1 DEF Bottom, Last
    <3>2. CASE s # <<>>
      <4>1. 1 \in 1..Len(s)
          BY <2>4, <3>2
      <4> QED BY <1>2, <2>4, <3>2, <4>1 DEF Bottom
    <3> QED BY <3>1, <3>2
  <2> QED BY <1>0, <1>2, <2>3, <2>4, <2>5, <2>6
<1> QED BY <1>1, <1>2

\* What one unit more does to an article
Extended(r, art, tag, at, type, base, clause) ==
    /\ r.units = Append(art.units, NewUnit(art.units, type, base, clause, at))
    /\ Differs(r, art, {"units", "clause", "preambles", "continuations", "stack"})
    /\ r.stack \in Seq(ToSet(r.stack))
    /\ clause = IF type = "clause" THEN tag.value ELSE art.clause
    /\ Len(r.stack) = IF type = "table" THEN Len(art.stack) ELSE OpenFor(tag, Len(art.stack))
    /\ Bottom(r.clause, r.stack) = Bottom(clause, art.stack)

\* A tag makes one unit, or none when it is a marker or a link to a file.
LEMMA ExtendsUnits ==
    ASSUME NEW art, DOMAIN art = ArticleFields, art.stack \in Seq(ToSet(art.stack)), NEW tag, NEW at
    PROVE  LET r == ExtendUnits(art, tag, at) IN
             /\ tag.kind \in {"marker", "file"} => r = art
             /\ tag.kind \notin {"marker", "file"} => \E type, base, clause : Extended(r, art, tag, at, type, base, clause)
<1> PICK r : r = ExtendUnits(art, tag, at)
    OBVIOUS
<1> PICK F : F = {"units", "clause", "preambles", "continuations", "stack"}
    OBVIOUS
<1>1. CASE tag.kind \in {"marker", "file"}
  <2>1. r = art
      BY <1>1 DEF ExtendUnits
  <2> QED BY <1>1, <2>1
<1>2. CASE tag.kind = "table"
  <2>1. PICK base : base = <<"table", ToString(art.tables)>>
      OBVIOUS
  <2>2. r = AddUnit(art, "table", base, art.clause, at)
      BY <1>2, <2>1 DEF ExtendUnits
  <2>3. r.units = Append(art.units, NewUnit(art.units, "table", base, art.clause, at)) /\ Differs(r, art, {"units"})
      BY <2>2, AddsUnit
  <2>4. r.stack = art.stack /\ r.clause = art.clause /\ Differs(r, art, F)
      BY <2>3 DEF Differs, ArticleFields
  <2>5. Extended(r, art, tag, at, "table", base, art.clause)
      BY <2>3, <2>4 DEF Extended
  <2> QED BY <1>2, <2>5
<1>3. CASE tag.kind \notin {"marker", "file", "table"}
  <2>1. PICK x, y : x = UnitOf(art, tag, at) /\ y = OpenQuote(x, tag)
      OBVIOUS
  <2>2. r = CloseQuote(y, tag)
      BY <1>3, <2>1 DEF ExtendUnits
  <2>3. PICK type, base, clause :
             /\ x.units = Append(art.units, NewUnit(art.units, type, base, clause, at))
             /\ Differs(x, art, {"units", "clause", "preambles", "continuations"})
             /\ type # "table"
             /\ clause = x.clause
             /\ x.clause = IF type = "clause" THEN tag.value ELSE art.clause
      BY <2>1, TextUnit
  <2>4. x.stack = art.stack /\ DOMAIN x = ArticleFields
      BY <2>3 DEF Differs, ArticleFields
  <2>5. /\ Differs(y, x, {"clause", "continuations", "stack"})
        /\ y.stack \in Seq(ToSet(y.stack))
        /\ Len(y.stack) = IF tag.opens THEN Len(x.stack) + 1 ELSE Len(x.stack)
        /\ Bottom(y.clause, y.stack) = Bottom(x.clause, x.stack)
      BY <2>1, <2>4, OpensQuote
  <2>6. DOMAIN y = ArticleFields /\ y.units = x.units
      BY <2>5 DEF Differs, ArticleFields
  <2>7. /\ Differs(r, y, {"clause", "continuations", "stack"})
        /\ r.stack \in Seq(ToSet(r.stack))
        /\ Len(r.stack) = IF tag.closes /\ Len(y.stack) > 0 THEN Len(y.stack) - 1 ELSE Len(y.stack)
        /\ Bottom(r.clause, r.stack) = Bottom(y.clause, y.stack)
      BY <2>2, <2>5, <2>6, ClosesQuote
  <2>8. r.units = y.units
      BY <2>7 DEF Differs, ArticleFields
  <2>9. Differs(r, art, F)
      BY <2>3, <2>5, <2>7 DEF Differs
  <2>10. Len(r.stack) = OpenFor(tag, Len(art.stack))
      BY <2>4, <2>5, <2>7 DEF OpenFor
  <2>11. Bottom(r.clause, r.stack) = Bottom(clause, art.stack)
      BY <2>3, <2>4, <2>5, <2>7
  <2>12. Extended(r, art, tag, at, type, base, clause)
      BY <2>3, <2>6, <2>7, <2>8, <2>9, <2>10, <2>11 DEF Extended
  <2> QED BY <1>3, <2>12
<1> QED BY <1>1, <1>2, <1>3

-----------------------------------------------------------------------------
(* Ids of units                                                              *)

IdsOk(units) ==
    /\ units \in Seq(ToSet(units))
    /\ \A j \in DOMAIN units : units[j].occurrence \in 1..Occurrences(units, units[j].base)
    /\ \A j, k \in DOMAIN units :
          units[j].base = units[k].base /\ units[j].occurrence = units[k].occurrence => j = k

LEMMA OneMoreOccurrence ==
    ASSUME NEW units, units \in Seq(ToSet(units)), NEW u, NEW base
    PROVE  /\ Occurrences(units, base) \in Nat
           /\ Occurrences(Append(units, u), base) =
                IF u.base = base THEN Occurrences(units, base) + 1 ELSE Occurrences(units, base)
<1> PICK us : us = Append(units, u)
    OBVIOUS
<1>1. /\ DOMAIN units = 1..Len(units) /\ DOMAIN us = 1..(Len(units) + 1) /\ Len(units) \in Nat
      /\ \A i \in 1..Len(units) : us[i] = units[i]
      /\ us[Len(units) + 1] = u
    BY Appended
<1>2. PICK S : S = {i \in DOMAIN units : units[i].base = base}
    OBVIOUS
<1>3. IsFiniteSet(S) /\ Cardinality(S) \in Nat
  <2>1. S \subseteq 1..Len(units) /\ IsFiniteSet(1..Len(units))
      BY <1>1, <1>2, FS_Interval
  <2> QED BY <2>1, FS_Subset, FS_CardinalityType
<1>4. {i \in DOMAIN us : us[i].base = base} = IF u.base = base THEN S \cup {Len(units) + 1} ELSE S
    BY <1>1, <1>2
<1>5. Len(units) + 1 \notin S
    BY <1>1, <1>2
<1>6. Cardinality(S \cup {Len(units) + 1}) = Cardinality(S) + 1
    BY <1>3, <1>5, FS_AddElement
<1> QED BY <1>2, <1>3, <1>4, <1>6 DEF Occurrences

LEMMA OneMoreId ==
    ASSUME NEW units, IdsOk(units), NEW u, u.occurrence = Occurrences(units, u.base) + 1
    PROVE  IdsOk(Append(units, u))
<1> PICK us, n : us = Append(units, u) /\ n = Len(units) + 1
    OBVIOUS
<1>1. /\ DOMAIN units = 1..Len(units) /\ DOMAIN us = 1..n /\ Len(units) \in Nat
      /\ \A i \in 1..Len(units) : us[i] = units[i]
      /\ us[n] = u /\ us \in Seq(ToSet(us)) /\ units \in Seq(ToSet(units))
    BY Appended DEF IdsOk
<1>2. ASSUME NEW base
      PROVE  /\ Occurrences(units, base) \in Nat
             /\ Occurrences(us, base) = IF u.base = base THEN Occurrences(units, base) + 1 ELSE Occurrences(units, base)
    BY <1>1, OneMoreOccurrence
<1>3. ASSUME NEW j \in 1..Len(units)
      PROVE  units[j].occurrence \in 1..Occurrences(units, units[j].base) /\ us[j] = units[j]
    BY <1>1 DEF IdsOk
<1>4. ASSUME NEW j \in 1..n
      PROVE  us[j].occurrence \in 1..Occurrences(us, us[j].base)
  <2>1. CASE j = n
      BY <1>1, <1>2, <2>1
  <2>2. CASE j # n
    <3>1. j \in 1..Len(units)
        BY <1>1, <2>2
    <3>2. units[j].occurrence \in 1..Occurrences(units, units[j].base) /\ us[j] = units[j]
        BY <1>3, <3>1
    <3>3. /\ Occurrences(units, units[j].base) \in Nat
          /\ Occurrences(units, units[j].base) <= Occurrences(us, units[j].base)
          /\ Occurrences(us, units[j].base) \in Nat
        BY <1>2
    <3> QED BY <3>2, <3>3
  <2> QED BY <2>1, <2>2
<1>5. ASSUME NEW j \in 1..Len(units), us[j].base = u.base, us[j].occurrence = u.occurrence
      PROVE  FALSE
  <2>1. units[j].occurrence \in 1..Occurrences(units, units[j].base) /\ us[j] = units[j]
      BY <1>3
  <2>2. Occurrences(units, u.base) \in Nat
      BY <1>2
  <2> QED BY <1>5, <2>1, <2>2
<1>6. ASSUME NEW j \in 1..n, NEW k \in 1..n, us[j].base = us[k].base, us[j].occurrence = us[k].occurrence
      PROVE  j = k
  <2>1. CASE j = n \/ k = n
    <3>1. \A i \in 1..n : i = n \/ i \in 1..Len(units)
        BY <1>1
    <3> QED BY <1>1, <1>5, <1>6, <2>1, <3>1
  <2>2. CASE j # n /\ k # n
    <3>1. j \in 1..Len(units) /\ k \in 1..Len(units)
        BY <1>1, <2>2
    <3>2. us[j] = units[j] /\ us[k] = units[k]
        BY <1>1, <3>1
    <3> QED BY <1>1, <1>6, <3>1, <3>2 DEF IdsOk
  <2> QED BY <2>1, <2>2
<1> QED BY <1>1, <1>4, <1>6 DEF IdsOk

-----------------------------------------------------------------------------
(* Quotations                                                                *)

\* OpenAfter, Depth and the places of QuotesRestored for the tags h and some units
OpenIn(h, unit, open) ==
    LET tag == h[unit.at]
        opened == IF tag.opens THEN open + 1 ELSE open
    IN  IF unit.type = "table" THEN open
        ELSE IF tag.closes /\ opened > 0 THEN opened - 1 ELSE opened
DepthIn(h, units) ==
    LET depth[n \in 0..Len(units)] == IF n = 0 THEN 0 ELSE OpenIn(h, units[n], depth[n - 1])
    IN  depth
Outer(h, units) == {n \in DOMAIN units : DepthIn(h, units)[n - 1] = 0}
OuterClauses(h, units, n) == {m \in Outer(h, units) : m <= n /\ units[m].type = "clause"}
ClauseAt(h, units, n) ==
    IF OuterClauses(h, units, n) = {} THEN Nil ELSE h[units[LastOf(OuterClauses(h, units, n))].at].value
Restored(h, units) == \A n \in Outer(h, units) : units[n].clause = ClauseAt(h, units, n)

LEMMA DepthCounts ==
    ASSUME NEW h, NEW units, units \in Seq(ToSet(units))
    PROVE  /\ DepthIn(h, units) \in [0..Len(units) -> Nat]
           /\ DepthIn(h, units)[0] = 0
           /\ \A n \in 1..Len(units) : DepthIn(h, units)[n] = OpenIn(h, units[n], DepthIn(h, units)[n - 1])
<1> PICK size : size = Len(units)
    OBVIOUS
<1>0. size \in Nat
    OBVIOUS
<1> DEFINE step == [i \in 1..size |-> [open \in Nat |-> OpenIn(h, units[i], open)]]
<1>00. ASSUME NEW unit, NEW open \in Nat PROVE OpenIn(h, unit, open) \in Nat
    BY DEF OpenIn
<1>1. step \in [1..size -> [Nat -> Nat]]
    BY <1>00
<1>2. PICK s \in [1..size -> [Nat -> Nat]] : s = step
    BY <1>1
<1>3. PICK g \in [0..size -> Nat] : g[0] = 0 /\ \A i \in 1..size : g[i] = s[i][g[i - 1]]
  <2>1. PICK T, none : T = Nat /\ none = 0
      OBVIOUS
  <2>2. none \in T /\ s \in [1..size -> [T -> T]]
      BY <1>2, <2>1
  <2>3. PICK g : Follows(g, T, none, size, s)
      BY <1>0, <2>2, RecursionExists
  <2> QED BY <2>1, <2>3 DEF Follows
<1>4. ASSUME NEW i \in 1..size
      PROVE  g[i] = OpenIn(h, units[i], g[i - 1])
  <2>1. g[i - 1] \in Nat
      BY <1>0, <1>3
  <2> QED BY <1>2, <1>3, <2>1
<1>5. g = [i \in 0..size |-> IF i = 0 THEN 0 ELSE OpenIn(h, units[i], g[i - 1])]
  <2>1. PICK f : f = [i \in 0..size |-> IF i = 0 THEN 0 ELSE OpenIn(h, units[i], g[i - 1])]
      OBVIOUS
  <2>2. \A i \in 0..size : g[i] = f[i]
      BY <1>0, <1>3, <1>4, <2>1
  <2>3. DOMAIN g = 0..size /\ DOMAIN f = 0..size /\ g = [i \in 0..size |-> g[i]] /\ f = [i \in 0..size |-> f[i]]
      BY <2>1
  <2> QED BY <2>1, <2>2, <2>3
<1>6. PICK f : f = DepthIn(h, units)
    OBVIOUS
<1>7. f = [i \in 0..size |-> IF i = 0 THEN 0 ELSE OpenIn(h, units[i], f[i - 1])]
    BY <1>5, <1>6 DEF DepthIn
<1>8. DOMAIN f = 0..size /\ f[0] = 0
    BY <1>0, <1>7
<1>9. \A i \in 1..size : f[i] = OpenIn(h, units[i], f[i - 1])
    BY <1>0, <1>7
<1>10. \A i \in 0..size : f[i] \in Nat
  <2>1. PICK bad : bad = {i \in 0..size : f[i] \notin Nat}
      OBVIOUS
  <2>2. ASSUME bad # {} PROVE FALSE
    <3>1. PICK m \in bad : \A y \in bad : m <= y
      <4>1. bad \subseteq Nat
          BY <2>1
      <4> QED BY <2>2, <4>1, LeastNumber
    <3>2. m \in 1..size /\ m - 1 \in 0..size /\ m - 1 \notin bad
        BY <1>0, <1>8, <2>1, <3>1
    <3>3. f[m - 1] \in Nat /\ f[m] = OpenIn(h, units[m], f[m - 1])
        BY <1>9, <2>1, <3>2
    <3>4. f[m] \in Nat
        BY <1>00, <3>3
    <3> QED BY <2>1, <3>1, <3>4
  <2> QED BY <2>1, <2>2
<1>11. f \in [0..size -> Nat]
    BY <1>7, <1>8, <1>10
<1> QED BY <1>6, <1>8, <1>9, <1>11

\* A longer article that begins with these units
Longer(g, v, h, units) ==
    /\ units \in Seq(ToSet(units)) /\ v \in Seq(ToSet(v)) /\ Len(units) <= Len(v)
    /\ \A n \in 1..Len(units) : v[n] = units[n] /\ g[units[n].at] = h[units[n].at]

LEMMA DepthOfPrefix ==
    ASSUME NEW h, NEW g, NEW units, NEW v, Longer(g, v, h, units)
    PROVE  \A n \in 0..Len(units) : DepthIn(g, v)[n] = DepthIn(h, units)[n]
<1> PICK d, e : d = DepthIn(h, units) /\ e = DepthIn(g, v)
    OBVIOUS
<1>0. units \in Seq(ToSet(units)) /\ v \in Seq(ToSet(v))
    BY DEF Longer
<1>1. d[0] = 0 /\ \A n \in 1..Len(units) : d[n] = OpenIn(h, units[n], d[n - 1])
    BY <1>0, DepthCounts
<1>2. e[0] = 0 /\ \A n \in 1..Len(v) : e[n] = OpenIn(g, v[n], e[n - 1])
    BY <1>0, DepthCounts
<1>3. PICK bad : bad = {n \in 0..Len(units) : d[n] # e[n]}
    OBVIOUS
<1>4. Len(units) \in Nat /\ Len(v) \in Nat /\ Len(units) <= Len(v)
    BY DEF Longer
<1>5. ASSUME bad # {} PROVE FALSE
  <2>1. PICK m \in bad : \A y \in bad : m <= y
    <3>1. bad \subseteq Nat
        BY <1>3
    <3> QED BY <1>5, <3>1, LeastNumber
  <2>2. m \in 1..Len(units) /\ m \in 1..Len(v) /\ m - 1 \in 0..Len(units) /\ m - 1 \notin bad
      BY <1>1, <1>2, <1>3, <1>4, <2>1
  <2>3. d[m - 1] = e[m - 1] /\ v[m] = units[m] /\ g[units[m].at] = h[units[m].at]
      BY <1>3, <2>2 DEF Longer
  <2>4. PICK u, open : u = units[m] /\ open = d[m - 1]
      OBVIOUS
  <2>5. OpenIn(g, u, open) = OpenIn(h, u, open)
      BY <2>3, <2>4 DEF OpenIn
  <2>6. d[m] = e[m]
      BY <1>1, <1>2, <2>2, <2>3, <2>4, <2>5
  <2> QED BY <1>3, <2>1, <2>6
<1> QED BY <1>3, <1>5

LEMMA RestoredOfPrefix ==
    ASSUME NEW h, NEW g, NEW units, NEW v, Longer(g, v, h, units)
    PROVE  /\ \A n \in 1..Len(units) : n \in Outer(g, v) <=> n \in Outer(h, units)
           /\ \A n \in 0..Len(units) : OuterClauses(g, v, n) = OuterClauses(h, units, n)
           /\ \A n \in 0..Len(units) : ClauseAt(g, v, n) = ClauseAt(h, units, n)
<1>1. \A n \in 0..Len(units) : DepthIn(g, v)[n] = DepthIn(h, units)[n]
    BY DepthOfPrefix
<1>2. /\ Len(units) \in Nat /\ Len(v) \in Nat /\ Len(units) <= Len(v)
      /\ DOMAIN units = 1..Len(units) /\ DOMAIN v = 1..Len(v)
    BY DEF Longer
<1>3. ASSUME NEW n \in 1..Len(units)
      PROVE  n \in Outer(g, v) <=> n \in Outer(h, units)
  <2>1. n - 1 \in 0..Len(units) /\ n \in DOMAIN v /\ n \in DOMAIN units
      BY <1>2
  <2> QED BY <1>1, <2>1 DEF Outer
<1>4. ASSUME NEW n \in 0..Len(units)
      PROVE  OuterClauses(g, v, n) = OuterClauses(h, units, n)
  <2>1. Outer(g, v) \subseteq 1..Len(v) /\ Outer(h, units) \subseteq 1..Len(units)
      BY <1>2 DEF Outer
  <2>2. ASSUME NEW m, m <= n, m \in 1..Len(v) \/ m \in 1..Len(units) PROVE m \in 1..Len(units)
      BY <1>2, <2>2
  <2>3. ASSUME NEW m PROVE m \in OuterClauses(g, v, n) <=> m \in OuterClauses(h, units, n)
    <3>1. CASE m \in 1..Len(units)
        BY <1>3, <3>1 DEF OuterClauses, Longer
    <3>2. CASE m \notin 1..Len(units)
        BY <2>1, <2>2, <3>2 DEF OuterClauses
    <3> QED BY <3>1, <3>2
  <2> QED BY <2>3
<1>5. ASSUME NEW n \in 0..Len(units)
      PROVE  ClauseAt(g, v, n) = ClauseAt(h, units, n)
  <2>1. CASE OuterClauses(h, units, n) = {}
      BY <1>4, <2>1 DEF ClauseAt
  <2>2. CASE OuterClauses(h, units, n) # {}
    <3>1. OuterClauses(h, units, n) \subseteq 1..Len(units)
        BY <1>2 DEF OuterClauses, Outer
    <3>2. PICK m : m = LastOf(OuterClauses(h, units, n))
        OBVIOUS
    <3>3. m \in 1..Len(units)
        BY <1>2, <2>2, <3>1, <3>2, LastIs
    <3>4. v[m] = units[m] /\ g[units[m].at] = h[units[m].at]
        BY <3>3 DEF Longer
    <3> QED BY <1>4, <2>2, <3>2, <3>4 DEF ClauseAt
  <2> QED BY <2>1, <2>2
<1> QED BY <1>3, <1>4, <1>5

\* One more unit, of the clause around the quotations or in a quotation
QuotedNext(h, g, units, u, open) ==
    /\ units \in Seq(ToSet(units)) /\ Restored(h, units) /\ open = DepthIn(h, units)[Len(units)]
    /\ \A n \in 1..Len(units) : g[units[n].at] = h[units[n].at]
    /\ open = 0 => u.clause = IF u.type = "clause" THEN g[u.at].value ELSE ClauseAt(h, units, Len(units))

LEMMA OneMoreQuoted ==
    ASSUME NEW h, NEW g, NEW units, NEW u, NEW open, QuotedNext(h, g, units, u, open)
    PROVE  LET v == Append(units, u) IN
             /\ Restored(g, v)
             /\ DepthIn(g, v)[Len(v)] = OpenIn(g, u, open)
             /\ ClauseAt(g, v, Len(v)) = IF open = 0 THEN u.clause ELSE ClauseAt(h, units, Len(units))
<1> PICK v, n, k : v = Append(units, u) /\ n = Len(units) /\ k = n + 1
    OBVIOUS
<1>0. units \in Seq(ToSet(units))
    BY DEF QuotedNext
<1>1. /\ v \in Seq(ToSet(v)) /\ Len(v) = k /\ DOMAIN v = 1..k /\ DOMAIN units = 1..n /\ n \in Nat
      /\ \A i \in 1..n : v[i] = units[i]
      /\ v[k] = u
    BY <1>0, Appended
<1>2. Longer(g, v, h, units)
    BY <1>0, <1>1 DEF Longer, QuotedNext
<1>3. \A i \in 0..n : DepthIn(g, v)[i] = DepthIn(h, units)[i]
    BY <1>2, DepthOfPrefix
<1>4. /\ \A i \in 1..n : i \in Outer(g, v) <=> i \in Outer(h, units)
      /\ \A i \in 0..n : OuterClauses(g, v, i) = OuterClauses(h, units, i)
      /\ \A i \in 0..n : ClauseAt(g, v, i) = ClauseAt(h, units, i)
    BY <1>2, RestoredOfPrefix
<1>5. DepthIn(g, v)[k] = OpenIn(g, u, open)
  <2>1. k \in 1..Len(v) /\ k - 1 = n /\ n \in 0..n
      BY <1>1
  <2>2. DepthIn(g, v)[k] = OpenIn(g, v[k], DepthIn(g, v)[k - 1])
    <3>1. \A i \in 1..Len(v) : DepthIn(g, v)[i] = OpenIn(g, v[i], DepthIn(g, v)[i - 1])
      <4>1. v \in Seq(ToSet(v))
          BY <1>1
      <4> QED BY <4>1, DepthCounts
    <3> QED BY <2>1, <3>1
  <2> QED BY <1>1, <1>3, <2>1, <2>2 DEF QuotedNext
<1>6. k \in Outer(g, v) <=> open = 0
  <2>1. k \in DOMAIN v /\ k - 1 = n /\ n \in 0..n
      BY <1>1
  <2> QED BY <1>3, <2>1 DEF Outer, QuotedNext
<1>7. Outer(g, v) \subseteq 1..k
    BY <1>1 DEF Outer
<1>8. OuterClauses(g, v, k) = IF open = 0 /\ u.type = "clause" THEN OuterClauses(g, v, n) \cup {k} ELSE OuterClauses(g, v, n)
  <2>1. ASSUME NEW m \in Outer(g, v) PROVE m <= k /\ (m <= n <=> m # k)
      BY <1>1, <1>7
  <2> QED BY <1>1, <1>6, <2>1 DEF OuterClauses
<1>9. ClauseAt(g, v, k) = IF open = 0 /\ u.type = "clause" THEN g[u.at].value ELSE ClauseAt(h, units, n)
  <2>1. CASE open = 0 /\ u.type = "clause"
    <3>1. PICK T : T = OuterClauses(g, v, k)
        OBVIOUS
    <3>2. k \in T /\ T \subseteq 1..k /\ k \in Nat
        BY <1>1, <1>7, <1>8, <2>1, <3>1 DEF OuterClauses
    <3>3. LastOf(T) \in T /\ \A y \in T : y <= LastOf(T)
        BY <3>2, LastIs
    <3>4. LastOf(T) = k
      <4>1. PICK z : z = LastOf(T)
          OBVIOUS
      <4>2. z \in 1..k /\ k <= z
          BY <3>2, <3>3, <4>1
      <4> QED BY <3>2, <4>1, <4>2
    <3> QED BY <1>1, <2>1, <3>1, <3>2, <3>4 DEF ClauseAt
  <2>2. CASE ~(open = 0 /\ u.type = "clause")
    <3>1. OuterClauses(g, v, k) = OuterClauses(g, v, n) /\ n \in 0..n
        BY <1>1, <1>8, <2>2
    <3>2. ClauseAt(g, v, k) = ClauseAt(g, v, n)
        BY <3>1 DEF ClauseAt
    <3> QED BY <1>4, <2>2, <3>1, <3>2
  <2> QED BY <2>1, <2>2
<1>10. open = 0 => ClauseAt(g, v, k) = u.clause
    BY <1>9 DEF QuotedNext
<1>11. Restored(g, v)
  <2>1. ASSUME NEW i \in Outer(g, v) PROVE v[i].clause = ClauseAt(g, v, i)
    <3>1. CASE i = k
        BY <1>1, <1>6, <1>10, <3>1, <2>1
    <3>2. CASE i # k
      <4>1. i \in 1..n /\ i \in 0..n
          BY <1>1, <1>7, <3>2
      <4>2. units[i].clause = ClauseAt(h, units, i)
          BY <1>4, <4>1 DEF Restored, QuotedNext
      <4> QED BY <1>1, <1>4, <4>1, <4>2
    <3> QED BY <3>1, <3>2
  <2> QED BY <2>1 DEF Restored
<1>12. ClauseAt(g, v, k) = IF open = 0 THEN u.clause ELSE ClauseAt(h, units, n)
    BY <1>9, <1>10
<1> QED BY <1>1, <1>5, <1>11, <1>12

-----------------------------------------------------------------------------
(* What an article holds                                                     *)

\* The document h has one more tag in g.
Grows(h, g) ==
    /\ Len(h) \in Nat /\ DOMAIN h = 1..Len(h) /\ DOMAIN g = 1..(Len(h) + 1) /\ Len(g) = Len(h) + 1
    /\ \A q \in 1..Len(h) : g[q] = h[q]

IsBlock(tag) == tag.kind \notin Boundary \cup {"note", "citation", "blank", "appendix", "unreadable"}
BlocksIn(h, i) == {p \in 1..Len(h) : IsBlock(h[p]) /\ ~AppendixIn(h, p) /\ ArticleIn(h, p) = i}
CitationsIn(h) == {q \in 1..Len(h) : h[q].kind = "citation" /\ ~AppendixIn(h, q)}
LinksIn(h) == UNION {LinksOf(h[p], p) : p \in CitationsIn(h)}
CitedIn(h, i) == {link \in LinksIn(h) : ArticleIn(h, link[1]) = i}

LEMMA SameStanding ==
    ASSUME NEW h, NEW g, Grows(h, g), NEW p \in 1..Len(h)
    PROVE  /\ HomeIn(g, p) = HomeIn(h, p) /\ ArticleIn(g, p) = ArticleIn(h, p)
           /\ AnchorIn(g, p) = AnchorIn(h, p) /\ (AppendixIn(g, p) <=> AppendixIn(h, p))
           /\ g[p] = h[p]
<1>1. Len(h) \in Nat /\ (\A q \in 1..Len(h) : g[q] = h[q]) /\ p \in 1..(Len(h) + 1)
    BY DEF Grows
<1> QED BY <1>1, StandsAsRead

LEMMA BlocksGrow ==
    ASSUME NEW h, NEW g, Grows(h, g), NEW way, NEW count, Contained(h, Len(h), way, count), NEW i \in Nat \ {0}
    PROVE  BlocksIn(g, i) = IF IsBlock(g[Len(h) + 1]) /\ way = "article" /\ i = count
                            THEN BlocksIn(h, i) \cup {Len(h) + 1} ELSE BlocksIn(h, i)
<1> PICK n, t : n = Len(h) /\ t = g[n + 1]
    OBVIOUS
<1>1. n \in Nat /\ Len(g) = n + 1 /\ \A q \in 1..n : g[q] = h[q]
    BY DEF Grows
<1>2. ASSUME NEW p \in 1..n PROVE p \in BlocksIn(g, i) <=> p \in BlocksIn(h, i)
  <2>1. ArticleIn(g, p) = ArticleIn(h, p) /\ (AppendixIn(g, p) <=> AppendixIn(h, p)) /\ g[p] = h[p]
      BY SameStanding
  <2>2. p \in 1..Len(g)
      BY <1>1
  <2> QED BY <2>1, <2>2 DEF BlocksIn
<1>3. /\ HomeIn(g, n + 1) = 0 <=> way = "outside"
      /\ AppendixIn(g, n + 1) <=> way = "appendix" \/ (way = "article" /\ t.kind = "appendix")
      /\ way # "outside" => ArticleIn(g, n + 1) = count /\ count > 0
    BY <1>1, GoesHere
<1>4. way = "outside" => ArticleIn(g, n + 1) = 0
    BY <1>1, <1>3, NoArticleOutside
<1>5. way \in {"outside", "article", "appendix"}
    BY DEF Contained
<1>6. IsBlock(t) => t.kind # "appendix"
    BY DEF IsBlock
<1>7. n + 1 \in BlocksIn(g, i) <=> IsBlock(t) /\ way = "article" /\ i = count
  <2>1. n + 1 \in BlocksIn(g, i) <=> IsBlock(t) /\ ~AppendixIn(g, n + 1) /\ ArticleIn(g, n + 1) = i
      BY <1>1 DEF BlocksIn
  <2> QED BY <1>3, <1>4, <1>5, <1>6, <2>1
<1>8. /\ \A p : p \in BlocksIn(g, i) => p = n + 1 \/ p \in 1..n
      /\ \A p : p \in BlocksIn(h, i) => p \in 1..n
    BY <1>1 DEF BlocksIn
<1>9. PICK A, B : A = BlocksIn(g, i) /\ B = BlocksIn(h, i)
    OBVIOUS
<1>10. \A p : p \in A <=> p \in B \/ (p = n + 1 /\ IsBlock(t) /\ way = "article" /\ i = count)
  <2>1. n + 1 \notin 1..n
      BY <1>1
  <2> QED BY <1>2, <1>7, <1>8, <1>9, <2>1
<1>11. A = IF IsBlock(t) /\ way = "article" /\ i = count THEN B \cup {n + 1} ELSE B
    BY <1>10
<1> QED BY <1>9, <1>11

LEMMA LinksGrow ==
    ASSUME NEW h, NEW g, Grows(h, g), NEW way, NEW count, Contained(h, Len(h), way, count)
    PROVE  LinksIn(g) = IF g[Len(h) + 1].kind = "citation" /\ way # "appendix"
                        THEN LinksIn(h) \cup LinksOf(g[Len(h) + 1], Len(h) + 1) ELSE LinksIn(h)
<1> PICK n, t : n = Len(h) /\ t = g[n + 1]
    OBVIOUS
<1>1. n \in Nat /\ Len(g) = n + 1 /\ \A q \in 1..n : g[q] = h[q]
    BY DEF Grows
<1>2. ASSUME NEW p \in 1..n
      PROVE  (p \in CitationsIn(g) <=> p \in CitationsIn(h)) /\ LinksOf(g[p], p) = LinksOf(h[p], p)
  <2>1. (AppendixIn(g, p) <=> AppendixIn(h, p)) /\ g[p] = h[p]
      BY SameStanding
  <2>2. p \in 1..Len(g)
      BY <1>1
  <2> QED BY <2>1, <2>2 DEF CitationsIn
<1>3. AppendixIn(g, n + 1) <=> way = "appendix" \/ (way = "article" /\ t.kind = "appendix")
    BY <1>1, GoesHere
<1>4. n + 1 \in CitationsIn(g) <=> t.kind = "citation" /\ way # "appendix"
    BY <1>1, <1>3 DEF CitationsIn
<1>5. CitationsIn(g) \subseteq 1..(n + 1) /\ CitationsIn(h) \subseteq 1..n
    BY <1>1 DEF CitationsIn
<1>6. \A p \in 1..(n + 1) : p = n + 1 \/ p \in 1..n
    BY <1>1
<1>7. ASSUME NEW w
      PROVE  w \in LinksIn(g) <=> \/ w \in LinksIn(h)
                                  \/ t.kind = "citation" /\ way # "appendix" /\ w \in LinksOf(t, n + 1)
  <2>1. w \in LinksIn(g) <=> \E p \in CitationsIn(g) : w \in LinksOf(g[p], p)
      BY DEF LinksIn
  <2>2. w \in LinksIn(h) <=> \E p \in CitationsIn(h) : w \in LinksOf(h[p], p)
      BY DEF LinksIn
  <2> QED BY <1>2, <1>4, <1>5, <1>6, <2>1, <2>2
<1> QED BY <1>7

LEMMA LinkIsPlace ==
    ASSUME NEW h, NEW w \in LinksIn(h)
    PROVE  w[1] \in 1..Len(h)
<1>1. PICK p \in CitationsIn(h) : w \in LinksOf(h[p], p)
    BY DEF LinksIn
<1>2. w[1] = p
    BY <1>1 DEF LinksOf
<1> QED BY <1>1, <1>2 DEF CitationsIn

LEMMA CitedGrow ==
    ASSUME NEW h, NEW g, Grows(h, g), NEW way, NEW count, Contained(h, Len(h), way, count), NEW i \in Nat
    PROVE  CitedIn(g, i) =
             IF g[Len(h) + 1].kind = "citation" /\ way # "appendix" /\ i = IF way = "outside" THEN 0 ELSE count
             THEN CitedIn(h, i) \cup LinksOf(g[Len(h) + 1], Len(h) + 1) ELSE CitedIn(h, i)
<1> PICK n, t : n = Len(h) /\ t = g[n + 1]
    OBVIOUS
<1>1. n \in Nat /\ Len(g) = n + 1 /\ \A q \in 1..n : g[q] = h[q]
    BY DEF Grows
<1>2. LinksIn(g) = IF t.kind = "citation" /\ way # "appendix" THEN LinksIn(h) \cup LinksOf(t, n + 1) ELSE LinksIn(h)
    BY LinksGrow
<1>3. ASSUME NEW w \in LinksIn(h) PROVE ArticleIn(g, w[1]) = ArticleIn(h, w[1])
    BY LinkIsPlace, SameStanding
<1>4. \A w \in LinksOf(t, n + 1) : w[1] = n + 1
    BY DEF LinksOf
<1>5. /\ HomeIn(g, n + 1) = 0 <=> way = "outside"
      /\ way # "outside" => ArticleIn(g, n + 1) = count /\ count > 0
  <2>1. /\ HomeIn(g, n + 1) = 0 <=> way = "outside"
        /\ AppendixIn(g, n + 1) <=> way = "appendix" \/ (way = "article" /\ g[n + 1].kind = "appendix")
        /\ way # "outside" => ArticleIn(g, n + 1) = count /\ count > 0
      BY <1>1, GoesHere
  <2> QED BY <2>1
<1>6. ArticleIn(g, n + 1) = IF way = "outside" THEN 0 ELSE count
    BY <1>1, <1>5, NoArticleOutside
<1>7. ASSUME NEW w
      PROVE  w \in CitedIn(g, i) <=> w \in LinksIn(g) /\ ArticleIn(g, w[1]) = i
    BY DEF CitedIn
<1>8. ASSUME NEW w
      PROVE  w \in CitedIn(h, i) <=> w \in LinksIn(h) /\ ArticleIn(h, w[1]) = i
    BY DEF CitedIn
<1>9. \A w \in LinksIn(h) : ArticleIn(g, w[1]) = ArticleIn(h, w[1])
    BY <1>3
<1> QED BY <1>2, <1>4, <1>6, <1>7, <1>8, <1>9

UnitPlacesIn(h, i) == {p \in BlocksIn(h, i) : h[p].kind \notin {"file", "marker"}}

\* The article numbered i holds its blocks, units and citations, and quotations
\* leave the clause around them alone.
BlocksHeld(h, art, i) ==
    art.blocks \in Seq(ToSet(art.blocks)) /\ ToSet(art.blocks) = BlocksIn(h, i) /\ IsInjective(art.blocks)
UnitsHeld(h, art, i) ==
    /\ IdsOk(art.units)
    /\ {art.units[j].at : j \in DOMAIN art.units} = UnitPlacesIn(h, i)
    /\ \A j, k \in DOMAIN art.units : art.units[j].at = art.units[k].at => j = k
QuotesHeld(h, art) ==
    /\ art.stack \in Seq(ToSet(art.stack))
    /\ DepthIn(h, art.units)[Len(art.units)] = Len(art.stack)
    /\ Bottom(art.clause, art.stack) = ClauseAt(h, art.units, Len(art.units))
    /\ Restored(h, art.units)
ArticleHolds(h, art, i) ==
    /\ DOMAIN art = ArticleFields
    /\ BlocksHeld(h, art, i) /\ UnitsHeld(h, art, i) /\ QuotesHeld(h, art)
    /\ art.citations = CitedIn(h, i)

\* The units stand in the document.
LEMMA UnitsStand ==
    ASSUME NEW h, NEW g, Grows(h, g), NEW art, NEW i, UnitsHeld(h, art, i)
    PROVE  /\ art.units \in Seq(ToSet(art.units))
           /\ \A n \in 1..Len(art.units) : art.units[n].at \in 1..Len(h) /\ g[art.units[n].at] = h[art.units[n].at]
<1>1. art.units \in Seq(ToSet(art.units))
    BY DEF UnitsHeld, IdsOk
<1>2. ASSUME NEW n \in 1..Len(art.units) PROVE art.units[n].at \in 1..Len(h)
  <2>1. n \in DOMAIN art.units
      BY <1>1
  <2>2. art.units[n].at \in UnitPlacesIn(h, i)
      BY <2>1 DEF UnitsHeld
  <2> QED BY <2>2 DEF UnitPlacesIn, BlocksIn
<1>3. \A p \in 1..Len(h) : g[p] = h[p]
    BY DEF Grows
<1> QED BY <1>1, <1>2, <1>3

LEMMA QuotesStay ==
    ASSUME NEW h, NEW g, Grows(h, g), NEW art, NEW i, UnitsHeld(h, art, i), QuotesHeld(h, art)
    PROVE  QuotesHeld(g, art)
<1> PICK us : us = art.units
    OBVIOUS
<1>1. us \in Seq(ToSet(us)) /\ \A n \in 1..Len(us) : g[us[n].at] = h[us[n].at]
    BY UnitsStand
<1>2. Len(us) \in Nat /\ DOMAIN us = 1..Len(us)
    BY <1>1
<1>3. Longer(g, us, h, us)
    BY <1>1, <1>2 DEF Longer
<1>4. \A n \in 0..Len(us) : DepthIn(g, us)[n] = DepthIn(h, us)[n]
    BY <1>3, DepthOfPrefix
<1>5. /\ \A n \in 1..Len(us) : n \in Outer(g, us) <=> n \in Outer(h, us)
      /\ \A n \in 0..Len(us) : ClauseAt(g, us, n) = ClauseAt(h, us, n)
    BY <1>3, RestoredOfPrefix
<1>6. Outer(g, us) \subseteq 1..Len(us)
    BY <1>2 DEF Outer
<1>7. Restored(h, us) => Restored(g, us)
  <2>1. \A n \in Outer(g, us) : n \in Outer(h, us) /\ ClauseAt(g, us, n) = ClauseAt(h, us, n)
    <3>1. \A n \in 1..Len(us) : n \in 0..Len(us)
        OBVIOUS
    <3> QED BY <1>5, <1>6, <3>1
  <2> QED BY <2>1 DEF Restored
<1>8. Len(us) \in 0..Len(us)
    BY <1>2
<1>9. /\ DepthIn(g, us)[Len(us)] = DepthIn(h, us)[Len(us)]
      /\ ClauseAt(g, us, Len(us)) = ClauseAt(h, us, Len(us))
    BY <1>4, <1>5, <1>8
<1> QED BY <1>7, <1>9 DEF QuotesHeld

LEMMA PlacesStay ==
    ASSUME NEW h, NEW g, Grows(h, g), NEW i, BlocksIn(g, i) = BlocksIn(h, i)
    PROVE  UnitPlacesIn(g, i) = UnitPlacesIn(h, i)
<1>1. \A p \in BlocksIn(h, i) : g[p] = h[p]
    BY DEF BlocksIn, Grows
<1> QED BY <1>1 DEF UnitPlacesIn

LEMMA ArticleStays ==
    ASSUME NEW h, NEW g, Grows(h, g), NEW art, NEW i, ArticleHolds(h, art, i), BlocksIn(g, i) = BlocksIn(h, i)
    PROVE  /\ DOMAIN art = ArticleFields
           /\ BlocksHeld(g, art, i) /\ UnitsHeld(g, art, i) /\ QuotesHeld(g, art)
           /\ art.citations = CitedIn(h, i)
<1>1. UnitPlacesIn(g, i) = UnitPlacesIn(h, i)
    BY PlacesStay
<1>2. QuotesHeld(g, art)
    BY QuotesStay DEF ArticleHolds
<1>3. UnitsHeld(g, art, i)
    BY <1>1 DEF UnitsHeld, ArticleHolds
<1>4. BlocksHeld(g, art, i)
    BY DEF BlocksHeld, ArticleHolds
<1> QED BY <1>2, <1>3, <1>4 DEF ArticleHolds

LEMMA NewHolds ==
    ASSUME NEW h, NEW id, NEW o, NEW i, BlocksIn(h, i) = {}, CitedIn(h, i) = {}
    PROVE  ArticleHolds(h, NewArticle(id, o), i)
<1> PICK art : art = NewArticle(id, o)
    OBVIOUS
<1>1. DOMAIN art = ArticleFields
    BY DEF NewArticle, ArticleFields
<1>2. /\ art.blocks = <<>> /\ art.units = <<>> /\ art.stack = <<>> /\ art.citations = {} /\ art.clause = Nil
    BY DEF NewArticle
<1>3. PICK none : none = <<>>
    OBVIOUS
<1>4. /\ none \in Seq(ToSet(none)) /\ ToSet(none) = {} /\ Len(none) = 0 /\ DOMAIN none = {}
    BY <1>3 DEF ToSet
<1>5. BlocksHeld(h, art, i)
    BY <1>2, <1>3, <1>4 DEF BlocksHeld, IsInjective
<1>6. UnitsHeld(h, art, i)
  <2>1. UnitPlacesIn(h, i) = {}
      BY DEF UnitPlacesIn
  <2>2. IdsOk(none)
      BY <1>4 DEF IdsOk
  <2>3. art.units = none
      BY <1>2, <1>3
  <2> QED BY <1>4, <2>1, <2>2, <2>3 DEF UnitsHeld
<1>7. QuotesHeld(h, art)
  <2>1. DepthIn(h, none)[0] = 0
      BY <1>4, DepthCounts
  <2>2. Outer(h, none) = {} /\ OuterClauses(h, none, 0) = {}
      BY <1>4 DEF Outer, OuterClauses
  <2>3. Restored(h, none) /\ ClauseAt(h, none, 0) = Nil
      BY <2>2 DEF Restored, ClauseAt
  <2>4. Bottom(art.clause, none) = Nil
      BY <1>2, <1>3 DEF Bottom
  <2>5. art.units = none /\ art.stack = none
      BY <1>2, <1>3
  <2> QED BY <1>4, <2>1, <2>3, <2>4, <2>5 DEF QuotesHeld
<1> QED BY <1>1, <1>2, <1>5, <1>6, <1>7 DEF ArticleHolds

\* A block: its place, and what its tag does to the units
LEMMA AddsBlock ==
    ASSUME NEW art, DOMAIN art = ArticleFields, NEW tag, NEW at
    PROVE  \E counted :
             /\ Differs(counted, art, {"tables"})
             /\ Differs(AddBlock(art, tag, at), ExtendUnits(counted, tag, at), {"blocks", "marked", "early"})
                  \/ DOMAIN ExtendUnits(counted, tag, at) # ArticleFields
             /\ "blocks" \in DOMAIN ExtendUnits(counted, tag, at) =>
                  AddBlock(art, tag, at).blocks = Append(ExtendUnits(counted, tag, at).blocks, at)
<1>1. PICK counted : counted = [art EXCEPT !.tables = IF tag.kind = "table" THEN @ + 1 ELSE @]
    OBVIOUS
<1>2. Differs(counted, art, {"tables"})
    BY <1>1 DEF Differs
<1>3. PICK x : x = ExtendUnits(counted, tag, at)
    OBVIOUS
<1>4. PICK places, marked, early :
        /\ places = Append(x.blocks, at)
        /\ marked = (x.marked \/ tag.kind = "marker")
        /\ early = (x.early \/ (tag.kind # "marker" /\ ~art.marked))
    OBVIOUS
<1>5. PICK r : r = [x EXCEPT !.blocks = places, !.marked = marked, !.early = early]
    OBVIOUS
<1>6. AddBlock(art, tag, at) = r
    BY <1>1, <1>3, <1>4, <1>5 DEF AddBlock
<1>7. DOMAIN x = ArticleFields => Differs(r, x, {"blocks", "marked", "early"})
    BY <1>5 DEF Differs
<1>8. "blocks" \in DOMAIN x => r.blocks = places
    BY <1>5
<1> QED BY <1>2, <1>3, <1>4, <1>6, <1>7, <1>8

LEMMA BlockHeld ==
    ASSUME NEW h, NEW g, Grows(h, g), NEW art, NEW i, ArticleHolds(h, art, i), IsBlock(g[Len(h) + 1]),
           BlocksIn(g, i) = BlocksIn(h, i) \cup {Len(h) + 1}, CitedIn(g, i) = CitedIn(h, i)
    PROVE  ArticleHolds(g, AddBlock(art, g[Len(h) + 1], Len(h) + 1), i)
<1> PICK at : at = Len(h) + 1
    OBVIOUS
<1> PICK tag : tag = g[at]
    OBVIOUS
<1> PICK r : r = AddBlock(art, tag, at)
    OBVIOUS
<1>1. DOMAIN art = ArticleFields /\ art.stack \in Seq(ToSet(art.stack)) /\ at \in Nat /\ at \notin 1..Len(h)
    BY DEF ArticleHolds, QuotesHeld, Grows
<1>2. PICK counted :
             /\ Differs(counted, art, {"tables"})
             /\ Differs(r, ExtendUnits(counted, tag, at), {"blocks", "marked", "early"})
                  \/ DOMAIN ExtendUnits(counted, tag, at) # ArticleFields
             /\ "blocks" \in DOMAIN ExtendUnits(counted, tag, at) =>
                  r.blocks = Append(ExtendUnits(counted, tag, at).blocks, at)
    BY <1>1, AddsBlock
<1>3. /\ DOMAIN counted = ArticleFields /\ counted.units = art.units /\ counted.clause = art.clause
      /\ counted.stack = art.stack /\ counted.blocks = art.blocks /\ counted.citations = art.citations
    BY <1>2 DEF Differs, ArticleFields
<1> PICK x : x = ExtendUnits(counted, tag, at)
    OBVIOUS
<1>4. counted.stack \in Seq(ToSet(counted.stack))
    BY <1>1, <1>3
<1>5. /\ tag.kind \in {"marker", "file"} => x = counted
      /\ tag.kind \notin {"marker", "file"} => \E type, base, clause : Extended(x, counted, tag, at, type, base, clause)
    BY <1>3, <1>4, ExtendsUnits
<1>6. DOMAIN x = ArticleFields /\ x.blocks = art.blocks /\ x.citations = art.citations
    BY <1>3, <1>5 DEF Differs, ArticleFields, Extended
<1>7. /\ DOMAIN r = ArticleFields /\ r.blocks = Append(art.blocks, at) /\ r.citations = art.citations
      /\ r.units = x.units /\ r.stack = x.stack /\ r.clause = x.clause
    BY <1>2, <1>6 DEF Differs, ArticleFields
<1>8. BlocksHeld(g, r, i)
  <2>1. art.blocks \in Seq(ToSet(art.blocks)) /\ ToSet(art.blocks) = BlocksIn(h, i) /\ IsInjective(art.blocks)
      BY DEF ArticleHolds, BlocksHeld
  <2>2. PICK s, b : s = art.blocks /\ b = Append(s, at)
      OBVIOUS
  <2>3. /\ b \in Seq(ToSet(b)) /\ DOMAIN s = 1..Len(s) /\ DOMAIN b = 1..(Len(s) + 1) /\ Len(s) \in Nat
        /\ \A j \in 1..Len(s) : b[j] = s[j]
        /\ b[Len(s) + 1] = at
      BY <2>1, <2>2, Appended
  <2>4. \A j \in 1..Len(s) : s[j] \in 1..Len(h)
    <3>1. \A j \in 1..Len(s) : s[j] \in ToSet(s)
        BY <2>3 DEF ToSet
    <3> QED BY <2>1, <2>2, <3>1 DEF BlocksIn
  <2>5. ToSet(b) = ToSet(s) \cup {at}
      BY <2>3 DEF ToSet
  <2>6. IsInjective(b)
    <3>1. \A j \in 1..(Len(s) + 1) : j = Len(s) + 1 \/ j \in 1..Len(s)
        BY <2>3
    <3>2. \A j, k \in 1..Len(s) : s[j] = s[k] => j = k
        BY <2>1, <2>2, <2>3 DEF IsInjective
    <3>3. \A j \in 1..Len(s) : b[j] # at
        BY <1>1, <2>3, <2>4
    <3>4. \A j, k \in 1..(Len(s) + 1) : b[j] = b[k] => j = k
        BY <2>3, <3>1, <3>2, <3>3
    <3> QED BY <2>3, <3>4 DEF IsInjective
  <2> QED BY <1>7, <2>1, <2>2, <2>3, <2>5, <2>6 DEF BlocksHeld
<1>9. UnitPlacesIn(g, i) = IF tag.kind \in {"marker", "file"} THEN UnitPlacesIn(h, i) ELSE UnitPlacesIn(h, i) \cup {at}
  <2>1. \A p \in BlocksIn(h, i) : g[p] = h[p] /\ p \in 1..Len(h)
      BY DEF BlocksIn, Grows
  <2> QED BY <1>1, <2>1 DEF UnitPlacesIn
<1>10. CASE tag.kind \in {"marker", "file"}
  <2>1. r.units = art.units /\ r.stack = art.stack /\ r.clause = art.clause
      BY <1>3, <1>5, <1>7, <1>10
  <2>2. UnitsHeld(h, art, i) /\ QuotesHeld(h, art)
      BY DEF ArticleHolds
  <2>3. UnitsHeld(g, r, i)
      BY <1>9, <1>10, <2>1, <2>2 DEF UnitsHeld
  <2>4. QuotesHeld(g, art)
      BY <2>2, QuotesStay
  <2>5. QuotesHeld(g, r)
      BY <2>1, <2>4 DEF QuotesHeld
  <2>6. r.citations = CitedIn(g, i)
      BY <1>7 DEF ArticleHolds
  <2> QED BY <1>7, <1>8, <2>3, <2>5, <2>6 DEF ArticleHolds
<1>11. CASE tag.kind \notin {"marker", "file"}
  <2>1. PICK type, base, clause :
           /\ x.units = Append(counted.units, NewUnit(counted.units, type, base, clause, at))
           /\ x.stack \in Seq(ToSet(x.stack))
           /\ clause = IF type = "clause" THEN tag.value ELSE counted.clause
           /\ Len(x.stack) = IF type = "table" THEN Len(counted.stack) ELSE OpenFor(tag, Len(counted.stack))
           /\ Bottom(x.clause, x.stack) = Bottom(clause, counted.stack)
      BY <1>5, <1>11 DEF Extended
  <2>2. PICK us, u, v : us = art.units /\ u = NewUnit(us, type, base, clause, at) /\ v = Append(us, u)
      OBVIOUS
  <2>3. r.units = v
      BY <1>3, <1>7, <2>1, <2>2
  <2>4. u.base = base /\ u.occurrence = Occurrences(us, u.base) + 1 /\ u.type = type /\ u.clause = clause /\ u.at = at
      BY <2>2 DEF NewUnit
  <2>5. UnitsHeld(h, art, i) /\ QuotesHeld(h, art)
      BY DEF ArticleHolds
  <2>6. us \in Seq(ToSet(us)) /\ \A n \in 1..Len(us) : us[n].at \in 1..Len(h) /\ g[us[n].at] = h[us[n].at]
      BY <2>2, <2>5, UnitsStand
  <2>7. /\ DOMAIN us = 1..Len(us) /\ DOMAIN v = 1..(Len(us) + 1) /\ Len(us) \in Nat
        /\ \A j \in 1..Len(us) : v[j] = us[j]
        /\ v[Len(us) + 1] = u
      BY <2>2, <2>6, Appended
  <2>8. IdsOk(v)
    <3>1. IdsOk(us)
        BY <2>2, <2>5 DEF UnitsHeld
    <3> QED BY <2>2, <2>4, <3>1, OneMoreId
  <2>9. UnitsHeld(g, r, i)
    <3>1. \A j \in 1..(Len(us) + 1) : j = Len(us) + 1 \/ j \in 1..Len(us)
        BY <2>7
    <3>2. {v[j].at : j \in DOMAIN v} = {us[j].at : j \in DOMAIN us} \cup {at}
      <4>1. \A j \in 1..Len(us) : v[j].at = us[j].at /\ j \in DOMAIN v
          BY <2>7
      <4>2. v[Len(us) + 1].at = at /\ Len(us) + 1 \in DOMAIN v
          BY <2>4, <2>7
      <4> QED BY <2>7, <3>1, <4>1, <4>2
    <3>3. \A j, k \in 1..Len(us) : us[j].at = us[k].at => j = k
        BY <2>2, <2>5, <2>7 DEF UnitsHeld
    <3>4. \A j \in 1..Len(us) : v[j].at # at
        BY <1>1, <2>6, <2>7
    <3>5. \A j, k \in 1..(Len(us) + 1) : v[j].at = v[k].at => j = k
        BY <2>4, <2>7, <3>1, <3>3, <3>4
    <3>6. {us[j].at : j \in DOMAIN us} = UnitPlacesIn(h, i)
        BY <2>2, <2>5 DEF UnitsHeld
    <3>7. {v[j].at : j \in DOMAIN v} = UnitPlacesIn(g, i)
        BY <1>9, <1>11, <3>2, <3>6
    <3>8. \A j, k \in DOMAIN v : v[j].at = v[k].at => j = k
        BY <2>7, <3>5
    <3> QED BY <2>3, <2>8, <3>7, <3>8 DEF UnitsHeld
  <2>10. QuotesHeld(g, r)
    <3>1. PICK open : open = DepthIn(h, us)[Len(us)]
        OBVIOUS
    <3>2. /\ open = Len(art.stack) /\ Bottom(art.clause, art.stack) = ClauseAt(h, us, Len(us)) /\ Restored(h, us)
        BY <2>2, <2>5, <3>1 DEF QuotesHeld
    <3>3. Len(art.stack) = 0 <=> art.stack = <<>>
        BY <1>1
    <3>4. open = 0 => u.clause = IF u.type = "clause" THEN g[u.at].value ELSE ClauseAt(h, us, Len(us))
        BY <1>3, <2>1, <2>4, <3>2, <3>3 DEF Bottom
    <3>5. \A n \in 1..Len(us) : g[us[n].at] = h[us[n].at]
        BY <2>6
    <3>6. /\ Restored(g, v) /\ DepthIn(g, v)[Len(v)] = OpenIn(g, u, open)
          /\ ClauseAt(g, v, Len(v)) = IF open = 0 THEN u.clause ELSE ClauseAt(h, us, Len(us))
      <4>1. QuotedNext(h, g, us, u, open)
          BY <2>6, <3>1, <3>2, <3>4, <3>5 DEF QuotedNext
      <4> QED BY <2>2, <4>1, OneMoreQuoted
    <3>7. OpenIn(g, u, open) = IF type = "table" THEN open ELSE OpenFor(tag, open)
        BY <2>4 DEF OpenIn, OpenFor
    <3>8. Len(r.stack) = OpenIn(g, u, open)
        BY <1>3, <1>7, <2>1, <3>2, <3>7
    <3>9. Bottom(r.clause, r.stack) = ClauseAt(g, v, Len(v))
      <4>1. Bottom(r.clause, r.stack) = Bottom(clause, art.stack)
          BY <1>3, <1>7, <2>1
      <4>2. CASE open = 0
          BY <2>4, <3>2, <3>3, <3>6, <4>1, <4>2 DEF Bottom
      <4>3. CASE open # 0
          BY <3>2, <3>3, <3>6, <4>1, <4>3 DEF Bottom
      <4> QED BY <4>2, <4>3
    <3> QED BY <1>7, <2>1, <2>3, <3>6, <3>8, <3>9 DEF QuotesHeld
  <2>11. r.citations = CitedIn(g, i)
      BY <1>7 DEF ArticleHolds
  <2> QED BY <1>7, <1>8, <2>9, <2>10, <2>11 DEF ArticleHolds
<1> QED BY <1>10, <1>11

\* A tag of an article: a block, a note, a citation or nothing
LEMMA TagHeld ==
    ASSUME NEW h, NEW g, Grows(h, g), NEW art, NEW i, ArticleHolds(h, art, i),
           g[Len(h) + 1].kind \notin Boundary \cup {"unreadable", "appendix"},
           BlocksIn(g, i) = IF IsBlock(g[Len(h) + 1]) THEN BlocksIn(h, i) \cup {Len(h) + 1} ELSE BlocksIn(h, i),
           CitedIn(g, i) = IF g[Len(h) + 1].kind = "citation"
                           THEN CitedIn(h, i) \cup LinksOf(g[Len(h) + 1], Len(h) + 1) ELSE CitedIn(h, i)
    PROVE  ArticleHolds(g, AddToArticle(art, g[Len(h) + 1], Len(h) + 1), i)
<1> PICK at : at = Len(h) + 1
    OBVIOUS
<1> PICK tag : tag = g[at]
    OBVIOUS
<1> PICK r : r = AddToArticle(art, tag, at)
    OBVIOUS
<1>1. IsBlock(tag) <=> tag.kind \notin {"note", "citation", "blank"}
    BY DEF IsBlock
<1>2. CASE IsBlock(tag)
  <2>1. r = AddBlock(art, tag, at) /\ tag.kind # "citation"
      BY <1>1, <1>2 DEF AddToArticle
  <2> QED BY <1>2, <2>1, BlockHeld
<1>3. CASE ~IsBlock(tag)
  <2>1. /\ DOMAIN art = ArticleFields /\ art.citations = CitedIn(h, i)
        /\ BlocksHeld(g, art, i) /\ UnitsHeld(g, art, i) /\ QuotesHeld(g, art)
      BY <1>3, ArticleStays
  <2>2. /\ Differs(r, art, {"note", "citations"})
        /\ r.citations = IF tag.kind = "citation" THEN art.citations \cup LinksOf(tag, at) ELSE art.citations
    <3>1. CASE tag.kind = "note"
      <4>1. r = [art EXCEPT !.note = tag.value]
          BY <3>1 DEF AddToArticle
      <4> QED BY <2>1, <3>1, <4>1 DEF Differs, ArticleFields
    <3>2. CASE tag.kind = "citation"
      <4>1. PICK links : links = art.citations \cup LinksOf(tag, at)
          OBVIOUS
      <4>2. r = [art EXCEPT !.citations = links]
          BY <3>2, <4>1 DEF AddToArticle
      <4> QED BY <2>1, <3>2, <4>1, <4>2 DEF Differs, ArticleFields
    <3>3. CASE tag.kind = "blank"
      <4>1. r = art
          BY <3>3 DEF AddToArticle
      <4> QED BY <2>1, <3>3, <4>1 DEF Differs, ArticleFields
    <3> QED BY <1>1, <1>3, <3>1, <3>2, <3>3
  <2>3. /\ DOMAIN r = ArticleFields /\ r.blocks = art.blocks /\ r.units = art.units /\ r.stack = art.stack
        /\ r.clause = art.clause
      BY <2>2 DEF Differs, ArticleFields
  <2>4. BlocksHeld(g, r, i) /\ UnitsHeld(g, r, i) /\ QuotesHeld(g, r)
      BY <2>1, <2>3 DEF BlocksHeld, UnitsHeld, QuotesHeld
  <2> QED BY <1>3, <2>1, <2>2, <2>3, <2>4 DEF ArticleHolds
<1> QED BY <1>2, <1>3

-----------------------------------------------------------------------------
(* The appendixes                                                            *)

AttachmentFields == {"parent", "number", "blocks", "form", "tables"}

\* The number of an appendix among those of its legal document, as an id
AsIds(atts) == [i \in DOMAIN atts |-> [base |-> atts[i].parent, occurrence |-> atts[i].number]]

TextKinds == {"clause", "point", "plain", "form", "table", "file", "marker"}

AttachmentHolds(h, a) ==
    /\ DOMAIN a = AttachmentFields
    /\ a.blocks \in Seq(ToSet(a.blocks)) /\ IsInjective(a.blocks)
    /\ \A p \in ToSet(a.blocks) : p \in 1..Len(h) /\ AppendixIn(h, p)

\* Every text of an appendix is in one attachment.
AttachmentsHold(h, atts) ==
    /\ atts \in Seq(ToSet(atts))
    /\ \A k \in DOMAIN atts : AttachmentHolds(h, atts[k])
    /\ \A k, l \in DOMAIN atts : \A p \in ToSet(atts[k].blocks) : p \in ToSet(atts[l].blocks) => k = l
    /\ \A p \in 1..Len(h) : AppendixIn(h, p) /\ h[p].kind \in TextKinds =>
          \E k \in DOMAIN atts : p \in ToSet(atts[k].blocks)
    /\ IdsOk(AsIds(atts))

LEMMA IsList ==
    ASSUME NEW n \in Nat, NEW f, f = [k \in 1..n |-> f[k]]
    PROVE  f \in Seq(ToSet(f)) /\ Len(f) = n
<1>1. PICK S : S = ToSet(f)
    OBVIOUS
<1>2. DOMAIN f = 1..n /\ \A k \in 1..n : f[k] \in S
    BY <1>1 DEF ToSet
<1>3. f \in [1..n -> S]
    BY <1>2
<1> QED BY <1>1, <1>3

LEMMA AttachmentStays ==
    ASSUME NEW h, NEW g, Grows(h, g), NEW a, AttachmentHolds(h, a)
    PROVE  AttachmentHolds(g, a)
<1>1. ASSUME NEW p \in ToSet(a.blocks) PROVE p \in 1..Len(g) /\ AppendixIn(g, p)
  <2>1. p \in 1..Len(h) /\ AppendixIn(h, p)
      BY DEF AttachmentHolds
  <2>2. p \in 1..Len(g)
      BY <2>1 DEF Grows
  <2> QED BY <2>1, <2>2, SameStanding
<1> QED BY <1>1 DEF AttachmentHolds

\* What was covered stays covered; the new tag may have to be.
LEMMA CoveredSoFar ==
    ASSUME NEW h, NEW g, Grows(h, g), NEW atts, AttachmentsHold(h, atts), NEW p \in 1..Len(g),
           AppendixIn(g, p), g[p].kind \in TextKinds, p # Len(h) + 1
    PROVE  \E k \in DOMAIN atts : p \in ToSet(atts[k].blocks)
<1>1. p \in 1..Len(h)
    BY DEF Grows
<1>2. (AppendixIn(g, p) <=> AppendixIn(h, p)) /\ g[p] = h[p]
    BY <1>1, SameStanding
<1> QED BY <1>1, <1>2 DEF AttachmentsHold

LEMMA AttachmentsStay ==
    ASSUME NEW h, NEW g, Grows(h, g), NEW atts, AttachmentsHold(h, atts),
           ~(AppendixIn(g, Len(h) + 1) /\ g[Len(h) + 1].kind \in TextKinds)
    PROVE  AttachmentsHold(g, atts)
<1>1. \A k \in DOMAIN atts : AttachmentHolds(g, atts[k])
    BY AttachmentStays DEF AttachmentsHold
<1>2. \A p \in 1..Len(g) : AppendixIn(g, p) /\ g[p].kind \in TextKinds =>
          \E k \in DOMAIN atts : p \in ToSet(atts[k].blocks)
    BY CoveredSoFar
<1> QED BY <1>1, <1>2 DEF AttachmentsHold

\* The last attachment takes the tag in, unless it is blank.
LEMMA AttachmentGrows ==
    ASSUME NEW h, NEW g, Grows(h, g), NEW atts, AttachmentsHold(h, atts), Len(atts) > 0,
           AppendixIn(g, Len(h) + 1)
    PROVE  AttachmentsHold(g, [atts EXCEPT ![Len(atts)] = AddToAttachment(@, g[Len(h) + 1], Len(h) + 1)])
<1> PICK at, n : at = Len(h) + 1 /\ n = Len(atts)
    OBVIOUS
<1> PICK tag : tag = g[at]
    OBVIOUS
<1> PICK a, b : a = atts[n] /\ b = AddToAttachment(a, tag, at)
    OBVIOUS
<1> PICK new : new = [atts EXCEPT ![n] = b]
    OBVIOUS
<1>1. atts \in Seq(ToSet(atts)) /\ DOMAIN atts = 1..n /\ n \in Nat /\ n \in DOMAIN atts
    BY DEF AttachmentsHold
<1>2. AttachmentHolds(g, a) /\ at \in Nat /\ at \notin 1..Len(h) /\ at \in 1..Len(g) /\ AttachmentHolds(h, a)
    BY <1>1, AttachmentStays DEF AttachmentsHold, Grows
<1>3. CASE tag.kind = "blank"
  <2>1. b = a
      BY <1>3 DEF AddToAttachment
  <2>2. new = atts
      BY <1>1, <2>1
  <2>3. "blank" \notin TextKinds
      BY DEF TextKinds
  <2>4. AttachmentsHold(g, atts)
      BY <1>3, <2>3, AttachmentsStay
  <2> QED BY <2>2, <2>4
<1>4. CASE tag.kind # "blank"
  <2>1. PICK s : s = Append(a.blocks, at)
      OBVIOUS
  <2>2. /\ DOMAIN b = AttachmentFields /\ b.parent = a.parent /\ b.number = a.number /\ b.blocks = s
    <3>1. PICK form, tables :
            /\ form = IF tag.kind = "form" THEN tag.value ELSE a.form
            /\ tables = IF tag.kind = "table" THEN Append(a.tables, a.form) ELSE a.tables
        OBVIOUS
    <3>2. b = [a EXCEPT !.blocks = s, !.form = form, !.tables = tables]
        BY <1>4, <2>1, <3>1 DEF AddToAttachment
    <3>3. DOMAIN a = AttachmentFields
        BY <1>2 DEF AttachmentHolds
    <3> QED BY <3>2, <3>3 DEF AttachmentFields
  <2>3. a.blocks \in Seq(ToSet(a.blocks))
      BY <1>2 DEF AttachmentHolds
  <2>4. PICK t : t = a.blocks
      OBVIOUS
  <2>5. /\ s \in Seq(ToSet(s)) /\ DOMAIN t = 1..Len(t) /\ DOMAIN s = 1..(Len(t) + 1) /\ Len(t) \in Nat
        /\ \A j \in 1..Len(t) : s[j] = t[j]
        /\ s[Len(t) + 1] = at
      BY <2>1, <2>3, <2>4, Appended
  <2>6. ToSet(s) = ToSet(t) \cup {at}
      BY <2>5 DEF ToSet
  <2>7. at \notin ToSet(t) /\ \A p \in ToSet(t) : p \in 1..Len(g) /\ AppendixIn(g, p)
    <3>1. \A p \in ToSet(t) : p \in 1..Len(h)
        BY <1>2, <2>4 DEF AttachmentHolds
    <3> QED BY <1>2, <2>4, <3>1 DEF AttachmentHolds
  <2>8. IsInjective(s)
    <3>1. \A j \in 1..(Len(t) + 1) : j = Len(t) + 1 \/ j \in 1..Len(t)
        BY <2>5
    <3>2. \A j, k \in 1..Len(t) : t[j] = t[k] => j = k
        BY <1>2, <2>4, <2>5 DEF IsInjective, AttachmentHolds
    <3>3. \A j \in 1..Len(t) : s[j] # at
        BY <2>5, <2>7 DEF ToSet
    <3>4. \A j, k \in 1..(Len(t) + 1) : s[j] = s[k] => j = k
        BY <2>5, <3>1, <3>2, <3>3
    <3> QED BY <2>5, <3>4 DEF IsInjective
  <2>9. AttachmentHolds(g, b)
      BY <1>2, <2>2, <2>5, <2>6, <2>7, <2>8 DEF AttachmentHolds
  <2>10. /\ DOMAIN new = 1..n /\ new[n] = b /\ \A k \in 1..n : k # n => new[k] = atts[k]
      BY <1>1
  <2>11. new \in Seq(ToSet(new))
    <3>1. n \in Nat /\ new = [k \in 1..n |-> new[k]]
        BY <1>1, <2>10
    <3>2. ASSUME NEW f, f = [k \in 1..n |-> f[k]]
          PROVE  f \in Seq(ToSet(f))
        BY <3>1, <3>2, IsList
    <3> QED BY <3>1, <3>2
  <2>12. \A k \in DOMAIN new : AttachmentHolds(g, new[k])
    <3>1. \A k \in 1..n : AttachmentHolds(g, atts[k])
        BY <1>1, AttachmentStays DEF AttachmentsHold
    <3> QED BY <2>9, <2>10, <3>1
  <2>13. \A k \in 1..n : at \notin ToSet(atts[k].blocks)
    <3>1. \A k \in 1..n : \A p \in ToSet(atts[k].blocks) : p \in 1..Len(h)
        BY <1>1 DEF AttachmentsHold, AttachmentHolds
    <3> QED BY <1>2, <3>1
  <2>14. \A k \in 1..n : ToSet(new[k].blocks) = IF k = n THEN ToSet(atts[k].blocks) \cup {at} ELSE ToSet(atts[k].blocks)
      BY <2>2, <2>4, <2>6, <2>10
  <2>15. \A k, l \in DOMAIN new : \A p \in ToSet(new[k].blocks) : p \in ToSet(new[l].blocks) => k = l
    <3>1. \A k, l \in 1..n : \A p \in ToSet(atts[k].blocks) : p \in ToSet(atts[l].blocks) => k = l
        BY <1>1 DEF AttachmentsHold
    <3>2. ASSUME NEW k \in DOMAIN new, NEW l \in DOMAIN new, NEW p \in ToSet(new[k].blocks), p \in ToSet(new[l].blocks)
          PROVE  k = l
      <4>0. k \in 1..n /\ l \in 1..n
          BY <2>10
      <4>1. CASE p = at
          BY <2>13, <2>14, <3>2, <4>0, <4>1
      <4>2. CASE p # at
        <5>1. \A j \in 1..n : ToSet(new[j].blocks) \subseteq ToSet(atts[j].blocks) \cup {at}
            BY <2>14
        <5>2. ToSet(new[k].blocks) \subseteq ToSet(atts[k].blocks) \cup {at}
            BY <4>0, <5>1
        <5>3. ToSet(new[l].blocks) \subseteq ToSet(atts[l].blocks) \cup {at}
            BY <4>0, <5>1
        <5> QED BY <3>1, <3>2, <4>0, <4>2, <5>2, <5>3
      <4> QED BY <4>1, <4>2
    <3> QED BY <3>2
  <2>16. \A p \in 1..Len(g) : AppendixIn(g, p) /\ g[p].kind \in TextKinds =>
             \E k \in DOMAIN new : p \in ToSet(new[k].blocks)
    <3>1. ASSUME NEW p \in 1..Len(g), AppendixIn(g, p), g[p].kind \in TextKinds
          PROVE  \E k \in DOMAIN new : p \in ToSet(new[k].blocks)
      <4>1. CASE p = at
          BY <1>1, <2>10, <2>14, <4>1
      <4>2. CASE p # at
        <5>1. \E k \in DOMAIN atts : p \in ToSet(atts[k].blocks)
            BY <3>1, <4>2, CoveredSoFar
        <5> QED BY <1>1, <2>10, <2>14, <5>1
      <4> QED BY <4>1, <4>2
    <3> QED BY <3>1
  <2>17. AsIds(new) = AsIds(atts)
    <3>1. \A k \in 1..n : new[k].parent = atts[k].parent /\ new[k].number = atts[k].number
        BY <2>2, <2>10
    <3> QED BY <1>1, <2>10, <3>1 DEF AsIds
  <2> QED BY <2>11, <2>12, <2>15, <2>16, <2>17 DEF AttachmentsHold
<1> QED BY <1>3, <1>4

LEMMA AttachmentAdded ==
    ASSUME NEW h, NEW g, Grows(h, g), NEW atts, AttachmentsHold(h, atts), AppendixIn(g, Len(h) + 1),
           NEW a, DOMAIN a = AttachmentFields, a.blocks = <<Len(h) + 1>>,
           a.number = 1 + Cardinality({i \in DOMAIN atts : atts[i].parent = a.parent})
    PROVE  AttachmentsHold(g, Append(atts, a))
<1> PICK at, n, new : at = Len(h) + 1 /\ n = Len(atts) /\ new = Append(atts, a)
    OBVIOUS
<1>1. atts \in Seq(ToSet(atts))
    BY DEF AttachmentsHold
<1>2. /\ DOMAIN atts = 1..n /\ n \in Nat /\ DOMAIN new = 1..(n + 1) /\ new \in Seq(ToSet(new))
      /\ \A k \in 1..n : new[k] = atts[k]
      /\ new[n + 1] = a
    BY <1>1, Appended
<1>3. \A k \in 1..(n + 1) : k = n + 1 \/ k \in 1..n
    BY <1>2
<1>4. at \notin 1..Len(h) /\ at \in 1..Len(g)
    BY DEF Grows
<1>5. PICK s : s = <<at>>
    OBVIOUS
<1>6. s \in Seq(ToSet(s)) /\ IsInjective(s) /\ ToSet(s) = {at}
    BY <1>5 DEF IsInjective, ToSet
<1>7. a.blocks = s
    BY <1>5
<1>8. AttachmentHolds(g, a)
    BY <1>4, <1>6, <1>7 DEF AttachmentHolds
<1>9. \A k \in 1..n : AttachmentHolds(g, atts[k])
    BY <1>2, AttachmentStays DEF AttachmentsHold
<1>10. \A k \in DOMAIN new : AttachmentHolds(g, new[k])
    BY <1>2, <1>3, <1>8, <1>9
<1>11. \A k \in 1..n : at \notin ToSet(atts[k].blocks)
  <2>1. \A k \in 1..n : \A p \in ToSet(atts[k].blocks) : p \in 1..Len(h)
      BY <1>2 DEF AttachmentsHold, AttachmentHolds
  <2> QED BY <1>4, <2>1
<1>12. \A k, l \in DOMAIN new : \A p \in ToSet(new[k].blocks) : p \in ToSet(new[l].blocks) => k = l
  <2>1. \A k, l \in 1..n : \A p \in ToSet(atts[k].blocks) : p \in ToSet(atts[l].blocks) => k = l
      BY <1>2 DEF AttachmentsHold
  <2>2. ToSet(new[n + 1].blocks) = {at}
      BY <1>2, <1>6, <1>7
  <2>3. \A k \in 1..n : ToSet(new[k].blocks) = ToSet(atts[k].blocks)
      BY <1>2
  <2>4. ASSUME NEW k \in 1..(n + 1), NEW l \in 1..(n + 1), NEW p,
               p \in ToSet(new[k].blocks), p \in ToSet(new[l].blocks)
        PROVE  k = l
    <3>1. CASE k \in 1..n /\ l \in 1..n
        BY <2>1, <2>3, <2>4, <3>1
    <3>2. CASE k = n + 1 /\ l \in 1..n
        BY <1>11, <2>2, <2>3, <2>4, <3>2
    <3>3. CASE k \in 1..n /\ l = n + 1
        BY <1>11, <2>2, <2>3, <2>4, <3>3
    <3> QED BY <1>3, <3>1, <3>2, <3>3
  <2> QED BY <1>2, <2>4
<1>13. \A p \in 1..Len(g) : AppendixIn(g, p) /\ g[p].kind \in TextKinds =>
           \E k \in DOMAIN new : p \in ToSet(new[k].blocks)
  <2>1. ASSUME NEW p \in 1..Len(g), AppendixIn(g, p), g[p].kind \in TextKinds
        PROVE  \E k \in DOMAIN new : p \in ToSet(new[k].blocks)
    <3>1. CASE p = at
      <4>1. n + 1 \in DOMAIN new /\ p \in ToSet(new[n + 1].blocks)
          BY <1>2, <1>6, <1>7, <3>1
      <4> QED BY <4>1
    <3>2. CASE p # at
      <4>1. PICK k \in DOMAIN atts : p \in ToSet(atts[k].blocks)
          BY <2>1, <3>2, CoveredSoFar
      <4>2. k \in DOMAIN new /\ new[k] = atts[k]
          BY <1>2, <4>1
      <4> QED BY <4>1, <4>2
    <3> QED BY <3>1, <3>2
  <2> QED BY <2>1
<1>14. IdsOk(AsIds(new))
  <2>1. PICK ids, id : ids = AsIds(atts) /\ id = [base |-> a.parent, occurrence |-> a.number]
      OBVIOUS
  <2>2. IdsOk(ids) /\ ids \in Seq(ToSet(ids)) /\ DOMAIN ids = 1..n
      BY <1>2, <2>1 DEF AttachmentsHold, IdsOk, AsIds
  <2>3. id.occurrence = Occurrences(ids, id.base) + 1
    <3>1. {i \in DOMAIN ids : ids[i].base = id.base} = {i \in DOMAIN atts : atts[i].parent = a.parent}
        BY <1>2, <2>1, <2>2 DEF AsIds
    <3>2. Occurrences(ids, id.base) \in Nat
        BY <2>2, OneMoreOccurrence
    <3>3. id.base = a.parent /\ id.occurrence = a.number
        BY <2>1
    <3>4. a.number = 1 + Occurrences(ids, id.base)
        BY <3>1 DEF Occurrences
    <3> QED BY <3>2, <3>3, <3>4
  <2>4. IdsOk(Append(ids, id))
      BY <2>2, <2>3, OneMoreId
  <2>5. AsIds(new) = Append(ids, id)
    <3>1. PICK more : more = Append(ids, id)
        OBVIOUS
    <3>2. Len(ids) = n
        BY <1>2, <2>2
    <3>3. /\ DOMAIN more = 1..(n + 1) /\ more[n + 1] = id /\ \A k \in 1..n : more[k] = ids[k]
          /\ more \in Seq(ToSet(more))
        BY <2>2, <3>1, <3>2, Appended
    <3>4. \A k \in 1..n : ids[k] = [base |-> atts[k].parent, occurrence |-> atts[k].number]
        BY <1>2, <2>1 DEF AsIds
    <3>5. \A k \in 1..(n + 1) : more[k] = [base |-> new[k].parent, occurrence |-> new[k].number]
        BY <1>2, <1>3, <2>1, <3>3, <3>4
    <3>6. more = [k \in 1..(n + 1) |-> more[k]]
        BY <3>3
    <3> QED BY <1>2, <3>1, <3>5, <3>6 DEF AsIds
  <2> QED BY <2>4, <2>5
<1> QED BY <1>2, <1>10, <1>12, <1>13, <1>14 DEF AttachmentsHold

-----------------------------------------------------------------------------
(* The structure                                                             *)

AnchorFor(o, owner) == IF owner = 0 THEN Nil ELSE o.items[owner].anchor

OutlineFields == {"items", "chapter", "section", "pending"}
IsOutline(o) ==
    /\ DOMAIN o = OutlineFields
    /\ o.items \in Seq(ToSet(o.items))
    /\ \A k \in DOMAIN o.items : DOMAIN o.items[k] = {"kind", "anchor", "title"}
    /\ o.chapter \in 0..Len(o.items) /\ o.section \in 0..Len(o.items)

\* What comes next belongs to the last chapter or section.
OutlineHolds(h, o) ==
    IsOutline(o) /\ AnchorFor(o, CitationOwner(o)) = AnchorIn(h, Len(h) + 1)

\* An outline that keeps the anchors of another
Continues(new, o) ==
    /\ IsOutline(new) /\ Len(o.items) <= Len(new.items)
    /\ \A owner \in 0..Len(o.items) : AnchorFor(new, owner) = AnchorFor(o, owner)

LEMMA OwnerExists ==
    ASSUME NEW o, IsOutline(o)
    PROVE  CitationOwner(o) \in 0..Len(o.items)
BY DEF IsOutline, CitationOwner

LEMMA ItemAdded ==
    ASSUME NEW o, IsOutline(o), NEW item, DOMAIN item = {"kind", "anchor", "title"}, NEW new,
           DOMAIN new = OutlineFields, new.items = Append(o.items, item),
           new.chapter \in 0..(Len(o.items) + 1), new.section \in 0..(Len(o.items) + 1)
    PROVE  /\ Continues(new, o) /\ Len(new.items) = Len(o.items) + 1
           /\ AnchorFor(new, Len(o.items) + 1) = item.anchor
<1> PICK s, t, n : s = o.items /\ t = new.items /\ n = Len(s)
    OBVIOUS
<1>1. s \in Seq(ToSet(s)) /\ t = Append(s, item)
    BY DEF IsOutline
<1>2. /\ t \in Seq(ToSet(t)) /\ Len(t) = n + 1 /\ DOMAIN s = 1..n /\ DOMAIN t = 1..(n + 1) /\ n \in Nat
      /\ \A k \in 1..n : t[k] = s[k]
      /\ t[n + 1] = item
    BY <1>1, Appended
<1>3. \A k \in 1..(n + 1) : k = n + 1 \/ k \in 1..n
    BY <1>2
<1>4. \A k \in 1..n : DOMAIN s[k] = {"kind", "anchor", "title"}
    BY <1>2 DEF IsOutline
<1>5. \A k \in DOMAIN t : DOMAIN t[k] = {"kind", "anchor", "title"}
    BY <1>2, <1>3, <1>4
<1>6. IsOutline(new)
    BY <1>2, <1>5 DEF IsOutline
<1>7. ASSUME NEW owner \in 0..n PROVE AnchorFor(new, owner) = AnchorFor(o, owner)
  <2>1. owner = 0 \/ owner \in 1..n
      BY <1>2
  <2> QED BY <1>2, <2>1 DEF AnchorFor
<1>8. AnchorFor(new, n + 1) = item.anchor
    BY <1>2 DEF AnchorFor
<1> QED BY <1>2, <1>6, <1>7, <1>8 DEF Continues

LEMMA MarkerAdded ==
    ASSUME NEW o, IsOutline(o), NEW kind \in {"chapter", "section"}, NEW anchor
    PROVE  /\ Continues(AddMarker(o, kind, anchor), o)
           /\ AnchorFor(AddMarker(o, kind, anchor), CitationOwner(AddMarker(o, kind, anchor))) = anchor
<1> PICK n, item, new : /\ n = Len(o.items)
                        /\ item = [kind |-> kind, anchor |-> anchor, title |-> Nil]
                        /\ new = AddMarker(o, kind, anchor)
    OBVIOUS
<1>1. n \in Nat /\ o.chapter \in 0..n
    BY DEF IsOutline
<1>2. PICK items : items = Append(o.items, item)
    OBVIOUS
<1>3. new = [items |-> items, chapter |-> IF kind = "chapter" THEN n + 1 ELSE o.chapter,
             section |-> IF kind = "chapter" THEN 0 ELSE n + 1, pending |-> n + 1]
    BY <1>2 DEF AddMarker
<1>4. /\ DOMAIN new = OutlineFields /\ new.items = Append(o.items, item)
      /\ new.chapter \in 0..(n + 1) /\ new.section \in 0..(n + 1)
      /\ CitationOwner(new) = n + 1
    BY <1>1, <1>2, <1>3 DEF OutlineFields, CitationOwner
<1>5. DOMAIN item = {"kind", "anchor", "title"} /\ item.anchor = anchor
    OBVIOUS
<1>6. Continues(new, o) /\ AnchorFor(new, n + 1) = item.anchor
    BY <1>4, <1>5, ItemAdded DEF IsOutline
<1> QED BY <1>4, <1>5, <1>6

LEMMA HeadingAdded ==
    ASSUME NEW o, IsOutline(o), NEW text
    PROVE  /\ Continues(AddHeading(o, text), o)
           /\ CitationOwner(AddHeading(o, text)) = CitationOwner(o)
<1> PICK n, new : n = Len(o.items) /\ new = AddHeading(o, text)
    OBVIOUS
<1>1. /\ DOMAIN o = OutlineFields /\ n \in Nat /\ o.chapter \in 0..n /\ o.section \in 0..n
      /\ o.items \in Seq(ToSet(o.items)) /\ DOMAIN o.items = 1..n
    BY DEF IsOutline
<1>2. Continues(o, o)
    BY <1>1 DEF Continues
<1>3. CASE o.pending # 0
  <2>1. PICK items : items = [o.items EXCEPT ![o.pending] = [@ EXCEPT !.title = text]]
      OBVIOUS
  <2>2. new = [o EXCEPT !.items = items, !.pending = 0]
      BY <1>3, <2>1 DEF AddHeading
  <2>3. DOMAIN new = OutlineFields /\ new.items = items /\ new.chapter = o.chapter /\ new.section = o.section
      BY <1>1, <2>2 DEF OutlineFields
  <2>4. DOMAIN items = 1..n
      BY <1>1, <2>1
  <2>5. ASSUME NEW k \in 1..n
        PROVE  DOMAIN items[k] = {"kind", "anchor", "title"} /\ items[k].anchor = o.items[k].anchor
    <3>1. DOMAIN o.items[k] = {"kind", "anchor", "title"}
        BY <1>1 DEF IsOutline
    <3>2. PICK item : item = o.items[k]
        OBVIOUS
    <3>3. items[k] = item \/ items[k] = [item EXCEPT !.title = text]
        BY <1>1, <2>1, <3>2
    <3> QED BY <3>1, <3>2, <3>3
  <2>6. items \in Seq(ToSet(items)) /\ Len(items) = n
    <3>1. items = [k \in 1..n |-> items[k]]
        BY <1>1, <2>1
    <3> QED BY <1>1, <3>1, IsList
  <2>7. IsOutline(new)
      BY <1>1, <2>3, <2>4, <2>5, <2>6 DEF IsOutline
  <2>8. ASSUME NEW owner \in 0..n PROVE AnchorFor(new, owner) = AnchorFor(o, owner)
    <3>1. owner = 0 \/ owner \in 1..n
        BY <1>1
    <3> QED BY <2>3, <2>5, <3>1 DEF AnchorFor
  <2>9. Continues(new, o)
      BY <1>1, <2>3, <2>6, <2>7, <2>8 DEF Continues
  <2>10. CitationOwner(new) = CitationOwner(o)
      BY <2>3 DEF CitationOwner
  <2> QED BY <2>9, <2>10
<1>4. CASE o.pending = 0 /\ text = Nil
  <2>1. new = o
      BY <1>4 DEF AddHeading
  <2> QED BY <1>2, <2>1
<1>5. CASE o.pending = 0 /\ text # Nil
  <2>1. PICK item, items : item = [kind |-> "unclassified", anchor |-> Nil, title |-> text] /\ items = Append(o.items, item)
      OBVIOUS
  <2>2. new = [o EXCEPT !.items = items]
      BY <1>5, <2>1 DEF AddHeading
  <2>3. DOMAIN new = OutlineFields /\ new.items = items /\ new.chapter = o.chapter /\ new.section = o.section
      BY <1>1, <2>2 DEF OutlineFields
  <2>4. DOMAIN item = {"kind", "anchor", "title"}
      BY <2>1
  <2>5. new.chapter \in 0..(n + 1) /\ new.section \in 0..(n + 1)
      BY <1>1, <2>3
  <2>6. Continues(new, o)
      BY <2>1, <2>3, <2>4, <2>5, ItemAdded DEF IsOutline
  <2>7. CitationOwner(new) = CitationOwner(o)
      BY <2>3 DEF CitationOwner
  <2> QED BY <2>6, <2>7
<1> QED BY <1>3, <1>4, <1>5

\* Each citation outside the articles has its chapter or section.
PrefaceHolds(h, o, cited) ==
    /\ DOMAIN cited = CitedIn(h, 0)
    /\ \A w \in CitedIn(h, 0) : cited[w] \in 0..Len(o.items) /\ AnchorFor(o, cited[w]) = AnchorIn(h, w[1])

LEMMA PrefaceStays ==
    ASSUME NEW h, NEW g, Grows(h, g), NEW o, NEW new, Continues(new, o), IsOutline(o), NEW cited,
           PrefaceHolds(h, o, cited), CitedIn(g, 0) = CitedIn(h, 0)
    PROVE  PrefaceHolds(g, new, cited)
<1>1. ASSUME NEW w \in CitedIn(h, 0)
      PROVE  cited[w] \in 0..Len(new.items) /\ AnchorFor(new, cited[w]) = AnchorIn(g, w[1])
  <2>1. cited[w] \in 0..Len(o.items) /\ AnchorFor(o, cited[w]) = AnchorIn(h, w[1])
      BY DEF PrefaceHolds
  <2>2. w[1] \in 1..Len(h)
      BY LinkIsPlace DEF CitedIn
  <2>3. AnchorIn(g, w[1]) = AnchorIn(h, w[1])
      BY <2>2, SameStanding
  <2>4. /\ Len(o.items) <= Len(new.items) /\ Len(new.items) \in Nat /\ Len(o.items) \in Nat
        /\ \A owner \in 0..Len(o.items) : AnchorFor(new, owner) = AnchorFor(o, owner)
      BY DEF Continues, IsOutline
  <2>5. AnchorFor(new, cited[w]) = AnchorFor(o, cited[w])
      BY <2>1, <2>4
  <2> QED BY <2>1, <2>3, <2>4, <2>5
<1> QED BY <1>1 DEF PrefaceHolds

WithLinks(cited, links, owner) ==
    [link \in DOMAIN cited \cup links |-> IF link \in DOMAIN cited THEN cited[link] ELSE owner]

LEMMA PrefaceGrows ==
    ASSUME NEW h, NEW g, Grows(h, g), NEW o, OutlineHolds(h, o), NEW cited, PrefaceHolds(h, o, cited),
           CitedIn(g, 0) = CitedIn(h, 0) \cup LinksOf(g[Len(h) + 1], Len(h) + 1)
    PROVE  PrefaceHolds(g, o, WithLinks(cited, LinksOf(g[Len(h) + 1], Len(h) + 1), CitationOwner(o)))
<1> PICK new : new = WithLinks(cited, LinksOf(g[Len(h) + 1], Len(h) + 1), CitationOwner(o))
    OBVIOUS
<1>1. DOMAIN new = CitedIn(g, 0) /\ DOMAIN cited = CitedIn(h, 0)
    BY DEF PrefaceHolds, WithLinks
<1>2. ASSUME NEW w \in CitedIn(g, 0)
      PROVE  new[w] \in 0..Len(o.items) /\ AnchorFor(o, new[w]) = AnchorIn(g, w[1])
  <2>1. CASE w \in CitedIn(h, 0)
    <3>1. new[w] = cited[w]
        BY <1>1, <2>1 DEF WithLinks
    <3>2. w[1] \in 1..Len(h)
        BY <2>1, LinkIsPlace DEF CitedIn
    <3>3. AnchorIn(g, w[1]) = AnchorIn(h, w[1])
        BY <3>2, SameStanding
    <3> QED BY <2>1, <3>1, <3>3 DEF PrefaceHolds
  <2>2. CASE w \notin CitedIn(h, 0)
    <3>1. new[w] = CitationOwner(o) /\ w \in LinksOf(g[Len(h) + 1], Len(h) + 1)
        BY <1>1, <2>2 DEF WithLinks
    <3>2. w[1] = Len(h) + 1
        BY <3>1 DEF LinksOf
    <3>3. Len(h) \in Nat /\ (\A q \in 1..Len(h) : g[q] = h[q]) /\ Len(h) + 1 \in 1..(Len(h) + 1)
        BY DEF Grows
    <3>4. AnchorIn(g, Len(h) + 1) = AnchorIn(h, Len(h) + 1)
      <4>1. ASSUME NEW n \in Nat, \A q \in 1..n : g[q] = h[q], n + 1 \in 1..(n + 1)
            PROVE  AnchorIn(g, n + 1) = AnchorIn(h, n + 1)
          BY <4>1, StandsAsRead
      <4> QED BY <3>3, <4>1
    <3>5. CitationOwner(o) \in 0..Len(o.items)
        BY OwnerExists DEF OutlineHolds
    <3>6. AnchorFor(o, CitationOwner(o)) = AnchorIn(h, Len(h) + 1)
        BY DEF OutlineHolds
    <3> QED BY <3>1, <3>2, <3>4, <3>5, <3>6
  <2> QED BY <2>1, <2>2
<1> QED BY <1>1, <1>2 DEF PrefaceHolds

LEMMA OutlineStays ==
    ASSUME NEW h, NEW g, Grows(h, g), NEW o, OutlineHolds(h, o),
           g[Len(h) + 1].kind \notin {"chapter", "section"}
    PROVE  OutlineHolds(g, o)
<1>1. /\ Len(h) \in Nat /\ (\A q \in 1..Len(h) : g[q] = h[q]) /\ Len(h) + 1 \in 1..(Len(h) + 1)
      /\ Len(g) + 1 = Len(h) + 2
    BY DEF Grows
<1>2. AnchorIn(g, Len(h) + 2) = AnchorIn(g, Len(h) + 1)
    BY <1>1, NextStands
<1>3. AnchorIn(g, Len(h) + 1) = AnchorIn(h, Len(h) + 1)
    BY <1>1, StandsAsRead
<1> QED BY <1>1, <1>2, <1>3 DEF OutlineHolds

-----------------------------------------------------------------------------
(* The relations                                                             *)

LinkIn(h, link) == h[link[1]].links[link[2]]
MentionsOf(h, source) ==
    [key \in {<<source[link], LinkIn(h, link)>> : link \in DOMAIN source} |->
        Cardinality({link \in DOMAIN source : <<source[link], LinkIn(h, link)>> = key})]
SameIn(h, i, link) == {other \in LinksIn(h) : ArticleIn(h, other[1]) = i /\ LinkIn(h, other) = LinkIn(h, link)}
SameUnder(h, p, link) ==
    {other \in LinksIn(h) : /\ ArticleIn(h, other[1]) = 0 /\ AnchorIn(h, other[1]) = AnchorIn(h, p)
                            /\ LinkIn(h, other) = LinkIn(h, link)}

RelationsHold(h, arts, rels) ==
    /\ DOMAIN rels = 1..(Len(arts) + 1)
    /\ \A i \in DOMAIN arts : \A link \in LinksIn(h) :
          MentionsIn(rels[i], <<arts[i].id, LinkIn(h, link)>>) = Cardinality(SameIn(h, i, link))
    /\ \A p \in DOMAIN h : \A link \in LinksIn(h) :
          MentionsIn(rels[Len(arts) + 1], <<AnchorIn(h, p), LinkIn(h, link)>>) = Cardinality(SameUnder(h, p, link))

\* A relation counts the links of its source and target.
LEMMA Mentioned ==
    ASSUME NEW h, NEW source, NEW from, NEW target
    PROVE  MentionsIn(MentionsOf(h, source), <<from, target>>) =
              Cardinality({link \in DOMAIN source : source[link] = from /\ LinkIn(h, link) = target})
<1> PICK key, S : /\ key = <<from, target>>
                  /\ S = {link \in DOMAIN source : <<source[link], LinkIn(h, link)>> = key}
    OBVIOUS
<1>1. S = {link \in DOMAIN source : source[link] = from /\ LinkIn(h, link) = target}
    OBVIOUS
<1>2. key \in DOMAIN MentionsOf(h, source) <=> S # {}
    BY DEF MentionsOf
<1>3. CASE S # {}
    BY <1>1, <1>2, <1>3 DEF MentionsOf, MentionsIn
<1>4. CASE S = {}
  <2>1. MentionsIn(MentionsOf(h, source), key) = 0
      BY <1>2, <1>4 DEF MentionsIn
  <2> QED BY <1>1, <1>4, <2>1, FS_EmptySet
<1> QED BY <1>3, <1>4

LEMMA RelationsCount ==
    ASSUME NEW h, NEW arts, arts \in Seq(ToSet(arts)), NEW rels, NEW o, NEW cited,
           \A i \in DOMAIN arts : arts[i].citations = CitedIn(h, i),
           PrefaceHolds(h, o, cited),
           DOMAIN rels = 1..(Len(arts) + 1),
           \A i \in DOMAIN arts : rels[i] = MentionsOf(h, [link \in arts[i].citations |-> arts[i].id]),
           rels[Len(arts) + 1] = MentionsOf(h, [link \in DOMAIN cited |-> AnchorFor(o, cited[link])])
    PROVE  RelationsHold(h, arts, rels)
<1>1. ASSUME NEW i \in DOMAIN arts, NEW link \in LinksIn(h)
      PROVE  MentionsIn(rels[i], <<arts[i].id, LinkIn(h, link)>>) = Cardinality(SameIn(h, i, link))
  <2>1. PICK id, source, target : /\ id = arts[i].id /\ source = [w \in arts[i].citations |-> id]
                                  /\ target = LinkIn(h, link)
      OBVIOUS
  <2>2. rels[i] = MentionsOf(h, source)
      BY <2>1
  <2>3. {w \in DOMAIN source : source[w] = id /\ LinkIn(h, w) = target} = SameIn(h, i, link)
    <3>1. DOMAIN source = CitedIn(h, i) /\ \A w \in DOMAIN source : source[w] = id
        BY <2>1
    <3> QED BY <2>1, <3>1 DEF SameIn, CitedIn
  <2> QED BY <2>1, <2>2, <2>3, Mentioned
<1>2. ASSUME NEW p \in DOMAIN h, NEW link \in LinksIn(h)
      PROVE  MentionsIn(rels[Len(arts) + 1], <<AnchorIn(h, p), LinkIn(h, link)>>) = Cardinality(SameUnder(h, p, link))
  <2>1. PICK from, source, target : /\ from = AnchorIn(h, p)
                                    /\ source = [w \in DOMAIN cited |-> AnchorFor(o, cited[w])]
                                    /\ target = LinkIn(h, link)
      OBVIOUS
  <2>2. rels[Len(arts) + 1] = MentionsOf(h, source)
      BY <2>1
  <2>3. {w \in DOMAIN source : source[w] = from /\ LinkIn(h, w) = target} = SameUnder(h, p, link)
    <3>1. DOMAIN source = CitedIn(h, 0) /\ \A w \in DOMAIN source : source[w] = AnchorIn(h, w[1])
        BY <2>1 DEF PrefaceHolds
    <3> QED BY <2>1, <3>1 DEF SameUnder, CitedIn
  <2>4. MentionsIn(MentionsOf(h, source), <<from, target>>) =
            Cardinality({w \in DOMAIN source : source[w] = from /\ LinkIn(h, w) = target})
      BY Mentioned
  <2> QED BY <2>1, <2>2, <2>3, <2>4
<1> QED BY <1>1, <1>2 DEF RelationsHold

-----------------------------------------------------------------------------
(* The invariant                                                             *)

ArticlesHold(h, arts) ==
    /\ arts \in Seq(ToSet(arts))
    /\ \A i \in DOMAIN arts : ArticleHolds(h, arts[i], i)

\* All that is read so far is where it belongs, and the relations, once there
\* are any, mention every link.
ParserInv ==
    /\ alphabet \in DOMAIN Alphabets /\ html \in Seq(Tags)
    /\ Contained(html, Len(html), mode, Len(articles))
    /\ ArticlesHold(html, articles)
    /\ AttachmentsHold(html, attachments)
    /\ mode = "appendix" => Len(attachments) > 0
    /\ OutlineHolds(html, outline) /\ PrefaceHolds(html, outline, preface)
    /\ verdict \in {"parsed", "valid", "invalid"} => RelationsHold(html, articles, relations)

LEMMA ArticlesStay ==
    ASSUME NEW h, NEW g, Grows(h, g), NEW arts, ArticlesHold(h, arts),
           \A i \in DOMAIN arts : BlocksIn(g, i) = BlocksIn(h, i) /\ CitedIn(g, i) = CitedIn(h, i)
    PROVE  ArticlesHold(g, arts)
<1>1. ASSUME NEW i \in DOMAIN arts PROVE ArticleHolds(g, arts[i], i)
  <2>1. ArticleHolds(h, arts[i], i) /\ BlocksIn(g, i) = BlocksIn(h, i) /\ CitedIn(g, i) = CitedIn(h, i)
      BY DEF ArticlesHold
  <2>2. /\ DOMAIN arts[i] = ArticleFields
        /\ BlocksHeld(g, arts[i], i) /\ UnitsHeld(g, arts[i], i) /\ QuotesHeld(g, arts[i])
        /\ arts[i].citations = CitedIn(h, i)
      BY <2>1, ArticleStays
  <2> QED BY <2>1, <2>2 DEF ArticleHolds
<1> QED BY <1>1 DEF ArticlesHold

\* The tag changes what belongs to no article but the last one.
LEMMA OthersSame ==
    ASSUME NEW h, NEW g, Grows(h, g), NEW way, NEW count \in Nat, Contained(h, Len(h), way, count), NEW i \in Nat \ {0},
           ~(way = "article" /\ i = count) \/ (~IsBlock(g[Len(h) + 1]) /\ g[Len(h) + 1].kind # "citation")
    PROVE  BlocksIn(g, i) = BlocksIn(h, i) /\ CitedIn(g, i) = CitedIn(h, i)
<1>1. BlocksIn(g, i) = BlocksIn(h, i)
    BY BlocksGrow
<1>2. way \in {"outside", "article", "appendix"} /\ (way = "outside" => 0 # i)
    BY DEF Contained
<1>3. CitedIn(g, i) = IF g[Len(h) + 1].kind = "citation" /\ way # "appendix" /\ i = IF way = "outside" THEN 0 ELSE count
             THEN CitedIn(h, i) \cup LinksOf(g[Len(h) + 1], Len(h) + 1) ELSE CitedIn(h, i)
    BY CitedGrow
<1>4. CitedIn(g, i) = CitedIn(h, i)
    BY <1>2, <1>3
<1> QED BY <1>1, <1>4

LEMMA PrefaceSame ==
    ASSUME NEW h, NEW g, Grows(h, g), NEW way, NEW count \in Nat \ {0}, Contained(h, Len(h), way, count),
           way # "outside"
    PROVE  CitedIn(g, 0) = CitedIn(h, 0)
<1>1. CitedIn(g, 0) = IF g[Len(h) + 1].kind = "citation" /\ way # "appendix" /\ 0 = IF way = "outside" THEN 0 ELSE count
             THEN CitedIn(h, 0) \cup LinksOf(g[Len(h) + 1], Len(h) + 1) ELSE CitedIn(h, 0)
    BY CitedGrow
<1> QED BY <1>1

\* Nothing belongs to an article that is still to come.
LEMMA NothingAhead ==
    ASSUME NEW h, Len(h) \in Nat, NEW way, NEW count \in Nat, Contained(h, Len(h), way, count)
    PROVE  BlocksIn(h, count + 1) = {} /\ CitedIn(h, count + 1) = {}
<1>1. ASSUME NEW p \in 1..Len(h) PROVE ArticleIn(h, p) # count + 1
  <2>1. p \in 1..(Len(h) + 1) /\ count = Cardinality(ArticlesTo(h, Len(h)))
      BY DEF Contained
  <2>2. ArticleIn(h, p) <= count /\ ArticleIn(h, p) \in Nat
      BY <2>1, ArticlesSoFar
  <2> QED BY <2>2
<1>2. \A w \in LinksIn(h) : w[1] \in 1..Len(h)
    BY LinkIsPlace
<1> QED BY <1>1, <1>2 DEF BlocksIn, CitedIn

LEMMA ReadGrows ==
    ASSUME ParserInv, NEW tag, Read(tag)
    PROVE  /\ Grows(html, html') /\ html' \in Seq(Tags) /\ html'[Len(html) + 1] = tag
           /\ Len(html) \in Nat /\ alphabet' \in DOMAIN Alphabets
           /\ Len(articles) \in Nat /\ DOMAIN articles = 1..Len(articles)
           /\ verdict = "reading" /\ Len(html') = Len(html) + 1
<1>1. html \in Seq(Tags) /\ alphabet \in DOMAIN Alphabets
    BY DEF ParserInv
<1>2. tag \in Tags
  <2>1. Alphabets[alphabet] \in Seq(SUBSET Tags)
      BY <1>1, ParserAssumption
  <2>2. tag \in NextTags
      BY DEF Read
  <2>3. Len(html) < Len(Alphabets[alphabet]) /\ tag \in Alphabets[alphabet][Len(html) + 1]
      BY <2>2 DEF NextTags
  <2>4. Len(html) + 1 \in 1..Len(Alphabets[alphabet])
      BY <1>1, <2>1, <2>3
  <2>5. Alphabets[alphabet][Len(html) + 1] \in SUBSET Tags
      BY <2>1, <2>4
  <2> QED BY <2>3, <2>5
<1>3. html' = Append(html, tag) /\ alphabet' = alphabet /\ verdict = "reading"
    BY DEF Read
<1>4. /\ html' \in Seq(Tags) /\ Len(html') = Len(html) + 1 /\ html'[Len(html) + 1] = tag
      /\ \A q \in 1..Len(html) : html'[q] = html[q]
      /\ Len(html) \in Nat /\ DOMAIN html = 1..Len(html) /\ DOMAIN html' = 1..(Len(html) + 1)
    BY <1>1, <1>2, <1>3
<1>5. Grows(html, html')
    BY <1>4 DEF Grows
<1>6. Len(articles) \in Nat /\ DOMAIN articles = 1..Len(articles)
  <2>1. articles \in Seq(ToSet(articles))
      BY DEF ParserInv, ArticlesHold
  <2> QED BY <2>1
<1> QED BY <1>1, <1>3, <1>4, <1>5, <1>6

\* The parts of the invariant that a tag outside all appendixes leaves alone
LEMMA TagLeaves ==
    ASSUME ParserInv, NEW tag, Read(tag)
    PROVE  /\ tag.kind \notin Boundary /\ (tag.kind = "appendix" => mode = "outside") =>
                Contained(html', Len(html'), mode, Len(articles))
           /\ tag.kind \notin {"chapter", "section"} => OutlineHolds(html', outline)
           /\ ~(mode = "appendix" \/ (mode = "article" /\ tag.kind = "appendix")) \/ tag.kind \notin TextKinds =>
                AttachmentsHold(html', attachments)
           /\ mode # "article" \/ (~IsBlock(tag) /\ tag.kind # "citation") => ArticlesHold(html', articles)
           /\ mode # "outside" \/ tag.kind # "citation" => PrefaceHolds(html', outline, preface)
<1>1. /\ Grows(html, html') /\ html'[Len(html) + 1] = tag /\ Len(html) \in Nat
      /\ Len(articles) \in Nat /\ DOMAIN articles = 1..Len(articles) /\ Len(html') = Len(html) + 1
    BY ReadGrows
<1>2. /\ Contained(html, Len(html), mode, Len(articles)) /\ ArticlesHold(html, articles)
      /\ AttachmentsHold(html, attachments) /\ OutlineHolds(html, outline) /\ PrefaceHolds(html, outline, preface)
    BY DEF ParserInv
<1>3. \A q \in 1..Len(html) : html'[q] = html[q]
    BY <1>1 DEF Grows
<1>4. AppendixIn(html', Len(html) + 1) <=> mode = "appendix" \/ (mode = "article" /\ tag.kind = "appendix")
    BY <1>1, <1>2, <1>3, GoesHere
<1>5. ASSUME tag.kind \notin Boundary, tag.kind = "appendix" => mode = "outside"
      PROVE  Contained(html', Len(html'), mode, Len(articles))
    BY <1>1, <1>2, <1>3, <1>5, GoesOn
<1>6. ASSUME tag.kind \notin {"chapter", "section"} PROVE OutlineHolds(html', outline)
    BY <1>1, <1>2, <1>6, OutlineStays
<1>7. ASSUME ~(mode = "appendix" \/ (mode = "article" /\ tag.kind = "appendix")) \/ tag.kind \notin TextKinds
      PROVE  AttachmentsHold(html', attachments)
    BY <1>1, <1>2, <1>4, <1>7, AttachmentsStay
<1>8. ASSUME mode # "article" \/ (~IsBlock(tag) /\ tag.kind # "citation")
      PROVE  ArticlesHold(html', articles)
  <2>1. ASSUME NEW i \in DOMAIN articles
        PROVE  BlocksIn(html', i) = BlocksIn(html, i) /\ CitedIn(html', i) = CitedIn(html, i)
    <3>1. i \in Nat \ {0}
        BY <1>1
    <3> QED BY <1>1, <1>2, <1>8, <3>1, OthersSame
  <2> QED BY <1>1, <1>2, <2>1, ArticlesStay
<1>9. ASSUME mode # "outside" \/ tag.kind # "citation" PROVE PrefaceHolds(html', outline, preface)
  <2>1. CitedIn(html', 0) = CitedIn(html, 0)
    <3>1. mode # "outside" => Len(articles) > 0
        BY <1>2 DEF Contained
    <3>2. CASE mode # "outside"
        BY <1>1, <1>2, <3>1, <3>2, PrefaceSame
    <3>3. CASE tag.kind # "citation"
        BY <1>1, <1>2, <3>3, CitedGrow
    <3> QED BY <1>9, <3>2, <3>3
  <2>2. IsOutline(outline) /\ Continues(outline, outline)
    <3>1. IsOutline(outline) /\ Len(outline.items) \in Nat
        BY <1>2 DEF OutlineHolds, IsOutline
    <3> QED BY <3>1 DEF Continues
  <2> QED BY <1>1, <1>2, <2>1, <2>2, PrefaceStays
<1> QED BY <1>5, <1>6, <1>7, <1>8, <1>9

LEMMA ReadStructureKeepsInv == ASSUME ParserInv, NEW tag, ReadStructure(tag) PROVE ParserInv'
<1>1. Read(tag) /\ tag.kind \in {"chapter", "section", "heading"}
    BY DEF ReadStructure
<1>2. /\ Grows(html, html') /\ html' \in Seq(Tags) /\ html'[Len(html) + 1] = tag
      /\ Len(html) \in Nat /\ alphabet' \in DOMAIN Alphabets /\ verdict = "reading" /\ Len(html') = Len(html) + 1
    BY <1>1, ReadGrows
<1>3. /\ mode' = "outside" /\ preface' = preface /\ articles' = articles /\ attachments' = attachments
      /\ verdict' = verdict
      /\ outline' = IF tag.kind = "heading" THEN AddHeading(outline, tag.value)
                    ELSE AddMarker(outline, tag.kind, tag.value)
    BY DEF ReadStructure
<1>4. tag.kind \in Boundary \ {"article"} /\ ~IsBlock(tag) /\ tag.kind # "citation" /\ tag.kind \notin TextKinds
    BY <1>1 DEF Boundary, IsBlock, TextKinds
<1>5. Contained(html', Len(html'), mode', Len(articles'))
  <2>1. Contained(html, Len(html), mode, Len(articles)) /\ \A q \in 1..Len(html) : html'[q] = html[q]
      BY <1>2 DEF ParserInv, Grows
  <2> QED BY <1>2, <1>3, <1>4, <2>1, GoesOn
<1>6. ArticlesHold(html', articles') /\ AttachmentsHold(html', attachments') /\ PrefaceHolds(html', outline, preface)
    BY <1>1, <1>3, <1>4, TagLeaves
<1>7. IsOutline(outline) /\ AnchorFor(outline, CitationOwner(outline)) = AnchorIn(html, Len(html) + 1)
    BY DEF ParserInv, OutlineHolds
<1>8. /\ AnchorIn(html', Len(html) + 1) = AnchorIn(html, Len(html) + 1)
      /\ AnchorIn(html', Len(html) + 2) = IF tag.kind \in {"chapter", "section"} THEN tag.value
                                          ELSE AnchorIn(html', Len(html) + 1)
      /\ Len(html') + 1 = Len(html) + 2
  <2>1. (\A q \in 1..Len(html) : html'[q] = html[q]) /\ Len(html) + 1 \in 1..(Len(html) + 1)
      BY <1>2 DEF Grows
  <2>2. AnchorIn(html', Len(html) + 1) = AnchorIn(html, Len(html) + 1)
      BY <1>2, <2>1, StandsAsRead
  <2>3. AnchorIn(html', Len(html) + 2) = IF html'[Len(html) + 1].kind \in {"chapter", "section"}
                                         THEN html'[Len(html) + 1].value ELSE AnchorIn(html', Len(html) + 1)
      BY <1>2, NextStands
  <2> QED BY <1>2, <2>2, <2>3
<1>9. Continues(outline', outline) /\ AnchorFor(outline', CitationOwner(outline')) = AnchorIn(html', Len(html') + 1)
  <2>1. CASE tag.kind = "heading"
    <3>1. Continues(outline', outline) /\ CitationOwner(outline') = CitationOwner(outline)
        BY <1>3, <1>7, <2>1, HeadingAdded
    <3>2. CitationOwner(outline) \in 0..Len(outline.items)
        BY <1>7, OwnerExists
    <3>3. AnchorFor(outline', CitationOwner(outline)) = AnchorFor(outline, CitationOwner(outline))
        BY <3>1, <3>2 DEF Continues
    <3> QED BY <1>7, <1>8, <2>1, <3>1, <3>3
  <2>2. CASE tag.kind \in {"chapter", "section"}
    <3>1. outline' = AddMarker(outline, tag.kind, tag.value)
        BY <1>3, <2>2
    <3>2. Continues(outline', outline) /\ AnchorFor(outline', CitationOwner(outline')) = tag.value
        BY <1>7, <2>2, <3>1, MarkerAdded
    <3> QED BY <1>8, <2>2, <3>2
  <2> QED BY <1>1, <2>1, <2>2
<1>10. OutlineHolds(html', outline')
    BY <1>9 DEF OutlineHolds, Continues
<1>11. PrefaceHolds(html', outline', preface')
  <2>1. CitedIn(html', 0) = CitedIn(html, 0)
    <3>1. Contained(html, Len(html), mode, Len(articles))
        BY DEF ParserInv
    <3> QED BY <1>2, <1>4, <3>1, CitedGrow
  <2>2. PrefaceHolds(html, outline, preface)
      BY DEF ParserInv
  <2> QED BY <1>2, <1>3, <1>7, <1>9, <2>1, <2>2, PrefaceStays
<1> QED BY <1>2, <1>3, <1>5, <1>6, <1>10, <1>11 DEF ParserInv

LEMMA ReadArticleKeepsInv == ASSUME ParserInv, NEW tag, ReadArticle(tag) PROVE ParserInv'
<1>1. Read(tag) /\ tag.kind \in {"article", "unreadable"}
    BY DEF ReadArticle
<1>2. /\ Grows(html, html') /\ html' \in Seq(Tags) /\ html'[Len(html) + 1] = tag
      /\ Len(html) \in Nat /\ alphabet' \in DOMAIN Alphabets /\ verdict = "reading" /\ Len(html') = Len(html) + 1
      /\ Len(articles) \in Nat /\ DOMAIN articles = 1..Len(articles)
    BY <1>1, ReadGrows
<1>3. outline' = outline /\ preface' = preface /\ attachments' = attachments
    BY DEF ReadArticle
<1>4. ~IsBlock(tag) /\ tag.kind \notin {"chapter", "section", "citation", "appendix"} /\ tag.kind \notin TextKinds
    BY <1>1 DEF Boundary, IsBlock, TextKinds
<1>5. /\ OutlineHolds(html', outline) /\ AttachmentsHold(html', attachments)
      /\ ArticlesHold(html', articles) /\ PrefaceHolds(html', outline, preface)
    BY <1>1, <1>4, TagLeaves
<1>6. CASE tag.kind = "unreadable"
  <2>1. verdict' = "failed" /\ articles' = articles /\ mode' = mode
      BY <1>6 DEF ReadArticle
  <2>2. tag.kind \notin Boundary
      BY <1>6 DEF Boundary
  <2>3. Contained(html', Len(html'), mode, Len(articles))
      BY <1>1, <1>4, <2>2, TagLeaves
  <2>4. mode = "appendix" => Len(attachments) > 0
      BY DEF ParserInv
  <2> QED BY <1>2, <1>3, <1>5, <2>1, <2>3, <2>4 DEF ParserInv
<1>7. CASE tag.kind = "article"
  <2>1. PICK art : art = NewArticle(tag.value, outline)
      OBVIOUS
  <2>2. articles' = Append(articles, art) /\ mode' = "article" /\ verdict' = verdict
      BY <1>7, <2>1 DEF ReadArticle
  <2>3. /\ articles' \in Seq(ToSet(articles')) /\ DOMAIN articles' = 1..(Len(articles) + 1)
        /\ Len(articles') = Len(articles) + 1
        /\ \A i \in 1..Len(articles) : articles'[i] = articles[i]
        /\ articles'[Len(articles) + 1] = art
    <3>1. articles \in Seq(ToSet(articles))
        BY DEF ParserInv, ArticlesHold
    <3> QED BY <2>2, <3>1, Appended
  <2>4. Contained(html', Len(html'), "article", Len(articles) + 1)
    <3>1. Contained(html, Len(html), mode, Len(articles)) /\ \A q \in 1..Len(html) : html'[q] = html[q]
        BY <1>2 DEF ParserInv, Grows
    <3> QED BY <1>2, <1>7, <3>1, GoesOn
  <2>5. ArticleHolds(html', art, Len(articles) + 1)
    <3>1. Contained(html, Len(html), mode, Len(articles))
        BY DEF ParserInv
    <3>2. BlocksIn(html, Len(articles) + 1) = {} /\ CitedIn(html, Len(articles) + 1) = {}
        BY <1>2, <3>1, NothingAhead
    <3>3. Len(articles) + 1 \in Nat \ {0}
        BY <1>2
    <3>4. BlocksIn(html', Len(articles) + 1) = {} /\ CitedIn(html', Len(articles) + 1) = {}
        BY <1>2, <1>4, <3>1, <3>2, <3>3, OthersSame
    <3> QED BY <2>1, <3>4, NewHolds
  <2>6. ArticlesHold(html', articles')
    <3>1. \A i \in 1..Len(articles) : ArticleHolds(html', articles[i], i)
        BY <1>2, <1>5 DEF ArticlesHold
    <3>2. \A i \in 1..(Len(articles) + 1) : i = Len(articles) + 1 \/ i \in 1..Len(articles)
        BY <1>2
    <3> QED BY <2>3, <2>5, <3>1, <3>2 DEF ArticlesHold
  <2> QED BY <1>2, <1>3, <1>5, <2>2, <2>3, <2>4, <2>6 DEF ParserInv
<1> QED BY <1>1, <1>6, <1>7

LEMMA ReadOutsideKeepsInv == ASSUME ParserInv, NEW tag, ReadOutside(tag) PROVE ParserInv'
<1>1. Read(tag) /\ mode = "outside" /\ tag.kind \notin Boundary \cup {"unreadable"}
    BY DEF ReadOutside, Boundary
<1>2. /\ Grows(html, html') /\ html' \in Seq(Tags) /\ html'[Len(html) + 1] = tag
      /\ Len(html) \in Nat /\ alphabet' \in DOMAIN Alphabets /\ verdict = "reading" /\ Len(html') = Len(html) + 1
      /\ Len(articles) \in Nat
    BY <1>1, ReadGrows
<1>3. outline' = outline /\ articles' = articles /\ attachments' = attachments /\ mode' = mode /\ verdict' = verdict
    BY DEF ReadOutside
<1>4. /\ Contained(html', Len(html'), mode, Len(articles)) /\ OutlineHolds(html', outline)
      /\ AttachmentsHold(html', attachments) /\ ArticlesHold(html', articles)
      /\ tag.kind # "citation" => PrefaceHolds(html', outline, preface)
  <2>1. tag.kind \notin {"chapter", "section"} /\ mode # "appendix" /\ mode # "article"
      BY <1>1 DEF Boundary
  <2> QED BY <1>1, <2>1, TagLeaves
<1>5. PrefaceHolds(html', outline, preface')
  <2>1. CASE tag.kind # "citation"
    <3>1. preface' = preface
        BY <2>1 DEF ReadOutside
    <3> QED BY <1>4, <2>1, <3>1
  <2>2. CASE tag.kind = "citation"
    <3>1. preface' = WithLinks(preface, LinksOf(tag, Len(html) + 1), CitationOwner(outline))
        BY <2>2 DEF ReadOutside, At, WithLinks
    <3>2. CitedIn(html', 0) = CitedIn(html, 0) \cup LinksOf(tag, Len(html) + 1)
      <4>1. Contained(html, Len(html), mode, Len(articles))
          BY DEF ParserInv
      <4> QED BY <1>1, <1>2, <2>2, <4>1, CitedGrow
    <3>3. OutlineHolds(html, outline) /\ PrefaceHolds(html, outline, preface)
        BY DEF ParserInv
    <3>4. CitedIn(html', 0) = CitedIn(html, 0) \cup LinksOf(html'[Len(html) + 1], Len(html) + 1)
        BY <1>2, <3>2
    <3>5. PrefaceHolds(html', outline,
                       WithLinks(preface, LinksOf(html'[Len(html) + 1], Len(html) + 1), CitationOwner(outline)))
        BY <1>2, <3>3, <3>4, PrefaceGrows
    <3> QED BY <1>2, <3>1, <3>5
  <2> QED BY <2>1, <2>2
<1> QED BY <1>1, <1>2, <1>3, <1>4, <1>5 DEF ParserInv

LEMMA ReadInArticleKeepsInv == ASSUME ParserInv, NEW tag, ReadInArticle(tag) PROVE ParserInv'
<1>1. Read(tag) /\ mode = "article" /\ tag.kind \notin Boundary \cup {"unreadable", "appendix"}
    BY DEF ReadInArticle, Boundary
<1>2. /\ Grows(html, html') /\ html' \in Seq(Tags) /\ html'[Len(html) + 1] = tag
      /\ Len(html) \in Nat /\ alphabet' \in DOMAIN Alphabets /\ verdict = "reading" /\ Len(html') = Len(html) + 1
      /\ Len(articles) \in Nat /\ DOMAIN articles = 1..Len(articles)
    BY <1>1, ReadGrows
<1>3. /\ outline' = outline /\ preface' = preface /\ attachments' = attachments /\ mode' = mode /\ verdict' = verdict
      /\ articles' = [articles EXCEPT ![Len(articles)] = AddToArticle(@, tag, Len(html) + 1)]
    BY DEF ReadInArticle, At
<1>4. /\ Contained(html', Len(html'), mode, Len(articles)) /\ OutlineHolds(html', outline)
      /\ AttachmentsHold(html', attachments) /\ PrefaceHolds(html', outline, preface)
  <2>1. tag.kind \notin {"chapter", "section"} /\ mode # "appendix" /\ mode # "outside" /\ tag.kind # "appendix"
      BY <1>1 DEF Boundary
  <2> QED BY <1>1, <2>1, TagLeaves
<1>5. Contained(html, Len(html), mode, Len(articles)) /\ Len(articles) > 0
    BY <1>1 DEF ParserInv, Contained
<1>6. PICK n, art, new : n = Len(articles) /\ art = articles[n] /\ new = AddToArticle(art, tag, Len(html) + 1)
    OBVIOUS
<1>7. n \in Nat \ {0} /\ n \in DOMAIN articles /\ DOMAIN articles = 1..n
    BY <1>2, <1>5, <1>6
<1>8. /\ BlocksIn(html', n) = IF IsBlock(tag) THEN BlocksIn(html, n) \cup {Len(html) + 1} ELSE BlocksIn(html, n)
      /\ CitedIn(html', n) = IF tag.kind = "citation" THEN CitedIn(html, n) \cup LinksOf(tag, Len(html) + 1)
                             ELSE CitedIn(html, n)
  <2>1. BlocksIn(html', n) = IF IsBlock(tag) THEN BlocksIn(html, n) \cup {Len(html) + 1} ELSE BlocksIn(html, n)
      BY <1>1, <1>2, <1>5, <1>6, <1>7, BlocksGrow
  <2>2. CitedIn(html', n) = IF tag.kind = "citation" THEN CitedIn(html, n) \cup LinksOf(tag, Len(html) + 1)
                            ELSE CitedIn(html, n)
      BY <1>1, <1>2, <1>5, <1>6, <1>7, CitedGrow
  <2> QED BY <2>1, <2>2
<1>9. ArticleHolds(html', new, n)
  <2>1. ArticleHolds(html, art, n)
      BY <1>6, <1>7 DEF ParserInv, ArticlesHold
  <2>2. ArticleHolds(html', AddToArticle(art, html'[Len(html) + 1], Len(html) + 1), n)
      BY <1>1, <1>2, <1>8, <2>1, TagHeld
  <2> QED BY <1>2, <1>6, <2>2
<1>10. /\ DOMAIN articles' = 1..n /\ articles'[n] = new /\ \A i \in 1..n : i # n => articles'[i] = articles[i]
    BY <1>3, <1>6, <1>7
<1>11. articles' \in Seq(ToSet(articles')) /\ Len(articles') = n
  <2>1. articles' = [i \in 1..n |-> articles'[i]]
      BY <1>3, <1>7
  <2> QED BY <1>7, <2>1, IsList
<1>12. ASSUME NEW i \in 1..n, i # n PROVE ArticleHolds(html', articles[i], i)
  <2>1. BlocksIn(html', i) = BlocksIn(html, i) /\ CitedIn(html', i) = CitedIn(html, i)
    <3>1. i \in Nat \ {0} /\ i # Len(articles)
        BY <1>6, <1>12
    <3>3. PICK g, way, count : g = html' /\ way = mode /\ count = Len(articles)
        OBVIOUS
    <3>4. Grows(html, g) /\ count \in Nat /\ Contained(html, Len(html), way, count)
        BY <1>2, <1>5, <3>3
    <3>5. ~(way = "article" /\ i = count)
        BY <3>1, <3>3
    <3>6. BlocksIn(g, i) = BlocksIn(html, i) /\ CitedIn(g, i) = CitedIn(html, i)
        BY <3>1, <3>4, <3>5, OthersSame
    <3> QED BY <3>3, <3>6
  <2>2. ArticleHolds(html, articles[i], i)
      BY <1>7 DEF ParserInv, ArticlesHold
  <2>3. /\ DOMAIN articles[i] = ArticleFields
        /\ BlocksHeld(html', articles[i], i) /\ UnitsHeld(html', articles[i], i) /\ QuotesHeld(html', articles[i])
        /\ articles[i].citations = CitedIn(html, i)
      BY <1>2, <2>1, <2>2, ArticleStays
  <2> QED BY <2>1, <2>3 DEF ArticleHolds
<1>13. ArticlesHold(html', articles')
    BY <1>9, <1>10, <1>11, <1>12 DEF ArticlesHold
<1> QED BY <1>1, <1>2, <1>3, <1>4, <1>6, <1>11, <1>13 DEF ParserInv

LEMMA ReadAppendixKeepsInv == ASSUME ParserInv, NEW tag, ReadAppendix(tag) PROVE ParserInv'
<1>1. Read(tag) /\ mode # "outside" /\ tag.kind = "appendix"
    BY DEF ReadAppendix
<1>2. /\ Grows(html, html') /\ html' \in Seq(Tags) /\ html'[Len(html) + 1] = tag
      /\ Len(html) \in Nat /\ alphabet' \in DOMAIN Alphabets /\ verdict = "reading" /\ Len(html') = Len(html) + 1
    BY <1>1, ReadGrows
<1>3. PICK a : a = NewAttachment(Len(html) + 1)
    OBVIOUS
<1>4. /\ outline' = outline /\ preface' = preface /\ articles' = articles /\ mode' = "appendix" /\ verdict' = verdict
      /\ attachments' = Append(attachments, a)
    BY <1>3 DEF ReadAppendix, At
<1>5. tag.kind \notin Boundary \cup TextKinds \cup {"chapter", "section", "citation"} /\ ~IsBlock(tag)
    BY <1>1 DEF Boundary, TextKinds, IsBlock
<1>6. /\ OutlineHolds(html', outline) /\ ArticlesHold(html', articles) /\ PrefaceHolds(html', outline, preface)
    BY <1>1, <1>5, TagLeaves
<1>7. Contained(html, Len(html), mode, Len(articles)) /\ \A q \in 1..Len(html) : html'[q] = html[q]
    BY <1>2 DEF ParserInv, Grows
<1>8. Contained(html', Len(html'), "appendix", Len(articles))
    BY <1>1, <1>2, <1>7, GoesOn
<1>9. AppendixIn(html', Len(html) + 1)
  <2>1. mode \in {"outside", "article", "appendix"}
      BY <1>7 DEF Contained
  <2> QED BY <1>1, <1>2, <1>7, <2>1, GoesHere
<1>10. AttachmentsHold(html, attachments)
    BY DEF ParserInv
<1>11. /\ DOMAIN a = AttachmentFields /\ a.blocks = <<Len(html) + 1>>
       /\ a.number = 1 + Cardinality({i \in DOMAIN attachments : attachments[i].parent = a.parent})
    BY <1>3 DEF NewAttachment, AttachmentNumber, AttachmentFields
<1>12. AttachmentsHold(html', attachments')
  <2>1. AttachmentsHold(html', Append(attachments, a))
      BY <1>2, <1>9, <1>10, <1>11, AttachmentAdded
  <2> QED BY <1>4, <2>1
<1>13. Len(attachments') > 0
  <2>1. attachments \in Seq(ToSet(attachments))
      BY <1>10 DEF AttachmentsHold
  <2>2. Len(attachments') = Len(attachments) + 1 /\ Len(attachments) \in Nat
      BY <1>4, <2>1, Appended
  <2> QED BY <2>2
<1> QED BY <1>2, <1>4, <1>6, <1>8, <1>12, <1>13 DEF ParserInv

LEMMA ReadInAppendixKeepsInv == ASSUME ParserInv, NEW tag, ReadInAppendix(tag) PROVE ParserInv'
<1>1. Read(tag) /\ mode = "appendix" /\ tag.kind \notin Boundary \cup {"unreadable", "appendix"}
    BY DEF ReadInAppendix, Boundary
<1>2. /\ Grows(html, html') /\ html' \in Seq(Tags) /\ html'[Len(html) + 1] = tag
      /\ Len(html) \in Nat /\ alphabet' \in DOMAIN Alphabets /\ verdict = "reading" /\ Len(html') = Len(html) + 1
    BY <1>1, ReadGrows
<1>3. /\ outline' = outline /\ preface' = preface /\ articles' = articles /\ mode' = mode /\ verdict' = verdict
      /\ attachments' = [attachments EXCEPT ![Len(attachments)] = AddToAttachment(@, tag, Len(html) + 1)]
    BY DEF ReadInAppendix, At
<1>4. tag.kind \notin {"chapter", "section"} /\ mode # "article" /\ mode # "outside" /\ tag.kind # "appendix"
    BY <1>1 DEF Boundary
<1>5. /\ Contained(html', Len(html'), mode, Len(articles)) /\ OutlineHolds(html', outline)
      /\ ArticlesHold(html', articles) /\ PrefaceHolds(html', outline, preface)
    BY <1>1, <1>4, TagLeaves
<1>6. AttachmentsHold(html, attachments) /\ Len(attachments) > 0 /\ Contained(html, Len(html), mode, Len(articles))
    BY <1>1 DEF ParserInv
<1>7. AppendixIn(html', Len(html) + 1)
  <2>1. \A q \in 1..Len(html) : html'[q] = html[q]
      BY <1>2 DEF Grows
  <2> QED BY <1>1, <1>2, <1>6, <2>1, GoesHere
<1>8. AttachmentsHold(html', attachments')
  <2>1. AttachmentsHold(html', [attachments EXCEPT ![Len(attachments)] =
                            AddToAttachment(@, html'[Len(html) + 1], Len(html) + 1)])
      BY <1>2, <1>6, <1>7, AttachmentGrows
  <2> QED BY <1>2, <1>3, <2>1
<1>9. Len(attachments') = Len(attachments)
  <2>1. attachments \in Seq(ToSet(attachments))
      BY <1>6 DEF AttachmentsHold
  <2>2. PICK n : n = Len(attachments)
      OBVIOUS
  <2>3. attachments = [i \in 1..n |-> attachments[i]] /\ n \in Nat
      BY <2>1, <2>2
  <2>4. attachments' = [i \in 1..n |-> attachments'[i]]
      BY <1>3, <2>3
  <2>5. Len(attachments') = n
      BY <2>3, <2>4, IsList
  <2> QED BY <2>2, <2>5
<1> QED BY <1>2, <1>3, <1>5, <1>6, <1>8, <1>9 DEF ParserInv

LEMMA RelateKeepsInv == ASSUME ParserInv, Relate PROVE ParserInv'
<1>1. /\ html' = html /\ articles' = articles /\ attachments' = attachments /\ mode' = mode
      /\ outline' = outline /\ preface' = preface /\ alphabet' = alphabet /\ verdict' = "parsed"
    BY DEF Relate
<1>2. PICK each : each = [i \in DOMAIN articles |-> ArticleRelations(articles[i])]
    OBVIOUS
<1>3. relations' = Append(each, StructureRelations)
    BY <1>2 DEF Relate
<1>4. articles \in Seq(ToSet(articles)) /\ \A i \in DOMAIN articles : articles[i].citations = CitedIn(html, i)
    BY DEF ParserInv, ArticlesHold, ArticleHolds
<1>5. PICK n : n = Len(articles)
    OBVIOUS
<1>6. n \in Nat /\ DOMAIN articles = 1..n
    BY <1>4, <1>5
<1>7. each \in Seq(ToSet(each)) /\ Len(each) = n
  <2>1. each = [i \in 1..n |-> each[i]]
      BY <1>2, <1>6
  <2> QED BY <1>6, <2>1, IsList
<1>8. /\ DOMAIN relations' = 1..(n + 1) /\ \A i \in 1..n : relations'[i] = each[i]
      /\ relations'[n + 1] = StructureRelations
    BY <1>3, <1>7, Appended
<1>9. ASSUME NEW source PROVE Mentions(source) = MentionsOf(html, source)
    BY DEF Mentions, MentionsOf, LinkAt, LinkIn
<1>10. ASSUME NEW i \in DOMAIN articles
       PROVE  relations'[i] = MentionsOf(html, [link \in articles[i].citations |-> articles[i].id])
  <2>1. relations'[i] = ArticleRelations(articles[i])
      BY <1>2, <1>6, <1>8
  <2> QED BY <1>9, <2>1 DEF ArticleRelations
<1>11. relations'[n + 1] = MentionsOf(html, [link \in DOMAIN preface |-> AnchorFor(outline, preface[link])])
    BY <1>8, <1>9 DEF StructureRelations, AnchorOf, AnchorFor
<1>12. PrefaceHolds(html, outline, preface)
    BY DEF ParserInv
<1>13. PICK rels : rels = relations'
    OBVIOUS
<1>14. RelationsHold(html, articles, rels)
  <2>1. DOMAIN rels = 1..(Len(articles) + 1)
      BY <1>5, <1>8, <1>13
  <2>2. \A i \in DOMAIN articles : rels[i] = MentionsOf(html, [link \in articles[i].citations |-> articles[i].id])
      BY <1>10, <1>13
  <2>3. rels[Len(articles) + 1] = MentionsOf(html, [link \in DOMAIN preface |-> AnchorFor(outline, preface[link])])
      BY <1>5, <1>11, <1>13
  <2> QED BY <1>4, <1>12, <2>1, <2>2, <2>3, RelationsCount
<1> QED BY <1>1, <1>13, <1>14 DEF ParserInv

LEMMA ParserInitInv == ParserInit => ParserInv
<1> SUFFICES ASSUME ParserInit PROVE ParserInv
    OBVIOUS
<1>1. PICK none : none = <<>>
    OBVIOUS
<1>2. /\ none \in Seq(Tags) /\ none \in Seq(ToSet(none)) /\ Len(none) = 0 /\ DOMAIN none = {} /\ ToSet(none) = {}
    BY <1>1 DEF ToSet
<1>3. /\ html = none /\ articles = none /\ attachments = none /\ mode = "outside" /\ preface = none
      /\ outline = NoOutline /\ alphabet \in DOMAIN Alphabets /\ verdict = "reading"
    BY <1>1 DEF ParserInit
<1>4. Contained(none, Len(none), "outside", Len(none))
    BY <1>2, GoesFirst
<1>5. ArticlesHold(none, none)
    BY <1>2 DEF ArticlesHold
<1>6. AttachmentsHold(none, none)
  <2>1. \A p \in 1..Len(none) : FALSE
      BY <1>2
  <2>2. IdsOk(AsIds(none))
    <3>1. AsIds(none) = none
        BY <1>1 DEF AsIds
    <3> QED BY <1>2, <3>1 DEF IdsOk
  <2> QED BY <1>2, <2>1, <2>2 DEF AttachmentsHold
<1>7. OutlineHolds(none, NoOutline)
  <2>1. PICK o : o = NoOutline
      OBVIOUS
  <2>2. DOMAIN o = OutlineFields /\ o.items = none /\ o.chapter = 0 /\ o.section = 0
      BY <1>1, <2>1 DEF NoOutline, OutlineFields
  <2>3. IsOutline(o)
      BY <1>2, <2>2 DEF IsOutline
  <2>4. AnchorFor(o, CitationOwner(o)) = Nil
      BY <2>2 DEF AnchorFor, CitationOwner
  <2>5. AnchorIn(none, 0 + 1) = Nil
    <3>1. MarkersIn(none, 0 + 1) = {}
        BY DEF MarkersIn
    <3> QED BY <3>1 DEF AnchorIn
  <2> QED BY <1>2, <2>1, <2>3, <2>4, <2>5 DEF OutlineHolds
<1>8. PrefaceHolds(none, NoOutline, none)
  <2>1. CitationsIn(none) = {}
      BY <1>2 DEF CitationsIn
  <2>2. CitedIn(none, 0) = {}
      BY <2>1 DEF CitedIn, LinksIn
  <2> QED BY <1>2, <2>2 DEF PrefaceHolds
<1> QED BY <1>2, <1>3, <1>4, <1>5, <1>6, <1>7, <1>8 DEF ParserInv

LEMMA ParserNextKeepsInv == ASSUME ParserInv, [ParserNext]_parserVars PROVE ParserInv'
<1>1. ASSUME NEW tag, ReadStructure(tag) \/ ReadArticle(tag) \/ ReadOutside(tag)
                   \/ ReadInArticle(tag) \/ ReadAppendix(tag) \/ ReadInAppendix(tag)
      PROVE  ParserInv'
    BY <1>1, ReadStructureKeepsInv, ReadArticleKeepsInv, ReadOutsideKeepsInv,
       ReadInArticleKeepsInv, ReadAppendixKeepsInv, ReadInAppendixKeepsInv
<1>2. CASE Relate
    BY <1>2, RelateKeepsInv
<1>3. CASE Validate
  <2>1. /\ html' = html /\ articles' = articles /\ attachments' = attachments /\ mode' = mode
        /\ outline' = outline /\ preface' = preface /\ alphabet' = alphabet /\ relations' = relations
        /\ verdict = "parsed"
      BY <1>3 DEF Validate
  <2> QED BY <2>1 DEF ParserInv
<1>4. CASE UNCHANGED parserVars
    BY <1>4 DEF parserVars, ParserInv
<1> QED BY <1>1, <1>2, <1>3, <1>4 DEF ParserNext

LEMMA ParserInvariance == ParserSpec => []ParserInv
<1>1. ParserInit => ParserInv
    BY ParserInitInv
<1>2. ParserInv /\ [ParserNext]_parserVars => ParserInv'
    BY ParserNextKeepsInv
<1> QED BY <1>1, <1>2, PTL DEF ParserSpec

-----------------------------------------------------------------------------
(* What the invariant says of the document                                   *)

LEMMA StandsIn ==
    ASSUME NEW p
    PROVE  /\ Home(p) = HomeIn(html, p) /\ (InAppendix(p) <=> AppendixIn(html, p))
           /\ ArticleOf(p) = ArticleIn(html, p) /\ AnchorAt(p) = AnchorIn(html, p)
<1>1. Home(p) = HomeIn(html, p)
    BY DEF Home, HomeIn, BoundariesIn, Boundary
<1> QED BY <1>1 DEF InAppendix, AppendixIn, ArticleOf, ArticleIn, ArticlesTo, AnchorAt, AnchorIn, MarkersIn

LEMMA TextIsThere == ParserInv => TextInItsPlace
<1> SUFFICES ASSUME ParserInv PROVE TextInItsPlace
    OBVIOUS
<1>1. /\ Contained(html, Len(html), mode, Len(articles)) /\ ArticlesHold(html, articles)
      /\ AttachmentsHold(html, attachments) /\ Len(html) \in Nat /\ DOMAIN html = 1..Len(html)
    BY DEF ParserInv
<1>2. articles \in Seq(ToSet(articles)) /\ DOMAIN articles = 1..Len(articles) /\ Len(articles) \in Nat
    BY <1>1 DEF ArticlesHold
<1>3. ASSUME NEW i \in DOMAIN articles
      PROVE  Range(articles[i].blocks) = BlocksIn(html, i) /\ IsInjective(articles[i].blocks)
    BY <1>1, <1>3 DEF ArticlesHold, ArticleHolds, BlocksHeld, Range, ToSet
<1>4. ASSUME NEW p \in DOMAIN html, html[p].kind \in TextKinds
      PROVE  /\ {i \in DOMAIN articles : p \in Range(articles[i].blocks)} =
                  IF Home(p) = 0 \/ InAppendix(p) THEN {} ELSE {ArticleOf(p)}
             /\ Cardinality({i \in DOMAIN attachments : p \in Range(attachments[i].blocks)}) =
                  IF InAppendix(p) THEN 1 ELSE 0
  <2>1. IsBlock(html[p])
      BY <1>4 DEF TextKinds, IsBlock, Boundary
  <2>2. ArticleIn(html, p) = 0 <=> HomeIn(html, p) = 0
      BY <1>1, NoArticleOutside
  <2>3. ArticleIn(html, p) <= Len(articles) /\ ArticleIn(html, p) \in Nat
    <3>1. p \in 1..(Len(html) + 1) /\ Len(articles) = Cardinality(ArticlesTo(html, Len(html)))
        BY <1>1 DEF Contained
    <3> QED BY <1>1, <3>1, ArticlesSoFar
  <2>4. \A i \in DOMAIN articles :
            p \in Range(articles[i].blocks) <=> ~AppendixIn(html, p) /\ ArticleIn(html, p) = i
      BY <1>1, <1>3, <2>1 DEF BlocksIn
  <2>5. {i \in DOMAIN articles : p \in Range(articles[i].blocks)} =
            IF HomeIn(html, p) = 0 \/ AppendixIn(html, p) THEN {} ELSE {ArticleIn(html, p)}
    <3>1. HomeIn(html, p) # 0 => ArticleIn(html, p) \in DOMAIN articles
        BY <1>2, <2>2, <2>3
    <3>2. \A i \in DOMAIN articles : i # 0
        BY <1>2
    <3> QED BY <2>2, <2>4, <3>1, <3>2
  <2>6. PICK S : S = {i \in DOMAIN attachments : p \in Range(attachments[i].blocks)}
      OBVIOUS
  <2>7. \A i : i \in S <=> i \in DOMAIN attachments /\ p \in ToSet(attachments[i].blocks)
      BY <2>6 DEF Range, ToSet
  <2>8. CASE AppendixIn(html, p)
    <3>1. PICK k \in DOMAIN attachments : p \in ToSet(attachments[k].blocks)
        BY <1>1, <1>4, <2>8 DEF AttachmentsHold
    <3>2. \A l \in S : l = k
        BY <1>1, <2>7, <3>1 DEF AttachmentsHold
    <3>3. S = {k}
        BY <2>7, <3>1, <3>2
    <3>4. Cardinality(S) = 1
        BY <3>3, FS_Singleton
    <3> QED BY <2>5, <2>6, <2>8, <3>4, StandsIn
  <2>9. CASE ~AppendixIn(html, p)
    <3>1. S = {}
        BY <1>1, <2>7, <2>9 DEF AttachmentsHold, AttachmentHolds
    <3>2. Cardinality(S) = 0
        BY <3>1, FS_EmptySet
    <3> QED BY <2>5, <2>6, <2>9, <3>2, StandsIn
  <2> QED BY <2>8, <2>9
<1>5. \A i \in DOMAIN attachments : IsInjective(attachments[i].blocks)
    BY <1>1 DEF AttachmentsHold, AttachmentHolds
<1> QED BY <1>3, <1>4, <1>5 DEF TextInItsPlace, TextKinds

LEMMA UnitsAreThere == ParserInv => TextIsUnits
<1> SUFFICES ASSUME ParserInv, NEW i \in DOMAIN articles
             PROVE  /\ {articles[i].units[j].at : j \in DOMAIN articles[i].units} =
                         {p \in Range(articles[i].blocks) : html[p].kind \notin {"file", "marker"}}
                    /\ IsInjective([j \in DOMAIN articles[i].units |-> articles[i].units[j].at])
                    /\ IsInjective([j \in DOMAIN articles[i].units |-> UnitId(articles[i], articles[i].units[j])])
    BY DEF TextIsUnits
<1>1. PICK art, us : art = articles[i] /\ us = art.units
    OBVIOUS
<1>2. BlocksHeld(html, art, i) /\ UnitsHeld(html, art, i)
    BY <1>1 DEF ParserInv, ArticlesHold, ArticleHolds
<1>3. Range(art.blocks) = BlocksIn(html, i)
    BY <1>2 DEF BlocksHeld, Range, ToSet
<1>4. {us[j].at : j \in DOMAIN us} = {p \in Range(art.blocks) : html[p].kind \notin {"file", "marker"}}
    BY <1>1, <1>2, <1>3 DEF UnitsHeld, UnitPlacesIn
<1>5. IsInjective([j \in DOMAIN us |-> us[j].at])
    BY <1>1, <1>2 DEF UnitsHeld, IsInjective
<1>6. IsInjective([j \in DOMAIN us |-> UnitId(art, us[j])])
  <2>1. \A j, k \in DOMAIN us : us[j].base = us[k].base /\ us[j].occurrence = us[k].occurrence => j = k
      BY <1>1, <1>2 DEF UnitsHeld, IdsOk
  <2>2. \A j, k \in DOMAIN us : UnitId(art, us[j]) = UnitId(art, us[k]) =>
            us[j].base = us[k].base /\ us[j].occurrence = us[k].occurrence
      BY DEF UnitId
  <2> QED BY <2>1, <2>2 DEF IsInjective
<1> QED BY <1>1, <1>4, <1>5, <1>6

LEMMA LinksAreThere == ParserInv => LinksAreMentioned
<1> SUFFICES ASSUME ParserInv, verdict \in {"parsed", "valid", "invalid"}
             PROVE  LinksAreMentioned
    BY DEF LinksAreMentioned
<1>1. RelationsHold(html, articles, relations) /\ Len(html) \in Nat /\ DOMAIN html = 1..Len(html)
    BY DEF ParserInv
<1>2. LinkPlaces = LinksIn(html)
  <2>1. {q \in DOMAIN html : html[q].kind = "citation" /\ ~InAppendix(q)} = CitationsIn(html)
      BY <1>1, StandsIn DEF CitationsIn
  <2> QED BY <2>1 DEF LinkPlaces, LinksIn
<1>3. \A link : LinkAt(link) = LinkIn(html, link)
    BY DEF LinkAt, LinkIn
<1>4. ASSUME NEW i \in DOMAIN articles, NEW link \in LinkPlaces
      PROVE  MentionsIn(relations[i], <<articles[i].id, LinkAt(link)>>) =
                Cardinality({other \in LinkPlaces : ArticleOf(other[1]) = i /\ LinkAt(other) = LinkAt(link)})
  <2>1. {other \in LinkPlaces : ArticleOf(other[1]) = i /\ LinkAt(other) = LinkAt(link)} = SameIn(html, i, link)
      BY <1>2, <1>3, StandsIn DEF SameIn
  <2>2. MentionsIn(relations[i], <<articles[i].id, LinkIn(html, link)>>) = Cardinality(SameIn(html, i, link))
      BY <1>1, <1>2 DEF RelationsHold
  <2> QED BY <1>3, <2>1, <2>2
<1>5. ASSUME NEW p \in DOMAIN html, NEW link \in LinkPlaces
      PROVE  MentionsIn(relations[Len(articles) + 1], <<AnchorAt(p), LinkAt(link)>>) =
                Cardinality({other \in LinkPlaces : /\ Home(other[1]) = 0 /\ AnchorAt(other[1]) = AnchorAt(p)
                                                    /\ LinkAt(other) = LinkAt(link)})
  <2>1. ASSUME NEW other \in LinksIn(html) PROVE ArticleIn(html, other[1]) = 0 <=> HomeIn(html, other[1]) = 0
    <3>1. other[1] \in 1..Len(html)
        BY LinkIsPlace
    <3> QED BY <1>1, <3>1, NoArticleOutside
  <2>2. {other \in LinkPlaces : /\ Home(other[1]) = 0 /\ AnchorAt(other[1]) = AnchorAt(p)
                                /\ LinkAt(other) = LinkAt(link)} = SameUnder(html, p, link)
      BY <1>2, <1>3, <2>1, StandsIn DEF SameUnder
  <2>3. MentionsIn(relations[Len(articles) + 1], <<AnchorIn(html, p), LinkIn(html, link)>>)
            = Cardinality(SameUnder(html, p, link))
      BY <1>1, <1>2 DEF RelationsHold
  <2> QED BY <1>3, <2>2, <2>3, StandsIn
<1>6. DOMAIN relations = 1..(Len(articles) + 1)
    BY <1>1 DEF RelationsHold
<1> QED BY <1>4, <1>5, <1>6 DEF LinksAreMentioned

\* NothingLost: every piece of text, every table and every link that the parser
\* reads is kept once, in its place, under an id of its own.
THEOREM NothingIsLost == ParserSpec => []NothingLost
<1>1. ParserInv => NothingLost
  <2> SUFFICES ASSUME ParserInv PROVE NothingLost
      OBVIOUS
  <2>1. IsInjective([i \in DOMAIN attachments |-> <<attachments[i].parent, attachments[i].number>>])
    <3>1. PICK ids : ids = AsIds(attachments)
        OBVIOUS
    <3>2. /\ DOMAIN ids = DOMAIN attachments
          /\ \A i \in DOMAIN attachments : ids[i].base = attachments[i].parent /\ ids[i].occurrence = attachments[i].number
        BY <3>1 DEF AsIds
    <3>3. \A j, k \in DOMAIN ids : ids[j].base = ids[k].base /\ ids[j].occurrence = ids[k].occurrence => j = k
        BY <3>1 DEF ParserInv, AttachmentsHold, IdsOk
    <3> QED BY <3>2, <3>3 DEF IsInjective
  <2> QED BY <2>1, TextIsThere, UnitsAreThere, LinksAreThere DEF NothingLost
<1> QED BY <1>1, ParserInvariance, PTL

\* QuotesRestored: an amending article may quote other articles, to any depth;
\* what follows them belongs to the clause that the quotations interrupted.
THEOREM QuotesAreRestored == ParserSpec => []QuotesRestored
<1>1. ParserInv => QuotesRestored
  <2> SUFFICES ASSUME ParserInv, NEW i \in DOMAIN articles, NEW n \in {n \in DOMAIN articles[i].units :
                                                                          Depth(articles[i])[n - 1] = 0}
               PROVE  articles[i].units[n].clause =
                        IF {m \in {m \in DOMAIN articles[i].units : Depth(articles[i])[m - 1] = 0} :
                               m <= n /\ articles[i].units[m].type = "clause"} = {} THEN Nil
                        ELSE html[articles[i].units[LastOf({m \in {m \in DOMAIN articles[i].units :
                                                                        Depth(articles[i])[m - 1] = 0} :
                               m <= n /\ articles[i].units[m].type = "clause"})].at].value
      BY DEF QuotesRestored
  <2>1. Depth(articles[i]) = DepthIn(html, articles[i].units)
      BY DEF Depth, DepthIn, OpenAfter, OpenIn
  <2>2. Restored(html, articles[i].units)
      BY DEF ParserInv, ArticlesHold, ArticleHolds, QuotesHeld
  <2>3. {m \in DOMAIN articles[i].units : Depth(articles[i])[m - 1] = 0} = Outer(html, articles[i].units)
      BY <2>1 DEF Outer
  <2> QED BY <2>2, <2>3 DEF Restored, ClauseAt, OuterClauses
<1> QED BY <1>1, ParserInvariance, PTL
==============================================================================
