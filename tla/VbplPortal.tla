------------------------------ MODULE VbplPortal ------------------------------
(* Collection of official documents from the national legal portal            *)
(* (scripts/vbpl_portal.py): several batch processes take the documents of    *)
(* their registry one after the other, hold a lock directory while they       *)
(* fetch a document, and publish it as an immutable snapshot: a directory     *)
(* filled under a temporary name, gated, verified and renamed.  A process may *)
(* be interrupted or killed between any two steps, and judges a lock by its   *)
(* age.                                                                       *)
(*                                                                            *)
(* A text is a number, equal texts have equal hashes; a contract is the       *)
(* record the code hashes.  An answer of the portal is what one request of a  *)
(* document may bring: the records found in the gateway's payload and in the  *)
(* browser's captures, and what each attachment address serves.               *)
EXTENDS Integers, Sequences, FiniteSets, SequencesExt

CONSTANTS
    Process,      \* the batch processes
    Plans,        \* the registries and options the processes may be started with
    Answers,      \* document number -> the answers the portal may give
    Retries,      \* attempts of one HTTP request
    StaleAfter,   \* the age at which a lock counts as abandoned
    MaxTime,      \* bound: the clock
    MaxCrashes,   \* bound: processes that die
    Absent

\* The documents of a registry are documents of the portal.
ASSUME PlansAssumption ==
    \A chosen \in Plans : \A p \in Process :
        /\ chosen[p].items \in Seq(ToSet(chosen[p].items))
        /\ \A i \in 1..Len(chosen[p].items) : chosen[p].items[i].document \in DOMAIN Answers

VARIABLES
    plan,         \* the chosen plan: per process [items, resume, force, keepGoing]
    clock,        \* the wall clock
    lock,         \* document -> its lock directory, [owner, at], or Absent
    published,    \* document -> the snapshots under their final names
    temp,         \* process -> the snapshot it fills under a temporary name, or Absent
    work,         \* process -> [step, document, inventory, served]
    report,       \* process -> its run report, [status, results]
    crashes

portalVars == <<plan, clock, lock, published, temp, work, report, crashes>>

Idle == [step |-> "next", document |-> Absent, inventory |-> {}, served |-> <<>>]

-----------------------------------------------------------------------------
(* One request, and what is made of the answer                               *)

\* A request is answered by its first attempt that succeeds, as long as every
\* attempt before it failed in a way that is worth another one.
Fetched(attempts) ==
    \E n \in 1..Retries :
        attempts[n] = "ok" /\ \A m \in 1..(n - 1) : attempts[m] = "transient"

Outcomes == {Fetched(attempts) : attempts \in [1..Retries -> {"ok", "transient", "fatal"}]}

\* What validate_attachment_signature makes of the bytes saved under a name
Signature(extension, bytes) ==
    CASE bytes \in {"empty", "html"} -> "invalid"
      [] extension \in {"pdf", "zip"} -> IF bytes = "genuine" THEN "valid" ELSE "invalid"
      [] OTHER -> IF bytes = "genuine" THEN "valid" ELSE "not_checked"

\* The rank of a record: an exact number counts most, articles in its body next
Score(record, number) ==
    (IF record.number = number THEN 10000 ELSE 0)
        + (IF record.body # Absent /\ record.body.articles # <<>> THEN record.body.size ELSE 0) + 20

\* The record extract_document_from_payloads takes for a document: the best one,
\* the first of equals, with its own body or the largest of the whole answer.
\* Absent when the best record is of another document or no record has a body.
Extracted(records, number) ==
    LET best == CHOOSE i \in DOMAIN records :
                    \A j \in DOMAIN records :
                        \/ Score(records[i], number) > Score(records[j], number)
                        \/ Score(records[i], number) = Score(records[j], number) /\ i <= j
        bodies == {records[i].body : i \in DOMAIN records} \ {Absent}
        largest == CHOOSE b \in bodies : \A c \in bodies : b.size >= c.size
    IN  IF records = <<>> \/ bodies = {} THEN Absent
        ELSE IF records[best].number # number THEN Absent
        ELSE [records[best] EXCEPT !.body = IF @ = Absent THEN largest ELSE @]

\* The first occurrences of the article numbers are 1..N, in that order
ArticlesInOrder(articles, expected) ==
    LET firsts == SelectSeq([i \in DOMAIN articles |-> <<i, articles[i]>>],
                     LAMBDA e : \A j \in 1..(e[1] - 1) : articles[j] # e[2])
        last == IF expected # 0 THEN expected
                ELSE CHOOSE n \in ToSet(articles) \cup {0} : \A m \in ToSet(articles) : n >= m
    IN  firsts # <<>> /\ [i \in DOMAIN firsts |-> firsts[i][2]] = [i \in 1..last |-> i]

\* Attachments are kept by address, and by name when they have none
KeyOf(attachment) == IF attachment.url # Absent THEN attachment.url ELSE attachment.name

\* The attachments a record lists, the last of those with the same key
Listed(record) ==
    {record.listed[i] : i \in {i \in DOMAIN record.listed :
        \A j \in (i + 1)..Len(record.listed) : KeyOf(record.listed[j]) # KeyOf(record.listed[i])}}

\* Configured official sources replace every hint that is only a file name, and
\* the listed rows of the same address.
Merged(inventory, configured) ==
    IF configured = {} THEN inventory
    ELSE {a \in inventory : a.url # Absent /\ \A c \in configured : c.url # a.url} \cup configured

\* The identity of an ingestion: what a snapshot must have been taken for
Contract(item) ==
    [document |-> item.document, item |-> item.item, articles |-> item.articles,
     policy |-> item.policy, configured |-> item.configured]

\* The portal's own number of the document, where the address names one
ItemAgrees(item, document) ==
    \/ item.item = Absent
    \/ document.item \in {item.item, Absent}

PolicySatisfied(policy, inventory, saved) ==
    \/ policy \in {"ignore", "best_effort"}
    \/ /\ policy = "required" => inventory # {}
       /\ \A a \in inventory :
             a.url # Absent /\ a.url \in DOMAIN saved /\ Signature(a.extension, saved[a.url]) # "invalid"

-----------------------------------------------------------------------------
(* Snapshots                                                                 *)

Required == {"manifest", "sums", "text", "responses"}

\* The fail-closed gates of write_snapshot
Gates(item, document, inventory, served) ==
    /\ document.number = item.document
    /\ ItemAgrees(item, document)
    /\ document.item # Absent
    /\ document.body.size >= 1
    /\ ArticlesInOrder(document.body.articles, item.articles)
    /\ document.effect
    /\ PolicySatisfied(item.policy, inventory, served)

\* As if a snapshot with a failed gate were refused by whoever reads it later
VerifiedByFiles(s) == Required \subseteq s.files /\ s.sums = s.files \ {"sums"}

\* verify_snapshot: every required file is there, no gate failed, and the
\* checksums were taken of these files
Verified(s) == Required \subseteq s.files /\ s.gates /\ s.sums = s.files \ {"sums"}

Newer(s, t) == s.name[1] > t.name[1] \/ (s.name[1] = t.name[1] /\ s.name[2] >= t.name[2])

Newest(snapshots) == {s \in snapshots : \A t \in snapshots : Newer(s, t)}

\* As if any valid snapshot of the document would do
LatestOfAny(document, contract) == Newest({s \in published[document] : Verified(s)})

\* The newest snapshot that verifies and was taken for this contract, if any
LatestValid(document, contract) ==
    Newest({s \in published[document] : Verified(s) /\ s.contract = contract})

-----------------------------------------------------------------------------
(* Batches                                                                   *)

Target(p) == plan[p].items[Len(report[p].results) + 1]
Doc(p) == Target(p).document
Running(p) == report[p].status = "running"
Doing(p, step) == Running(p) /\ work[p].step = step

\* The entry of the document in the run report; a failure ends the batch unless
\* it was told to go on, and so does the last document.
Failures(results) == \E i \in DOMAIN results : results[i].status = "failed"

Reported(p, status, named) ==
    LET results == Append(report[p].results,
                       [document |-> Doc(p), contract |-> Contract(Target(p)), status |-> status, named |-> named])
        over == Len(results) = Len(plan[p].items) \/ (status = "failed" /\ ~plan[p].keepGoing)
    IN  /\ report' = [report EXCEPT ![p] =
             [status |-> IF ~over THEN "running" ELSE IF Failures(results) THEN "failed" ELSE "completed",
              results |-> results]]
        /\ work' = [work EXCEPT ![p] = Idle]

\* Leaving the lock removes the directory, whoever made it
Unlocked(p) == lock' = [lock EXCEPT ![Doc(p)] = Absent]

Went(p, step) == work' = [work EXCEPT ![p].step = step]

PortalInit ==
    /\ plan \in Plans
    /\ clock = 0
    /\ lock = [d \in DOMAIN Answers |-> Absent]
    /\ published = [d \in DOMAIN Answers |-> {}]
    /\ temp = [p \in Process |-> Absent]
    /\ work = [p \in Process |-> Idle]
    /\ report = [p \in Process |-> [status |-> IF plan[p].items = <<>> THEN "completed" ELSE "running", results |-> <<>>]]
    /\ crashes = 0

\* A resumed batch passes over a document whose snapshot is valid, without the lock
Skip(p) ==
    /\ Doing(p, "next")
    /\ plan[p].resume /\ ~plan[p].force
    /\ \E latest \in LatestValid(Doc(p), Contract(Target(p))) :
          Reported(p, "skipped_valid", latest.name)
    /\ UNCHANGED <<plan, clock, lock, published, temp, crashes>>

\* The lock is looked at; one that is too old is to be removed
InspectLock(p) ==
    /\ Doing(p, "next")
    /\ ~(plan[p].resume /\ ~plan[p].force /\ LatestValid(Doc(p), Contract(Target(p))) # {})
    /\ IF lock[Doc(p)] = Absent THEN Went(p, "lock") /\ UNCHANGED report
       ELSE IF clock - lock[Doc(p)].at > StaleAfter THEN Went(p, "break") /\ UNCHANGED report
       ELSE Reported(p, "failed", Absent)
    /\ UNCHANGED <<plan, clock, lock, published, temp, crashes>>

\* The removal takes the path: a lock made since it was judged goes with it
BreakLock(p) ==
    /\ Doing(p, "break")
    /\ Unlocked(p) /\ Went(p, "lock")
    /\ UNCHANGED <<plan, clock, published, temp, report, crashes>>

TakeLock(p) ==
    /\ Doing(p, "lock")
    /\ IF lock[Doc(p)] = Absent
       THEN /\ lock' = [lock EXCEPT ![Doc(p)] = [owner |-> p, at |-> clock]]
            /\ Went(p, "fetch") /\ UNCHANGED report
       ELSE Reported(p, "failed", Absent) /\ UNCHANGED lock
    /\ UNCHANGED <<plan, clock, published, temp, crashes>>

\* The document is fetched from the gateway, or by the browser when the gateway
\* fails and again for the attachments of a strict policy; the attachments are
\* downloaded by address.  A strict policy stops at the first that fails, and
\* its gate fails then whatever came before.
Downloads(inventory, answer, policy) ==
    {u \in {a.url : a \in inventory} \ {Absent} : policy # "ignore" /\ answer.files[u] # "unavailable"}

Fetch(p) ==
    /\ Doing(p, "fetch")
    /\ \E answer \in Answers[Doc(p)], direct, rendered \in Outcomes :
        LET item == Target(p)
            first == IF direct THEN answer.gateway ELSE answer.browser
            found == IF direct \/ rendered THEN Extracted(first, item.document) ELSE Absent
            again == direct /\ item.policy \in {"required", "required_if_listed"} /\ found # Absent /\ Listed(found) # {}
            document == IF ~again THEN found
                        ELSE IF rendered THEN Extracted(first \o answer.browser, item.document)
                        ELSE Absent
        IN  IF document = Absent \/ (found # Absent /\ ~ItemAgrees(item, found))
            THEN /\ Reported(p, "failed", Absent)
                 /\ Unlocked(p)
            ELSE LET inventory == Merged(Listed(document), item.configured)
                 IN  /\ work' = [work EXCEPT ![p] =
                            [step |-> "compare", document |-> document, inventory |-> inventory,
                             served |-> [u \in Downloads(inventory, answer, item.policy) |-> answer.files[u]]]]
                     /\ UNCHANGED <<report, lock>>
    /\ UNCHANGED <<plan, clock, published, temp, crashes>>

\* A text that the latest snapshot of this contract already has is not written
\* again; otherwise the final name, second and hash, must be free.
Compare(p) ==
    /\ Doing(p, "compare")
    /\ LET text == work[p].document.body.text
           same == {s \in LatestValid(Doc(p), Contract(Target(p))) : ~plan[p].force /\ s.name[2] = text}
           name == <<clock, text>>
       IN  IF same # {}
           THEN (\E s \in same : Reported(p, "unchanged", s.name)) /\ Unlocked(p) /\ UNCHANGED temp
           ELSE IF \E s \in published[Doc(p)] : s.name = name
           THEN Reported(p, "failed", Absent) /\ Unlocked(p) /\ UNCHANGED temp
           ELSE /\ temp' = [temp EXCEPT ![p] =
                     [name |-> name, files |-> {}, sums |-> {}, gates |-> FALSE,
                      contract |-> Absent, saved |-> <<>>]]
                /\ Went(p, "files") /\ UNCHANGED <<report, lock>>
    /\ UNCHANGED <<plan, clock, published, crashes>>

\* Responses, text and attachments are written into the temporary directory
WriteFiles(p) ==
    /\ Doing(p, "files")
    /\ temp' = [temp EXCEPT ![p].files = {"text", "responses"}, ![p].saved = work[p].served]
    /\ Went(p, "manifest")
    /\ UNCHANGED <<plan, clock, lock, published, report, crashes>>

\* The manifest records the contract and the gates, whatever they say, and the
\* checksums are taken of what is there.
WriteManifest(p) ==
    /\ Doing(p, "manifest")
    /\ temp' = [temp EXCEPT
          ![p].files = temp[p].files \cup {"manifest", "sums"},
          ![p].sums = temp[p].files \cup {"manifest"},
          ![p].contract = Contract(Target(p)),
          ![p].gates = Gates(Target(p), work[p].document, work[p].inventory, work[p].served)]
    /\ Went(p, "publish")
    /\ UNCHANGED <<plan, clock, lock, published, report, crashes>>

\* A snapshot that passes its gates and verifies takes its final name, unless a
\* directory has it; any other one is removed.
Publish(p) ==
    /\ Doing(p, "publish")
    /\ LET s == temp[p]
       IN  IF Verified(s) /\ \A t \in published[Doc(p)] : t.name # s.name
           THEN /\ published' = [published EXCEPT ![Doc(p)] = @ \cup {s}]
                /\ Reported(p, "created", s.name)
           ELSE Reported(p, "failed", Absent) /\ UNCHANGED published
    /\ temp' = [temp EXCEPT ![p] = Absent]
    /\ Unlocked(p)
    /\ UNCHANGED <<plan, clock, crashes>>

\* An interrupted process gives back its lock and closes its report, its temporary
\* directory stays; one that is killed leaves everything where it is.
Interrupt(p) ==
    /\ Running(p) /\ crashes < MaxCrashes
    /\ crashes' = crashes + 1
    /\ report' = [report EXCEPT ![p].status = IF Failures(report[p].results) THEN "failed" ELSE "completed"]
    /\ IF work[p].step \in {"fetch", "compare", "files", "manifest", "publish"} THEN Unlocked(p) ELSE UNCHANGED lock
    /\ UNCHANGED <<plan, clock, published, temp, work>>

Kill(p) ==
    /\ Running(p) /\ crashes < MaxCrashes
    /\ crashes' = crashes + 1
    /\ report' = [report EXCEPT ![p].status = "killed"]
    /\ UNCHANGED <<plan, clock, lock, published, temp, work>>

Tick ==
    /\ clock < MaxTime /\ \E p \in Process : Running(p)
    /\ clock' = clock + 1
    /\ UNCHANGED <<plan, lock, published, temp, work, report, crashes>>

PortalNext ==
    \/ \E p \in Process :
          \/ Skip(p) \/ InspectLock(p) \/ BreakLock(p) \/ TakeLock(p) \/ Fetch(p) \/ Compare(p)
          \/ WriteFiles(p) \/ WriteManifest(p) \/ Publish(p) \/ Interrupt(p) \/ Kill(p)
    \/ Tick

PortalSpec == PortalInit /\ [][PortalNext]_portalVars

-----------------------------------------------------------------------------

\* Whatever two processes do to each other's locks and wherever one of them
\* dies, a directory under a final name is a whole snapshot: its files and its
\* checksums are complete, and its attachments are the ones the policy of its
\* contract asks for (write_snapshot fills a temporary directory, verifies it and
\* renames it; the lock alone would not give this, see BreakLock).
PublishedIsWhole ==
    \A d \in DOMAIN published : \A s \in published[d] :
        /\ Required \subseteq s.files /\ s.sums = s.files \ {"sums"}
        /\ s.contract.document = d
        /\ s.contract.policy \in {"required", "required_if_listed"} =>
              \A c \in s.contract.configured :
                  c.url \in DOMAIN s.saved /\ s.saved[c.url] \notin {"empty", "html"}
        /\ \A t \in published[d] : t.name = s.name => t = s

\* What a run report calls created, unchanged or skipped is on disk, and was
\* taken for the very contract the run had: a policy or a list of attachments
\* that changed since makes an older snapshot unusable (fetch_one,
\* latest_valid_snapshot).
ReportNamesItsSnapshot ==
    \A p \in Process : \A i \in DOMAIN report[p].results :
        LET r == report[p].results[i]
        IN  r.status # "failed" =>
                \E s \in published[r.document] : s.name = r.named /\ s.contract = r.contract
=============================================================================
