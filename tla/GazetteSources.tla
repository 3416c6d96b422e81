---------------------------- MODULE GazetteSources ----------------------------
(* Canonical sources from the official gazette (scripts/congbao_docx.py) with *)
(* the portal as the fallback (scripts/canonical_source_policy.py).  A run of *)
(* the policy takes the registry's documents in order.  For each it locks the *)
(* document, reads the gazette's page, downloads every Word part, and either  *)
(* finds the snapshot it has or stages a new one; then it puts the parts, one *)
(* file after the other, into the source directory the release is built from, *)
(* and only then gives a new snapshot its final name.  A process may be       *)
(* killed between any two steps, and later runs meet what it left.            *)
(*                                                                            *)
(* The bytes of a part are a number; what LibreOffice makes of a legacy file  *)
(* is external.  The race for a stale lock is in VbplPortal; here a lock is   *)
(* taken over only from a process that is gone (LockFree), that is, a run     *)
(* takes less than the six hours after which a lock is stale.                 *)
EXTENDS Integers, Sequences, FiniteSets, SequencesExt

CONSTANTS
    Runner,        \* the processes that run the policy
    Registry,      \* the documents: [number, found, fallback]
    Pages,         \* document number -> what its gazette page may answer
    FallbackOn,    \* the reasons for which the registry allows the portal
    Readable,      \* the bytes that are a Word document naming its number
    Converted,     \* legacy bytes -> what LibreOffice may make of them
    Options,       \* the options a run may be started with, [replace, force]
    MaxRuns,       \* bound: runs of the policy
    Missing

\* A configuration without documents is refused when it is loaded.
ASSUME RegistryAssumption == Registry \in Seq(ToSet(Registry)) /\ Registry # <<>>
ASSUME PagesAssumption ==
    \A i \in DOMAIN Registry : \A page \in Pages[Registry[i].number] : IsFiniteSet(DOMAIN page.links)
ASSUME MissingAssumption == Missing \notin Runner

VARIABLES
    held,          \* document -> the runner whose lock directory is there, or Missing
    gazette,       \* document -> the snapshots under their final names
    sources,       \* document -> the source files, path -> bytes
    ledger,        \* runner -> the run: [status, replace, force, results, failures]
    job,           \* runner -> the ingestion it is in
    runs

gazetteVars == <<held, gazette, sources, ledger, job, runs>>

Numbers == {Registry[i].number : i \in DOMAIN Registry}
NoJob == [step |-> "next", kinds |-> <<>>, original |-> <<>>, parts |-> <<>>, placed |-> 0, known |-> FALSE]
Off == [status |-> "off", replace |-> FALSE, force |-> FALSE, results |-> <<>>, failures |-> <<>>]

-----------------------------------------------------------------------------
(* Parts                                                                     *)

\* The links at these positions, in page order
LinksAt(links, chosen) ==
    [n \in 1..Cardinality(chosen) |->
        links[CHOOSE i \in chosen : Cardinality({j \in chosen : j <= i}) = n]]

\* The Word parts of a page: the ones named after the document, in page order,
\* or the only Word link there is; modern files before legacy ones.
SelectedParts(links) ==
    LET word == {i \in DOMAIN links : links[i].kind \in {"docx", "doc"}}
        exact == {i \in word : links[i].exact}
        candidates == IF exact # {} THEN exact ELSE IF Cardinality(word) = 1 THEN word ELSE {}
        modern == {i \in candidates : links[i].kind = "docx"}
    IN  LinksAt(links, IF modern # {} THEN modern ELSE candidates)

\* What may become of the selected parts: every part a readable document
Prepared(selected) ==
    {parts \in [DOMAIN selected -> Readable] :
        \A i \in DOMAIN selected :
            IF selected[i].kind = "docx" THEN parts[i] = selected[i].bytes
            ELSE selected[i].bytes \in DOMAIN Converted /\ parts[i] \in Converted[selected[i].bytes]}

\* Address, kind and both forms of every part: what makes two downloads the same
Fingerprint(j) == <<j.kinds, j.original, j.parts>>

\* A single part has the registry's file name, several a directory of the document
Targets(parts) ==
    IF Len(parts) = 1 THEN <<<<"file", 1>>>> ELSE [i \in DOMAIN parts |-> <<"part", i>>]

KnownSnapshots(number, j) == {s \in gazette[number] : s.fingerprint = Fingerprint(j)}

-----------------------------------------------------------------------------
(* Runs                                                                      *)

Position(r) == Len(ledger[r].results) + Len(ledger[r].failures) + 1
Current(r) == Registry[Position(r)]
Working(r, step) == ledger[r].status = "running" /\ job[r].step = step

\* The outcome of a document; the last one decides what the run says
Settled(r, results, failures) ==
    /\ ledger' = [ledger EXCEPT ![r] =
         [@ EXCEPT !.results = results, !.failures = failures,
                   !.status = IF Len(results) + Len(failures) < Len(Registry) THEN "running"
                              ELSE IF failures = <<>> THEN "PASS" ELSE "FAIL"]]
    /\ job' = [job EXCEPT ![r] = NoJob]

Succeeded(r, provider, status, fingerprint) ==
    Settled(r, Append(ledger[r].results,
                 [number |-> Current(r).number, provider |-> provider, status |-> status,
                  fingerprint |-> fingerprint]),
            ledger[r].failures)

Failed(r, stage) ==
    Settled(r, ledger[r].results, Append(ledger[r].failures, [number |-> Current(r).number, stage |-> stage]))

\* The fallback runs only for a reason the registry allows, and for a document
\* that names the portal; what the portal does is a call to fetch_one.
FallBack(r, reason) ==
    IF reason \in FallbackOn /\ Current(r).fallback
    THEN Succeeded(r, "vbpl", "created", <<>>) \/ Failed(r, "vbpl_fallback")
    ELSE Failed(r, "source_policy")

Leave(r) == held' = [held EXCEPT ![Current(r).number] = Missing]

LockFree(number) == held[number] # Missing => ledger[held[number]].status # "running"

-----------------------------------------------------------------------------

GazetteInit ==
    /\ held = [n \in Numbers |-> Missing]
    /\ gazette = [n \in Numbers |-> {}]
    /\ sources = [n \in Numbers |-> <<>>]
    /\ ledger = [r \in Runner |-> Off]
    /\ job = [r \in Runner |-> NoJob]
    /\ runs = 0

StartRun(r) ==
    /\ ledger[r].status # "running" /\ runs < MaxRuns
    /\ \E o \in Options :
          ledger' = [ledger EXCEPT ![r] = [Off EXCEPT !.status = "running", !.replace = o.replace, !.force = o.force]]
    /\ job' = [job EXCEPT ![r] = NoJob]
    /\ runs' = runs + 1
    /\ UNCHANGED <<held, gazette, sources>>

\* A document the registry knows is not in the gazette goes to the portal at once
DeclaredMissing(r) ==
    /\ Working(r, "next") /\ ~Current(r).found
    /\ FallBack(r, "gazette_record_not_found")
    /\ UNCHANGED <<held, gazette, sources, runs>>

\* A lock whose process is gone may be old enough to be taken over, or not yet
EnterDocument(r) ==
    /\ Working(r, "next") /\ Current(r).found
    /\ \/ /\ LockFree(Current(r).number)
          /\ held' = [held EXCEPT ![Current(r).number] = r]
          /\ job' = [job EXCEPT ![r].step = "read"] /\ UNCHANGED ledger
       \/ /\ held[Current(r).number] # Missing
          /\ Failed(r, "official_gazette_word") /\ UNCHANGED held
    /\ UNCHANGED <<gazette, sources, runs>>

\* The page without a Word part is unavailable; everything else that goes wrong
\* with the page, a part, its conversion or the metadata fails the document.
ReadGazette(r) ==
    /\ Working(r, "read")
    /\ \E page \in Pages[Current(r).number] :
        LET selected == SelectedParts(page.links)
        IN  IF ~page.html
            THEN Failed(r, "official_gazette_word") /\ Leave(r)
            ELSE IF selected = <<>>
            THEN FallBack(r, "word_attachment_not_found") /\ Leave(r)
            ELSE \/ /\ Prepared(selected) = {} \/ page.conflict
                    /\ Failed(r, "official_gazette_word") /\ Leave(r)
                 \/ /\ ~page.conflict
                    /\ \E parts \in Prepared(selected) :
                          LET j == [NoJob EXCEPT !.step = "place", !.parts = parts,
                                        !.kinds = [i \in DOMAIN selected |-> selected[i].kind],
                                        !.original = [i \in DOMAIN selected |-> selected[i].bytes]]
                          IN  job' = [job EXCEPT ![r] =
                                [j EXCEPT !.known = ~ledger[r].force /\ KnownSnapshots(Current(r).number, j) # {}]]
                    /\ UNCHANGED <<ledger, held>>
    /\ UNCHANGED <<gazette, sources, runs>>

\* What _materialize_source does with a target: nothing when it has these bytes,
\* a refusal when it has others and the run may not replace them, else a write.
Refused(files, target, bytes, replace) ==
    target \in DOMAIN files /\ files[target] # bytes /\ ~replace

Written(files, target, bytes) ==
    [t \in DOMAIN files \cup {target} |-> IF t = target THEN bytes ELSE files[t]]

\* As if a snapshot that is already known needed no parts in place
AllPlacedOrKnown(j) == j.known \/ j.placed = Len(j.parts)

\* Parts are put in place for a known snapshot too
AllPlaced(j) == j.placed = Len(j.parts)

PlacePart(r) ==
    /\ Working(r, "place") /\ ~AllPlaced(job[r])
    /\ LET number == Current(r).number
           next == job[r].placed + 1
           target == Targets(job[r].parts)[next]
           bytes == job[r].parts[next]
       IN  IF Refused(sources[number], target, bytes, ledger[r].replace)
           THEN Failed(r, "official_gazette_word") /\ Leave(r) /\ UNCHANGED sources
           ELSE /\ sources' = [sources EXCEPT ![number] = Written(@, target, bytes)]
                /\ job' = [job EXCEPT ![r].placed = next]
                /\ UNCHANGED <<ledger, held>>
    /\ UNCHANGED <<gazette, runs>>

\* The parts are in place: a known snapshot is reported unchanged, a new one is
\* renamed to its final name (which a forced run may find taken by one of the
\* same second and the same bytes).
FinishDocument(r) ==
    /\ Working(r, "place") /\ AllPlaced(job[r])
    /\ LET number == Current(r).number
           snapshot == [fingerprint |-> Fingerprint(job[r]), parts |-> job[r].parts]
       IN  \/ /\ job[r].known
              /\ Succeeded(r, "official_gazette_word", "unchanged", snapshot.fingerprint)
              /\ UNCHANGED gazette
           \/ /\ ~job[r].known
              /\ gazette' = [gazette EXCEPT ![number] = @ \cup {snapshot}]
              /\ Succeeded(r, "official_gazette_word", "created", snapshot.fingerprint)
           \/ /\ ~job[r].known /\ KnownSnapshots(number, job[r]) # {}
              /\ Failed(r, "official_gazette_word") /\ UNCHANGED gazette
    /\ Leave(r)
    /\ UNCHANGED <<sources, runs>>

\* The lock directory and the parts already placed stay behind
KillRunner(r) ==
    /\ ledger[r].status = "running"
    /\ ledger' = [ledger EXCEPT ![r].status = "killed"]
    /\ job' = [job EXCEPT ![r] = NoJob]
    /\ UNCHANGED <<held, gazette, sources, runs>>

GazetteNext ==
    \E r \in Runner :
        \/ StartRun(r) \/ DeclaredMissing(r) \/ EnterDocument(r) \/ ReadGazette(r)
        \/ PlacePart(r) \/ FinishDocument(r) \/ KillRunner(r)

GazetteSpec == GazetteInit /\ [][GazetteNext]_gazetteVars

-----------------------------------------------------------------------------

LatestInPlace(r) ==
    LET result == Last(ledger[r].results)
    IN  result.provider = "official_gazette_word" =>
            \E s \in gazette[result.number] :
                /\ s.fingerprint = result.fingerprint
                /\ \A i \in DOMAIN s.parts :
                      LET target == Targets(s.parts)[i]
                      IN  target \in DOMAIN sources[result.number] /\ sources[result.number][target] = s.parts[i]

\* A document that a run has from the gazette has, at that moment, its whole
\* text in the source directory: every part file holds the part of the snapshot
\* the result names, though earlier runs may have died or been refused between
\* two parts of other versions (ingest_one puts the parts in place again even
\* when it finds its snapshot unchanged).
SuccessMeansInPlace ==
    [][\A r \in Runner :
         Len(ledger'[r].results) > Len(ledger[r].results) => LatestInPlace(r)']_gazetteVars
=============================================================================
