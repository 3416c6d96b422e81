-------------------------- MODULE AnswerVerification --------------------------
(***************************************************************************)
(* evaluation/answer_quality/runtime_verification.py: the questions of a   *)
(* dataset are put to a running service one after the other and what comes *)
(* back is judged against the expected evidence. Raw responses, report,    *)
(* status and manifest are files of a run directory, each written          *)
(* atomically; a directory that is named on the command line, as with      *)
(* --case-id, is used again by later runs, which may stop anywhere.        *)
(***************************************************************************)
EXTENDS Integers, Sequences, FiniteSets

CONSTANTS
    Asked,        \* the questions of the dataset, in order
    ExpectedCount,\* --expected-case-count
    Responses,    \* what the service may answer
    BreakAfter,   \* consecutive provider failures that stop a run (3)
    MaxVerifications,
    NotWritten

ASSUME VerificationAssumption ==
    /\ Asked \in Seq({Asked[i] : i \in DOMAIN Asked})
    /\ BreakAfter \in Nat \ {0} /\ ExpectedCount \in Nat /\ MaxVerifications \in Nat
    /\ Responses \subseteq
         [ok : BOOLEAN, blocked : BOOLEAN, failed : BOOLEAN, answered : BOOLEAN,
          sources : {"none", "unnamed", "foreign", "canonical"}, hit : BOOLEAN]

VARIABLES
    raw,      \* raw-responses/: [question -> result]
    report,   \* final-runtime-report.json (and .md, of the run in `page')
    page,
    status,   \* run-status.json
    seal,     \* manifest.json: the digests of all of them
    check,    \* the running verification
    runs      \* verifications so far

verifyVars == <<raw, report, page, status, seal, check, runs>>

Idle == [pc |-> "off"]

VerifyInit ==
    /\ raw = <<>> /\ report = NotWritten /\ page = NotWritten
    /\ status = NotWritten /\ seal = NotWritten /\ check = Idle /\ runs = 0

-----------------------------------------------------------------------------
(* One response *)

\* The message is one of the fixed refusals, or the response says it is one.
Fallback(r) == r.failed \/ ~r.answered
Cited(r) == r.sources # "none"

\* None when there is nothing to validate
CitationsValid(r) == IF ~Cited(r) THEN "n/a" ELSE IF r.sources = "canonical" THEN "valid" ELSE "invalid"

Generated(r) == r.ok /\ ~Fallback(r)
Hit(r) == Cited(r) /\ r.hit
Grounded(r) == Generated(r) /\ Cited(r) /\ CitationsValid(r) = "valid" /\ Hit(r)

ProviderFailure(r) == ~r.ok \/ r.failed \/ r.blocked

Result(r) == [run |-> runs, response |-> r]

-----------------------------------------------------------------------------
(* One verification *)

\* The positions of the questions that are asked
Chosen(ids) == {i \in DOMAIN Asked : ids = {} \/ Asked[i] \in ids}

\* Without case ids the dataset must have the expected size; none is asked twice.

StartVerification ==
    /\ check.pc = "off" /\ runs < MaxVerifications
    /\ \E ids \in SUBSET {Asked[i] : i \in DOMAIN Asked} :
        /\ ids = {} => Len(Asked) = ExpectedCount
        /\ \A i, j \in Chosen(ids) : Asked[i] = Asked[j] => i = j
        /\ check' = [pc |-> "probe", targeted |-> ids # {}, todo |-> Chosen(ids),
                     results |-> <<>>, failures |-> 0]
    /\ runs' = runs + 1
    /\ UNCHANGED <<raw, report, page, status, seal>>

\* The probe of the provider; a blocked one leaves no trace in the directory.
Probe ==
    /\ check.pc = "probe"
    /\ \E available \in BOOLEAN :
        check' = IF available THEN [check EXCEPT !.pc = "ask"] ELSE Idle
    /\ UNCHANGED <<raw, report, page, status, seal, runs>>

Ask ==
    /\ check.pc = "ask"
    /\ \E next \in check.todo, r \in Responses :
        /\ \A i \in check.todo : next <= i
        /\ LET q == Asked[next]
               failures == IF ProviderFailure(r) THEN check.failures + 1 ELSE 0
           IN  IF failures >= BreakAfter
               THEN /\ status' = [run |-> runs, value |-> "INCOMPLETE"]
                    /\ check' = Idle
                    /\ UNCHANGED raw
               ELSE /\ raw' = [p \in DOMAIN raw \cup {q} |-> IF p = q THEN Result(r) ELSE raw[p]]
                    /\ check' = [check EXCEPT !.todo = @ \ {next}, !.failures = failures,
                                              !.results = Append(@, <<q, Result(r)>>)]
                    /\ UNCHANGED status
    /\ UNCHANGED <<report, page, seal, runs>>

\* compute_summary and the gate: nine of ten, and no citation that is invalid;
\* the rates of no results at all are 0.
NineTenths(results, holds) == 10 * Cardinality({i \in DOMAIN results : holds[i]}) >= 9 * Len(results)
Passes(results) ==
    LET R(i) == results[i][2].response IN
    /\ results # <<>>
    /\ NineTenths(results, [i \in DOMAIN results |-> Generated(R(i))])
    /\ NineTenths(results, [i \in DOMAIN results |-> Cited(R(i))])
    /\ NineTenths(results, [i \in DOMAIN results |-> Hit(R(i))])
    /\ NineTenths(results, [i \in DOMAIN results |-> Grounded(R(i))])
    /\ \A i \in DOMAIN results : CitationsValid(R(i)) # "invalid"

WriteReport ==
    /\ check.pc = "ask" /\ check.todo = {}
    /\ report' = [run |-> runs, results |-> check.results, targeted |-> check.targeted,
                  passed |-> Passes(check.results)]
    /\ check' = [check EXCEPT !.pc = "page"]
    /\ UNCHANGED <<raw, page, status, seal, runs>>

WritePage ==
    /\ check.pc = "page"
    /\ page' = runs
    /\ check' = [check EXCEPT !.pc = "status"]
    /\ UNCHANGED <<raw, report, status, seal, runs>>

WriteStatus ==
    /\ check.pc = "status"
    /\ status' = [run |-> runs, value |-> "COMPLETED"]
    /\ check' = [check EXCEPT !.pc = "seal"]
    /\ UNCHANGED <<raw, report, page, seal, runs>>

\* Mutant: the raw responses are left out of the manifest.
DigestsOfReports == [raw |-> <<>>, report |-> report.run, page |-> page, status |-> status]

\* The digests are those of whatever the directory holds.
Digests == [raw |-> raw, report |-> report.run, page |-> page, status |-> status]

WriteSeal ==
    /\ check.pc = "seal"
    /\ seal' = Digests
    /\ check' = Idle
    /\ UNCHANGED <<raw, report, page, status, runs>>

Break ==
    /\ check.pc # "off"
    /\ check' = Idle
    /\ UNCHANGED <<raw, report, page, status, seal, runs>>

VerifyNext ==
    \/ StartVerification \/ Probe \/ Ask \/ WriteReport \/ WritePage
    \/ WriteStatus \/ WriteSeal \/ Break

VerifySpec == VerifyInit /\ [][VerifyNext]_verifyVars

-----------------------------------------------------------------------------
(* Properties *)

\* Every digest of the manifest still fits its file.
Intact ==
    /\ seal # NotWritten /\ report # NotWritten
    /\ seal.report = report.run /\ seal.page = page /\ seal.status = status
    /\ \A q \in DOMAIN seal.raw : q \in DOMAIN raw /\ raw[q] = seal.raw[q]

\* A directory whose manifest is intact holds one run: its report is complete,
\* rests on the raw responses that lie beside it, and was reached without the
\* provider failing too often in a row, whatever earlier and later runs in the
\* directory left or broke off. The status alone does not say so: COMPLETED
\* outlives a run that replaced half of the files.
SealedIsOneRun ==
    Intact =>
        /\ status = [run |-> report.run, value |-> "COMPLETED"] /\ page = report.run
        /\ ~report.targeted => Len(report.results) = ExpectedCount
        /\ \A i \in DOMAIN report.results :
            report.results[i][1] \in DOMAIN raw /\ raw[report.results[i][1]] = report.results[i][2]
        /\ \A i \in DOMAIN report.results :
            \E j \in i..(i + BreakAfter - 1) :
                j \in DOMAIN report.results => ~ProviderFailure(report.results[j][2].response)
=============================================================================
