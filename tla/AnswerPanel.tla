----------------------------- MODULE AnswerPanel -----------------------------
(***************************************************************************)
(* The annotation panel of evaluation/answer_quality: independent models   *)
(* label the cases of a dataset, each answer is kept as one file, and      *)
(* whatever is not unanimous goes to a human. A run may be interrupted at  *)
(* any point and continued with --resume; the dataset, the models and the  *)
(* cases of the command line may have changed by then. The dataset file is *)
(* read twice, for its questions and for its digest, and the manifest that *)
(* a continued run is compared with is written last.                       *)
(***************************************************************************)
EXTENDS Integers, Sequences, FiniteSets, Functions

CONSTANTS
    Datasets,     \* contents the dataset file may have
    LockedOnes,   \* those of them with "locked": true
    CasesOf,      \* [Datasets -> the cases of the dataset]
    Panels,       \* model lists of a command line
    Organization, \* [models -> the prefix of the model ID]
    MinModels,    \* 3
    Answers,      \* what a model may answer: labels, "outside" and Failures
    MaxRuns,      \* invocations explored
    Nothing       \* no file

Failures == {"timeout", "unreachable", "not_json", "http_error", "cut_off", "bad_schema", "anonymous"}

ASSUME PanelAssumption ==
    /\ LockedOnes \subseteq Datasets
    /\ \A p \in Panels : \A i \in DOMAIN p : p[i] \in DOMAIN Organization
    /\ MinModels \in Nat /\ MaxRuns \in Nat

VARIABLES
    records,  \* [file <<case, position, model>> -> record]
    consensus,\* consensus-report.json: [case -> the label all models agree on]
    manifest, \* manifest.json
    panel,    \* the running invocation
    started,  \* invocations so far
    blind     \* a run was continued without a manifest to compare with

panelVars == <<records, consensus, manifest, panel, started, blind>>

NoPanel == [pc |-> "off"]

PanelInit ==
    /\ records = <<>> /\ consensus = Nothing /\ manifest = Nothing
    /\ panel = NoPanel /\ started = 0 /\ blind = FALSE

-----------------------------------------------------------------------------
(* Starting *)

ValidModels(models) ==
    /\ Len(models) >= MinModels
    /\ \A i, j \in DOMAIN models : i # j => Organization[models[i]] # Organization[models[j]]

Runs == {records[f].run : f \in DOMAIN records}

\* Mutant: the dataset of the manifest is not compared.
AdmittedUnhashed(digest, models, cases, resume) ==
    IF ~resume THEN started = 0
    ELSE IF manifest # Nothing
    THEN manifest.models = models /\ manifest.cases = cases
    ELSE Cardinality(Runs) <= 1

\* May the arguments work on what the output directory holds? Every start
\* leaves records/ there, so that only the first one finds it empty.
Admitted(digest, models, cases, resume) ==
    IF ~resume THEN started = 0
    ELSE IF manifest # Nothing
    THEN /\ manifest.models = models
         /\ manifest.cases = cases
         /\ manifest.dataset = digest
    ELSE Cardinality(Runs) <= 1

\* A continued run keeps the id of the run it continues.
RunId(resume) ==
    IF resume /\ manifest # Nothing THEN manifest.run
    ELSE IF resume /\ Runs # {} THEN CHOOSE r \in Runs : TRUE
    ELSE started + 1

Files(models, cases) == {<<c, i, models[i]>> : c \in cases, i \in DOMAIN models}

\* What is left to ask: an answer that stands is never asked for again.
Tasks(models, cases, retry) ==
    {f \in Files(models, cases) :
        f \in DOMAIN records => retry /\ records[f].status = "error"}

\* The file may be edited or generated anew at any time, so that every read
\* finds any of the contents: the questions come from one read of it ...
LoadDataset ==
    /\ panel.pc = "off" /\ started < MaxRuns
    /\ \E content \in Datasets : panel' = [pc |-> "loaded", of |-> content]
    /\ UNCHANGED <<records, consensus, manifest, started, blind>>

\* ... and the digest, which is compared with the manifest's, from the next.
StartPanel ==
    /\ panel.pc = "loaded" /\ panel.of \notin LockedOnes
    /\ \E digest \in Datasets, models \in Panels, resume, retry \in BOOLEAN :
       \E cases \in SUBSET CasesOf[panel.of] \ {{}} :
        /\ ValidModels(models)
        /\ Admitted(digest, models, cases, resume)
        /\ panel' = [pc |-> "asking", of |-> panel.of, digest |-> digest, models |-> models,
                     cases |-> cases, run |-> RunId(resume), todo |-> Tasks(models, cases, retry)]
        /\ blind' = (blind \/ (resume /\ manifest = Nothing /\ records # <<>>))
    /\ started' = started + 1
    /\ UNCHANGED <<records, consensus, manifest>>

-----------------------------------------------------------------------------
(* Asking *)

\* annotate and validate_annotation_references: only a complete answer in the
\* schema that cites nothing outside the evidence becomes a label.
Annotated(f, answer) ==
    [run |-> panel.run, of |-> panel.of, digest |-> panel.digest,
     status |-> IF answer \in Failures \cup {"outside"} THEN "error" ELSE "success",
     label |-> IF answer \in Failures \cup {"outside"} THEN Nothing ELSE answer]

\* The answers are written one by one, in the order in which they come.
Record ==
    /\ panel.pc = "asking"
    /\ \E f \in panel.todo, answer \in Answers \ {"bad_usage"} :
        /\ records' = [g \in DOMAIN records \cup {f} |->
                          IF g = f THEN Annotated(f, answer) ELSE records[g]]
        /\ panel' = [panel EXCEPT !.todo = @ \ {f}]
    /\ UNCHANGED <<consensus, manifest, started, blind>>

\* An answer whose token counts do not validate raises in the loop that
\* writes; the answers that are still to come are lost with it.
AbortOnUsage ==
    /\ panel.pc = "asking" /\ panel.todo # {} /\ "bad_usage" \in Answers
    /\ panel' = NoPanel
    /\ UNCHANGED <<records, consensus, manifest, started, blind>>

\* The process is interrupted, or refuses its arguments before it writes anything.
Interrupt ==
    /\ panel.pc # "off"
    /\ panel' = NoPanel
    /\ UNCHANGED <<records, consensus, manifest, started, blind>>

-----------------------------------------------------------------------------
(* Reporting *)

Pair(f) == <<f[1], f[3]>>
ExpectedPairs == panel.cases \X Range(panel.models)

\* Files of other positions, models or cases are found when all is answered.
Consistent ==
    /\ \A f, g \in DOMAIN records : Pair(f) = Pair(g) => f = g
    /\ \A f \in DOMAIN records : Pair(f) \in ExpectedPairs

RefuseRecords ==
    /\ panel.pc = "asking" /\ panel.todo = {} /\ ~Consistent
    /\ panel' = NoPanel
    /\ UNCHANGED <<records, consensus, manifest, started, blind>>

OfCase(c) == {f \in DOMAIN records : f[1] = c}

\* Unanimous: every model of the panel succeeded, with the same claims.
Exact(c, models) ==
    /\ {f[3] : f \in OfCase(c)} = Range(models)
    /\ \A f \in OfCase(c) : records[f].status = "success"
    /\ \A f, g \in OfCase(c) : records[f].label = records[g].label

Decision(c, models) ==
    IF Exact(c, models) THEN records[CHOOSE f \in OfCase(c) : TRUE].label ELSE Nothing

WriteConsensus ==
    /\ panel.pc = "asking" /\ panel.todo = {} /\ Consistent
    /\ consensus' = [c \in {f[1] : f \in DOMAIN records} |-> Decision(c, panel.models)]
    /\ panel' = [panel EXCEPT !.pc = "reported"]
    /\ UNCHANGED <<records, manifest, started, blind>>

WriteManifest ==
    /\ panel.pc = "reported"
    /\ manifest' = [run |-> panel.run, dataset |-> panel.digest, models |-> panel.models,
                    cases |-> panel.cases,
                    status |-> IF /\ \A f \in DOMAIN records : records[f].status = "success"
                                  /\ ExpectedPairs = {Pair(f) : f \in DOMAIN records}
                               THEN "COMPLETED" ELSE "COMPLETED_WITH_ERRORS"]
    /\ panel' = NoPanel
    /\ UNCHANGED <<records, consensus, started, blind>>

PanelNext ==
    \/ LoadDataset \/ StartPanel \/ Record \/ AbortOnUsage \/ Interrupt
    \/ RefuseRecords \/ WriteConsensus \/ WriteManifest

PanelSpec == PanelInit /\ [][PanelNext]_panelVars

-----------------------------------------------------------------------------
(* Properties *)

\* The labels of runs for which the file was edited between its two reads
Torn == {f \in DOMAIN records : records[f].of # records[f].digest}

SameDataset == \A f, g \in DOMAIN records \ Torn : records[f].of = records[g].of

\* The models that a consensus compares were shown the same dataset, the one
\* the manifest names, however often the run was interrupted and continued and
\* the file edited meanwhile; and COMPLETED means that every model labelled
\* every case of it. There are two ways around the digest. A run continued
\* without a manifest is not compared with anything (panel.py:202), and a file
\* edited between the read of its questions and the read of its digest
\* (panel.py:151-152) is labelled under a digest that it does not have: such
\* records are of another dataset, but of a run the manifest admits.
PanelOfOneDataset ==
    ~blind =>
        /\ SameDataset
        /\ manifest # Nothing =>
            /\ \A f \in DOMAIN records : records[f].digest = manifest.dataset
            /\ \A f \in DOMAIN records \ Torn : records[f].of = manifest.dataset
            /\ manifest.status = "COMPLETED" =>
                \A c \in manifest.cases, m \in Range(manifest.models) :
                    \E f \in OfCase(c) : f[3] = m /\ records[f].status = "success"

\* docs/evaluation/ANSWER_CITATION_EVALUATION_V1.md:165: "Interrupted runs can
\* be continued only with the same dataset, cases and model list".
ContinuedWithSameDataset == SameDataset
=============================================================================
