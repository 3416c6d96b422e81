---------------------------- MODULE AnswerPromise ----------------------------
(***************************************************************************)
(* What POST /ask promises the person who asks, whatever the retrievers,   *)
(* the language model and the clock do: one outcome, which is either an    *)
(* answer grounded in evidence that was retrieved for this very question,  *)
(* or a canned answer without sources, or an HTTP error.                   *)
(***************************************************************************)
CONSTANTS Chunks   \* legal chunks of the corpus

VARIABLES
    evidence,   \* the chunks retrieved for the question
    outcome     \* what the client has received

Pending == [kind |-> "pending", cited |-> {}]

Init ==
    /\ evidence = {}
    /\ outcome = Pending

\* Evidence is gathered once, before anything is answered.
Gather ==
    /\ outcome = Pending
    /\ evidence = {}
    /\ evidence' \in SUBSET Chunks
    /\ UNCHANGED outcome

\* A grounded answer cites evidence, and nothing but evidence.
Ground ==
    /\ outcome = Pending
    /\ \E cited \in SUBSET evidence :
        /\ cited # {}
        /\ outcome' = [kind |-> "grounded", cited |-> cited]
    /\ UNCHANGED evidence

\* Every other outcome shows no source.
Decline ==
    /\ outcome = Pending
    /\ \E kind \in {"out_of_scope", "insufficient", "failed", "error"} :
        outcome' = [kind |-> kind, cited |-> {}]
    /\ UNCHANGED evidence

Next == Gather \/ Ground \/ Decline

vars == <<evidence, outcome>>

\* Nothing but this happens to the one who asks ...
Safety == Init /\ [][Next]_vars

\* ... and an outcome does.
Spec == Safety /\ WF_vars(Ground \/ Decline)
=============================================================================
