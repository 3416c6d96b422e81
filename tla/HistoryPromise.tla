---------------------------- MODULE HistoryPromise ----------------------------
(***************************************************************************)
(* What the conversation history of one user is: conversations that hold   *)
(* whole exchanges (a question and its answer), answers that carry at most *)
(* one bookmark, and deletions that take everything along and last.        *)
(***************************************************************************)
CONSTANTS
    Convs,      \* conversation ids
    Exchanges,  \* ids of a question and its answer
    None

VARIABLES
    state,      \* state[c]: "absent", "live" or "gone"
    placed,     \* placed[x]: the conversation of exchange x, or None
    marked      \* the bookmarked answers

vars == <<state, placed, marked>>

Init ==
    /\ state \in [Convs -> {"absent", "live"}]
    /\ placed \in [Exchanges -> {c \in Convs : state[c] = "live"} \cup {None}]
    /\ marked \in SUBSET {x \in Exchanges : placed[x] # None}

\* An exchange is stored, opening a conversation for it if need be.
Record(x, c) ==
    /\ placed[x] = None
    /\ state[c] # "gone"
    /\ placed' = [placed EXCEPT ![x] = c]
    /\ state' = [state EXCEPT ![c] = "live"]
    /\ UNCHANGED marked

Create(c) ==
    /\ state[c] = "absent"
    /\ state' = [state EXCEPT ![c] = "live"]
    /\ UNCHANGED <<placed, marked>>

Delete(c) ==
    /\ state[c] = "live"
    /\ state' = [state EXCEPT ![c] = "gone"]
    /\ placed' = [x \in Exchanges |-> IF placed[x] = c THEN None ELSE placed[x]]
    /\ marked' = {x \in marked : placed[x] # c}

Mark(x) ==
    /\ placed[x] # None
    /\ marked' = marked \cup {x}
    /\ UNCHANGED <<state, placed>>

Unmark(x) ==
    /\ marked' = marked \ {x}
    /\ UNCHANGED <<state, placed>>

Next ==
    \/ \E c \in Convs : Create(c) \/ Delete(c)
    \/ \E x \in Exchanges : Mark(x) \/ Unmark(x)
    \/ \E x \in Exchanges, c \in Convs : Record(x, c)

Spec == Init /\ [][Next]_vars
=============================================================================
