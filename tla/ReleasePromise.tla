--------------------------- MODULE ReleasePromise ---------------------------
(***************************************************************************)
(* What the release of a corpus to Qdrant promises: a collection fills with *)
(* the chunks of one corpus only, and the alias the service queries moves   *)
(* only to a collection that holds one corpus entirely.                     *)
(***************************************************************************)
EXTENDS SequencesExt

CONSTANTS Collections, Corpora,
          Content,      \* the chunk ids of each corpus, in file order
          None

VARIABLES held,         \* the pairs <<chunk id, corpus>> of each collection
          alias         \* the collection the alias names

Of(c) == ToSet(Content[c]) \X {c}

Init == held = [x \in Collections |-> {}] /\ alias = None

\* A batch of corpus c is added to a collection of c.
Grow(x) ==
    \E c \in Corpora : /\ held[x] \subseteq Of(c)
                       /\ \E S \in SUBSET Of(c) : held' = [held EXCEPT ![x] = @ \union S]
                       /\ UNCHANGED alias

Promote(x) ==
    /\ \E c \in Corpora : held[x] = Of(c)
    /\ alias' = x
    /\ UNCHANGED held

Next == \E x \in Collections : Grow(x) \/ Promote(x)

Spec == Init /\ [][Next]_<<held, alias>>
=============================================================================
