--------------------------- MODULE MCQdrantRelease ---------------------------
EXTENDS QdrantRelease

CONSTANTS x1, x2, c1, c2, k1, k2, k3, k4, k5

MCCollections == {x1, x2}
MCCorpora == {c1, c2}
\* Two corpora with the same number of chunks, which differ in one id that is not checked.
MCContent == (c1 :> <<k1, k2, k3, k4>>) @@ (c2 :> <<k1, k5, k3, k4>>)
MCRelease == [coll |-> x1, corpus |-> c1]
MCSymmetry == Permutations(Jobs)
=============================================================================
