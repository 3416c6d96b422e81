--------------------------- MODULE MCReleaseServing ---------------------------
(***************************************************************************)
(* The two things that are served from a release: the collection behind    *)
(* the alias, with the jobs that fill and switch it, and the document      *)
(* library, with the pages that read it. They share no state: `machine'    *)
(* names the one a behaviour exercises.                                    *)
(***************************************************************************)
EXTENDS MCQdrantRelease, DocumentLibrary

Chunk(code, doc, type) == [code |-> code, doc |-> doc, type |-> type]
Article(code, doc, number) == [code |-> code, doc |-> doc, number |-> number]

\* Release "new" moves article 12 to document 2 and numbers article 13; "cut"
\* is "old" cut short, and "spoilt" is no JSON.
MCChunksIn == [v \in Versions |->
    CASE v = "old" -> <<Chunk(11, 1, 8), Chunk(13, 2, 7), Chunk(12, 1, 8), Chunk(12, 1, 8)>>
      [] v = "new" -> <<Chunk(11, 1, 8), Chunk(13, 2, 7), Chunk(12, 2, 7)>>
      [] v = "cut" -> <<Chunk(11, 1, 8)>>
      [] OTHER -> Unreadable]
MCArticlesIn == [v \in Versions |->
    CASE v = "old" -> <<Article(11, 1, 5), Article(12, 1, 4), Article(13, 2, Nothing)>>
      [] v = "new" -> <<Article(13, 2, 6), Article(12, 2, 4), Article(11, 1, 5)>>
      [] OTHER -> Unreadable]
MCIdIn == [v \in Versions |-> IF v = "new" THEN "2026" ELSE Nothing]
MCFoundDocuments == [q \in Queries |-> {2}]
MCFoundArticles == [q \in Queries |-> {12, 13}]

VARIABLE machine

servingVars == <<vars, libraryVars, machine>>

ServingInit == machine \in {"collections", "library"} /\ Init /\ LibraryInit
    /\ (machine = "collections" => disk.chunks = "old")

ServingNext ==
    /\ UNCHANGED machine
    /\ \/ machine = "collections" /\ Next /\ UNCHANGED libraryVars
       \/ machine = "library" /\ LibraryNext /\ UNCHANGED vars

ServingSpec == ServingInit /\ [][ServingNext]_servingVars
===============================================================================
