-------------------------- MODULE MCHistoryAndBrowser --------------------------
(***************************************************************************)
(* The stored conversations of one account, and the session of a browser   *)
(* tab. They share no state: `machine' names the one a behaviour exercises.*)
(***************************************************************************)
EXTENDS ConversationHistory, BrowserSession, TLC

CONSTANTS c1, x1, r1, r2, r3, n1, n2, ann, bob

MCRequests == {r1, r2, r3}
MCNotes == {n1, n2}
MCAccounts == {ann, bob}

Symmetry == Permutations(MCRequests) \cup Permutations(MCAccounts)

VARIABLE machine

vars_ == <<vars, browserVars, machine>>

AllInit ==
    /\ machine \in {"history", "browser"}
    /\ Init /\ BrowserInit
    /\ machine = "history" => owners = <<>>
    /\ machine = "browser" => \A x \in Exchanges : marks[x] = NoMark

AllNext ==
    /\ UNCHANGED machine
    /\ \/ machine = "history" /\ Next /\ UNCHANGED browserVars
       \/ machine = "browser" /\ BrowserNext /\ UNCHANGED vars

AllSpec == AllInit /\ [][AllNext]_vars_
===============================================================================
