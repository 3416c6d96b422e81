-------------------------- MODULE MCAccountSessions --------------------------
(* Model values of the AccountSessions runs.                                 *)
EXTENDS AccountSessions, TLC

CONSTANTS k1, k2, e1, e2, r1, r2, v1

MCClients == {k1, k2}
MCEmails == {e1, e2}
MCChats == {v1}

TwoRequests == {r1, r2}
=============================================================================
