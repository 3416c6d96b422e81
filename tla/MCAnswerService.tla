--------------------------- MODULE MCAnswerService ---------------------------
(* Model values of the AnswerService run; times in tenths of a second, the   *)
(* deadline and the timeout scaled down so that every branch is in reach.    *)
EXTENDS AnswerService, TLC

CONSTANTS c1, c2

MCChunks == {c1, c2}

\* Two failed calls fit before the deadline, or one, or none; a retrieval may
\* use the time up (41), and a first call may overrun the deadline (36 + 30).
MCDurations == {1, 9, 30, 36, 41}

=============================================================================
