----------------------------- MODULE MCJobQueue -----------------------------
(* JobQueue for TLC: the processes that retry jobs. *)
EXTENDS JobQueue

CONSTANTS p1, p2
OneRetrier == {p1}
=============================================================================
