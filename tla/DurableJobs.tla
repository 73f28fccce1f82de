---------------------------- MODULE DurableJobs ----------------------------
(***************************************************************************)
(* What the job queue promises to those who submit jobs and look at its    *)
(* table: each job goes through its life by the steps below and no others, *)
(* whatever processes there are, which of them crash, and which of their   *)
(* statements fail.  Module JobQueue is the queue on SQLite that           *)
(* implements it.                                                          *)
(*                                                                         *)
(* A run of a job begins when a worker takes it, oldest first, and ends    *)
(* with a result of that worker or is lost.  What is lost is not begun     *)
(* again: the job stays marked as running.                                 *)
(***************************************************************************)
EXTENDS Integers, Sequences

CONSTANTS Workers,
          MaxAttempts, \* _queue_max_attempts
          None

VARIABLES rows,  \* the jobs: what their rows say, and how many runs were begun
          held   \* held[w]: the job that w runs and the runs before this one, or None

vars == <<rows, held>>

Init == rows = << >> /\ held = [w \in Workers |-> None]

With(status) == {i \in DOMAIN rows : rows[i].status = status}

Submit == /\ rows' = Append(rows, [status |-> "pending", attempts |-> 0])
          /\ UNCHANGED held

Begin(w) == \E i \in With("pending") :
  /\ held[w] = None
  /\ \A j \in With("pending") : i <= j
  /\ held' = [held EXCEPT ![w] = [id |-> i, attempts |-> rows[i].attempts]]
  /\ rows' = [rows EXCEPT ![i].status = "running", ![i].attempts = @ + 1]

\* A run that fails is followed by another, as long as attempts are left.
Results(r) == {"completed", IF r.attempts < MaxAttempts THEN "pending" ELSE "failed"}

\* A job that was deleted meanwhile stays deleted.
Finish(w) == LET i == held[w].id IN
  /\ held[w] # None
  /\ held' = [held EXCEPT ![w] = None]
  /\ \/ /\ rows[i].status = "running"
        /\ \E result \in Results(rows[i]) : rows' = [rows EXCEPT ![i].status = result]
     \/ rows[i].status = "deleted" /\ UNCHANGED rows

\* Workers die with their processes, or cannot record what their jobs gave.
Lose(lost) == /\ held' = [w \in Workers |-> IF w \in lost THEN None ELSE held[w]]
              /\ UNCHANGED rows

\* Only jobs that failed are retried.  All attempts are theirs again if the program
\* retries them, and none if it is done from the dashboard.
Again(r, afresh) == IF afresh THEN [status |-> "pending", attempts |-> 0]
                              ELSE [r EXCEPT !.status = "pending"]
Retry(jobs, afresh) ==
  /\ jobs \subseteq With("failed")
  /\ rows' = [i \in DOMAIN rows |-> IF i \in jobs THEN Again(rows[i], afresh) ELSE rows[i]]
  /\ UNCHANGED held

Clear == /\ rows' = [i \in DOMAIN rows |-> [rows[i] EXCEPT !.status = "deleted"]]
         /\ UNCHANGED held

Next == \/ Submit \/ Clear
        \/ \E w \in Workers : Begin(w) \/ Finish(w)
        \/ \E lost \in SUBSET Workers : Lose(lost)
        \/ \E jobs \in SUBSET With("failed"), afresh \in BOOLEAN : Retry(jobs, afresh)

Spec == Init /\ [][Next]_vars
=============================================================================
