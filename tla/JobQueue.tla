------------------------------ MODULE JobQueue ------------------------------
(***************************************************************************)
(* The durable job queue (vn_modules/queue.vn) and its dashboard           *)
(* (vn_modules/zenith/jobs.vn): a table of jobs in an SQLite file, shared  *)
(* by processes (or the worker threads of a cluster, each with a VM of its *)
(* own) that each run a pool of worker tasks.                              *)
(*                                                                         *)
(* The tasks of one VM give way only in a job's handler or between two     *)
(* polls, so a poll, BEGIN IMMEDIATE to COMMIT, is one step here; what     *)
(* another process could do in between is to make a statement of it fail.  *)
(* sqlite.query() then calls runtime_error(), which no catch sees (module  *)
(* Unwind): the task that made the statement dies, the worker too.         *)
(*                                                                         *)
(* An idle poll returns from within its try block and so leaves a record   *)
(* on the task's try stack (module Unwind again).                          *)
(***************************************************************************)
EXTENDS Integers, Sequences, FiniteSetsExt

CONSTANTS Processes,
          PoolSize,    \* the argument of spawn()
          MaxAttempts, \* _queue_max_attempts
          MaxTries,    \* TASK_TRY_MAX: 16 in the code
          Retriers,    \* the processes that retry jobs
          StalePages,  \* whether retry_one may come from a page that is out of date
          MaxJobs,     \* bound on the jobs
          MaxAsked,    \* bound on how often jobs are asked for
          MaxCrashes,  \* bound on the crashes
          None

\* A table, a row as a worker read it, and a transaction that is open: its process, and
\* the table as it reads it.
Row == [status : {"pending", "running", "completed", "failed", "deleted"},
        attempts : Nat]
Rows == {table \in Seq(Row) : Len(table) <= MaxJobs}
RowRead == [id : Nat, attempts : Nat]
Transaction == [proc : Processes, rows : Rows]

ASSUME JobQueueAssumption ==
  /\ PoolSize \in Nat /\ MaxAttempts \in 1 .. 100 /\ MaxTries \in Nat \ {0}
  /\ Retriers \subseteq Processes
  /\ StalePages \in BOOLEAN
  /\ MaxJobs \in Nat /\ MaxAsked \in Nat /\ MaxCrashes \in Nat
  /\ None \notin Transaction \cup RowRead

VARIABLES rows,       \* the table vn_jobs as committed; a job's id is its index
          tx,         \* a transaction whose COMMIT failed, or None
          pc,         \* pc[w]: where worker w is
          held,       \* held[w]: the row that w claimed, as it read it
          stale,      \* stale[w]: the records that idle polls left on w's try stack
          up,         \* the processes that run
          stopped,    \* the processes whose pool is stopped
          retrying,   \* retrying[p]: the job that queue_retry() of p saw failed, or None
          crashes,
          asked,      \* history: how often job i was submitted or retried
          starts,     \* history: how often its handler was started
          lost        \* history: the jobs a run of which could not be recorded

workers == <<pc, held, stale>>
processes == <<up, stopped, crashes>>
history == <<asked, starts, lost>>
vars == <<rows, tx, workers, processes, retrying, history>>

Ids == 1 .. MaxJobs
Workers == Processes \X (1 .. PoolSize)
Proc(w) == w[1]

Init == /\ rows = << >>
        /\ tx = None
        /\ pc = [w \in Workers |-> "poll"]
        /\ held = [w \in Workers |-> None]
        /\ stale = [w \in Workers |-> 0]
        /\ up = Processes
        /\ stopped = {}
        /\ retrying = [p \in Processes |-> None]
        /\ crashes = 0
        /\ asked = [i \in Ids |-> 0]
        /\ starts = [i \in Ids |-> 0]
        /\ lost = {}

-----------------------------------------------------------------------------
(* SQLite, as queue.vn uses it. *)

InTx(p) == tx # None /\ tx.proc = p

\* What a SELECT of process p reads.
Table(p) == IF InTx(p) THEN tx.rows ELSE rows

\* A statement that writes, outside of a poll: it goes into the transaction that a
\* failed COMMIT of the same process left open, or is committed at once.
Store(p, table) == IF InTx(p)
                     THEN tx' = [tx EXCEPT !.rows = table] /\ UNCHANGED rows
                     ELSE tx = None /\ rows' = table /\ UNCHANGED tx

\* No busy timeout is set: the lock of another process is an error.
MayBeBusy(p) == up \ {p} # {}

\* Process p runs and is not between the two statements of queue_retry().
Free(p) == p \in up /\ retrying[p] = None

Set(table, i, status) == IF table[i].status = "deleted" THEN table
                                                         ELSE [table EXCEPT ![i].status = status]

\* Pending, with no attempt made.
New == [status |-> "pending", attempts |-> 0]
Reset(table, i) == IF table[i].status = "deleted" THEN table ELSE [table EXCEPT ![i] = New]

-----------------------------------------------------------------------------
(* Submitting. *)

\* queue_submit_job(), and WorkerPool.submit(), which also keeps the closure.
Submit(p) == LET i == Len(Table(p)) + 1 IN
  /\ Free(p)
  /\ i \in Ids
  /\ Store(p, Append(Table(p), New))
  /\ asked' = [asked EXCEPT ![i] = @ + 1]
  /\ UNCHANGED <<workers, processes, retrying, starts, lost>>

-----------------------------------------------------------------------------
(* pool_worker() and queue_process_one(). *)

Polls(w) == pc[w] = "poll" /\ Free(Proc(w)) /\ Proc(w) \notin stopped

\* The loop ends.
Leave(w) == /\ pc[w] = "poll"
            /\ Free(Proc(w))
            /\ Proc(w) \in stopped
            /\ pc' = [pc EXCEPT ![w] = "off"]
            /\ UNCHANGED <<rows, tx, held, stale, processes, retrying, history>>

\* BC_TRY twice, in pool_worker() and in queue_process_one().
RoomToTry(w) == stale[w] + 2 <= MaxTries

Pending(table) == {i \in DOMAIN table : table[i].status = "pending"}
IsFirst(i, table) == i \in Pending(table) /\ \A j \in Pending(table) : i <= j

\* The 17th open try block, or BEGIN IMMEDIATE when there is a transaction.
PollDies(w) == /\ Polls(w)
               /\ ~RoomToTry(w) \/ tx # None \/ MayBeBusy(Proc(w))
               /\ pc' = [pc EXCEPT ![w] = "dead"]
               /\ UNCHANGED <<rows, tx, held, stale, processes, retrying, history>>

\* No job: COMMIT, and a return from within the try block.
Idle(w) == /\ Polls(w)
           /\ RoomToTry(w)
           /\ tx = None
           /\ Pending(rows) = {}
           /\ stale' = [stale EXCEPT ![w] = @ + 1]
           /\ UNCHANGED <<rows, tx, pc, held, processes, retrying, history>>

Marked(i) == [rows EXCEPT ![i].status = "running", ![i].attempts = @ + 1]

\* Mutants of Claim: the row is not marked, or is looked for among the new ones.
ClaimUnmarked(w) == \E i \in DOMAIN rows :
  /\ Polls(w)
  /\ RoomToTry(w)
  /\ tx = None
  /\ IsFirst(i, rows)
  /\ pc' = [pc EXCEPT ![w] = "handle"]
  /\ held' = [held EXCEPT ![w] = [id |-> i, attempts |-> rows[i].attempts]]
  /\ starts' = [starts EXCEPT ![i] = @ + 1]
  /\ UNCHANGED <<rows, tx, stale, processes, retrying, asked, lost>>

ClaimNew(w) == \E i \in DOMAIN rows :
  /\ Polls(w)
  /\ RoomToTry(w)
  /\ tx = None
  /\ IsFirst(i, rows) /\ rows[i].attempts = 0
  /\ rows' = Marked(i)
  /\ pc' = [pc EXCEPT ![w] = "handle"]
  /\ held' = [held EXCEPT ![w] = [id |-> i, attempts |-> rows[i].attempts]]
  /\ starts' = [starts EXCEPT ![i] = @ + 1]
  /\ UNCHANGED <<tx, stale, processes, retrying, asked, lost>>

\* The first pending row is marked, and its handler started after the COMMIT.
Claim(w) == \E i \in DOMAIN rows :
  /\ Polls(w)
  /\ RoomToTry(w)
  /\ tx = None
  /\ IsFirst(i, rows)
  /\ rows' = Marked(i)
  /\ pc' = [pc EXCEPT ![w] = "handle"]
  /\ held' = [held EXCEPT ![w] = [id |-> i, attempts |-> rows[i].attempts]]
  /\ starts' = [starts EXCEPT ![i] = @ + 1]
  /\ UNCHANGED <<tx, stale, processes, retrying, asked, lost>>

\* COMMIT fails: another process reads.
ClaimFails(w) == \E i \in DOMAIN rows :
  /\ Polls(w)
  /\ RoomToTry(w)
  /\ tx = None
  /\ MayBeBusy(Proc(w))
  /\ IsFirst(i, rows)
  /\ tx' = [proc |-> Proc(w), rows |-> Marked(i)]
  /\ pc' = [pc EXCEPT ![w] = "dead"]
  /\ UNCHANGED <<rows, held, stale, processes, retrying, history>>

\* The UPDATE at the end of a run.
Record(w, status) == LET p == Proc(w) i == held[w].id IN
  /\ pc[w] = "handle"
  /\ Free(p)
  /\ Store(p, Set(Table(p), i, status))
  /\ pc' = [pc EXCEPT ![w] = "poll"]
  /\ held' = [held EXCEPT ![w] = None]
  /\ lost' = IF InTx(p) THEN lost \cup {i} ELSE lost
  /\ UNCHANGED <<stale, processes, retrying, asked, starts>>

HandlerReturns(w) == pc[w] = "handle" /\ Record(w, "completed")

\* Mutant of HandlerThrows: the attempt that was just made is not counted.
ThrowsOnceMore(w) ==
  /\ pc[w] = "handle"
  /\ Record(w, IF held[w].attempts < MaxAttempts THEN "pending" ELSE "failed")

\* It throws, or there is none here: a closure is only in the VM that submitted it.
HandlerThrows(w) ==
  /\ pc[w] = "handle"
  /\ Record(w, IF held[w].attempts + 1 < MaxAttempts THEN "pending" ELSE "failed")

\* It makes an error that cannot be caught, or the UPDATE does.
HandlerDies(w) == /\ pc[w] = "handle"
                  /\ Free(Proc(w))
                  /\ pc' = [pc EXCEPT ![w] = "dead"]
                  /\ held' = [held EXCEPT ![w] = None]
                  /\ lost' = lost \cup {held[w].id}
                  /\ UNCHANGED <<rows, tx, stale, processes, retrying, asked, starts>>

-----------------------------------------------------------------------------
(* Retrying and deleting. *)

\* The bound on all that is asked for (retry_all may pass it).
MayAsk == MapThenSumSet(LAMBDA i : asked[i], Ids) < MaxAsked

\* queue_retry(): the SELECT ...
RetryRead(p) == \E i \in DOMAIN Table(p) :
  /\ Free(p) /\ p \in Retriers
  /\ MayAsk
  /\ Table(p)[i].status = "failed"
  /\ retrying' = [retrying EXCEPT ![p] = i]
  /\ UNCHANGED <<rows, tx, workers, processes, history>>

\* ... and the UPDATE, which may fail.
RetryWrite(p) == LET i == retrying[p] IN
  /\ p \in up /\ i # None
  /\ \/ /\ Store(p, Reset(Table(p), i))
        /\ asked' = [asked EXCEPT ![i] = @ + 1]
     \/ MayBeBusy(p) /\ UNCHANGED <<rows, tx, asked>>
  /\ retrying' = [retrying EXCEPT ![p] = None]
  /\ UNCHANGED <<workers, processes, starts, lost>>

\* The dashboard's form of one job, on the page if the job was failed.
RetryOne(p) == \E i \in DOMAIN Table(p) :
  /\ Free(p) /\ p \in Retriers
  /\ MayAsk
  /\ Table(p)[i].status = "failed" \/ StalePages
  /\ Store(p, Set(Table(p), i, "pending"))
  /\ asked' = [asked EXCEPT ![i] = @ + 1]
  /\ UNCHANGED <<workers, processes, retrying, starts, lost>>

Failed(table) == {i \in DOMAIN table : table[i].status = "failed"}

\* Its form of all jobs that failed.
RetryAll(p) ==
  /\ Free(p) /\ p \in Retriers
  /\ MayAsk
  /\ Store(p, [i \in DOMAIN Table(p) |-> IF i \in Failed(Table(p))
                                           THEN [Table(p)[i] EXCEPT !.status = "pending"]
                                           ELSE Table(p)[i]])
  /\ asked' = [i \in Ids |-> IF i \in Failed(Table(p)) THEN asked[i] + 1 ELSE asked[i]]
  /\ UNCHANGED <<workers, processes, retrying, starts, lost>>

\* Its form that clears the table.
ClearAll(p) ==
  /\ Free(p)
  /\ Store(p, [i \in DOMAIN Table(p) |-> [Table(p)[i] EXCEPT !.status = "deleted"]])
  /\ UNCHANGED <<workers, processes, retrying, history>>

-----------------------------------------------------------------------------
(* Processes. *)

\* WorkerPool.stop().
Stop(p) == /\ Free(p)
           /\ stopped' = stopped \cup {p}
           /\ UNCHANGED <<rows, tx, workers, up, crashes, retrying, history>>

\* A process ends, between any two statements; what it did not commit is undone.
Crash(p) == /\ p \in up
            /\ crashes < MaxCrashes
            /\ crashes' = crashes + 1
            /\ up' = up \ {p}
            /\ tx' = IF InTx(p) THEN None ELSE tx
            /\ lost' = lost \cup {held[w].id : w \in {v \in Workers : Proc(v) = p /\ pc[v] = "handle"}}
            /\ pc' = [w \in Workers |-> IF Proc(w) = p THEN "off" ELSE pc[w]]
            /\ held' = [w \in Workers |-> IF Proc(w) = p THEN None ELSE held[w]]
            /\ retrying' = [retrying EXCEPT ![p] = None]
            /\ UNCHANGED <<rows, stale, stopped, asked, starts>>

\* It is started again: WorkerPool.spawn().
Restart(p) == /\ p \notin up
              /\ up' = up \cup {p}
              /\ stopped' = stopped \ {p}
              /\ pc' = [w \in Workers |-> IF Proc(w) = p THEN "poll" ELSE pc[w]]
              /\ stale' = [w \in Workers |-> IF Proc(w) = p THEN 0 ELSE stale[w]]
              /\ UNCHANGED <<rows, tx, held, crashes, retrying, history>>

-----------------------------------------------------------------------------
Turn(w) == \/ Leave(w) \/ PollDies(w) \/ Idle(w) \/ Claim(w) \/ ClaimFails(w)
           \/ HandlerReturns(w) \/ HandlerThrows(w) \/ HandlerDies(w)

Request(p) == \/ Submit(p)
              \/ RetryRead(p) \/ RetryWrite(p) \/ RetryOne(p) \/ RetryAll(p) \/ ClearAll(p)
              \/ Stop(p) \/ Crash(p) \/ Restart(p)

Next == (\E w \in Workers : Turn(w)) \/ (\E p \in Processes : Request(p))

Spec == Init /\ [][Next]_vars

\* The scheduler gives every task its turn however often others call queue_retry(),
\* which does not stop between its statements, and handlers end.
FairSpec == /\ Spec
            /\ \A w \in Workers : SF_vars(Turn(w))
            /\ \A p \in Processes : WF_vars(RetryWrite(p))

-----------------------------------------------------------------------------
(* Properties. *)

Claimed == [id : 1 .. Len(rows), attempts : Nat]

TypeOK == /\ rows \in Rows
          /\ tx \in Transaction \cup {None}
          /\ pc \in [Workers -> {"poll", "handle", "off", "dead"}]
          /\ held \in [Workers -> Claimed \cup {None}]
          /\ \A w \in Workers : IF pc[w] = "handle" THEN held[w] \in Claimed ELSE held[w] = None
          /\ stale \in [Workers -> 0 .. MaxTries - 1]
          /\ up \subseteq Processes /\ stopped \subseteq Processes
          /\ retrying \in [Processes -> Ids \cup {None}]
          /\ asked \in [Ids -> Nat] /\ starts \in [Ids -> Nat] /\ lost \subseteq Ids

Runners(i) == {w \in Workers : pc[w] = "handle" /\ held[w].id = i}

\* A job is run by one worker at a time, whatever the processes: the claim excludes
\* the others, and only a job that failed is made pending again.  (With two
\* processes that retry, or a page that is out of date, it may be run by two.)
OneRunner == \A i \in Ids : Cardinality(Runners(i)) <= 1

\* The retries are bounded: a job is started at most max_attempts times for each
\* time it was submitted or retried, crashes included.
BoundedStarts == \A i \in Ids : starts[i] <= MaxAttempts * asked[i]

\* A job that is marked as running is being run, unless its worker died in the run
\* or could not record the end of it.
RunningIsRun == \A i \in DOMAIN rows : rows[i].status = "running" /\ i \notin lost => Runners(i) # {}

\* The rows, the workers and the count of starts agree.
JobQueueInv == TypeOK /\ OneRunner /\ BoundedStarts /\ RunningIsRun

\* A job that completed is never run again.
CompletedStays ==
  [][\A i \in DOMAIN rows : rows[i].status = "completed" =>
        i \in DOMAIN rows' /\ rows'[i].status \in {"completed", "deleted"}]_rows

\* Seen from outside, each job goes through its life as module DurableJobs says,
\* whichever statements fail and whichever processes crash.
Life == INSTANCE DurableJobs
KeepsPromise == Life!Spec

\* A pending job is taken, as long as there is a worker.
NoWorkers == \A w \in Workers : pc[w] \notin {"poll", "handle"}
JobsAreTaken == \A i \in Ids : i \in Pending(rows) ~> i \notin Pending(rows) \/ NoWorkers

\* A worker lives as long as its pool is not stopped and no statement of it fails.
\* (False: a worker that finds no job fifteen times dies.  No run checks it.)
IdleWorkersStay ==
  [][\A w \in Workers : pc[w] = "poll" /\ pc'[w] = "dead" => up # {Proc(w)} \/ tx # None]_pc
=============================================================================
