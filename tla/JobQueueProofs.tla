--------------------------- MODULE JobQueueProofs ---------------------------
(***************************************************************************)
(* Proofs about module JobQueue, for any number of processes, workers and  *)
(* jobs: if at most one process retries jobs, and only from pages that are *)
(* up to date, a job has one runner at a time, is started at most          *)
(* max_attempts times for each time it was asked for, and goes through its *)
(* life as module DurableJobs says.                                        *)
(***************************************************************************)
EXTENDS JobQueue, FiniteSetTheorems, TLAPS

Handling(w) == pc[w] = "handle"
OneRetries == (\A p, q \in Retriers : p = q) /\ ~StalePages

(***************************************************************************)
(* The inductive invariant.  A transaction that is open was left by a      *)
(* COMMIT that failed, and can only be undone: what is in it never becomes *)
(* the table, so the parts are about the table as committed, and about the *)
(* transaction only that it is no shorter.                                 *)
(***************************************************************************)

\* Who runs a job is in a process that is up; the row says that the job is running,
\* and counts the start, unless it was deleted meanwhile.
Marks == \A w \in Workers : Handling(w) =>
           LET r == rows[held[w].id] IN
             /\ Proc(w) \in up
             /\ \/ r.status = "deleted"
                \/ r.status = "running" /\ r.attempts = held[w].attempts + 1

\* Two workers do not run one job.
Apart == \A v, w \in Workers : Handling(v) /\ Handling(w) /\ held[v].id = held[w].id => v = w

\* Between its two statements queue_retry() has a job that stays failed, as nobody
\* else retries it.
Asks == \A p \in Processes : retrying[p] # None =>
          /\ p \in Retriers
          /\ retrying[p] \in DOMAIN Table(p)
          /\ ~InTx(p) => rows[retrying[p]].status \in {"failed", "deleted"}

Longer == tx # None => Len(rows) <= Len(tx.rows)

\* What a job may still be started is covered by what was asked for.
Quota(i) == MaxAttempts * asked[i]
Covered == \A i \in 1 .. Len(rows) :
  /\ rows[i].status \in {"pending", "running"} => starts[i] + MaxAttempts - rows[i].attempts <= Quota(i)
  /\ rows[i].status = "pending" => starts[i] + 1 <= Quota(i)

IInv == /\ TypeOK /\ Marks /\ Apart /\ Asks /\ Longer /\ Covered
        /\ BoundedStarts /\ RunningIsRun

-----------------------------------------------------------------------------
(* Tables. *)

Statuses == {"pending", "running", "completed", "failed", "deleted"}

Put(table, i, r) == [table EXCEPT ![i] = r]

\* What is put in place of a row leaves a table of the same length.
LEMMA PutRow ==
  ASSUME NEW table \in Rows, NEW i \in 1 .. Len(table), NEW r \in Row
  PROVE  /\ Put(table, i, r) \in Rows
         /\ Len(Put(table, i, r)) = Len(table)
         /\ Put(table, i, r)[i] = r
         /\ \A j \in 1 .. Len(table) : j # i => Put(table, i, r)[j] = table[j]
  BY DEF Rows, Put

LEMMA RowUpdates ==
  ASSUME NEW r \in Row, NEW s \in Statuses
  PROVE  /\ [r EXCEPT !.status = s] \in Row
         /\ [r EXCEPT !.status = s].status = s
         /\ [r EXCEPT !.status = s].attempts = r.attempts
  BY DEF Row, Statuses

LEMMA CountUpdates ==
  ASSUME NEW r \in Row, NEW n \in Nat
  PROVE  /\ [r EXCEPT !.attempts = n] \in Row
         /\ [r EXCEPT !.attempts = n].status = r.status
         /\ [r EXCEPT !.attempts = n].attempts = n
  BY DEF Row

\* An UPDATE of a status keeps the table a table, and touches no other row.
LEMMA SetRow ==
  ASSUME NEW table \in Rows, NEW i \in 1 .. Len(table), NEW s \in Statuses
  PROVE  /\ Set(table, i, s) \in Rows
         /\ Len(Set(table, i, s)) = Len(table)
         /\ \A j \in 1 .. Len(table) :
              /\ j # i => Set(table, i, s)[j] = table[j]
              /\ Set(table, i, s)[j].attempts = table[j].attempts
         /\ Set(table, i, s)[i].status = IF table[i].status = "deleted" THEN "deleted" ELSE s
<1>. DEFINE r == [table[i] EXCEPT !.status = s]
<1>1. table[i] \in Row
  BY DEF Rows
<1>2. r \in Row /\ r.status = s /\ r.attempts = table[i].attempts
  BY <1>1, RowUpdates
<1>3. CASE table[i].status = "deleted"
  BY <1>3 DEF Set
<1>4. CASE table[i].status # "deleted"
  <2>1. Set(table, i, s) = Put(table, i, r)
    BY <1>4 DEF Set, Put
  <2>. HIDE DEF r
  <2>. QED BY <1>2, <1>4, <2>1, PutRow
<1>. QED BY <1>3, <1>4

\* So does the UPDATE of a claim.
Started(r) == [r EXCEPT !.status = "running", !.attempts = r.attempts + 1]

LEMMA MarkedRow ==
  ASSUME rows \in Rows, NEW i \in 1 .. Len(rows)
  PROVE  /\ Marked(i) \in Rows
         /\ Len(Marked(i)) = Len(rows)
         /\ Marked(i)[i].status = "running" /\ Marked(i)[i].attempts = rows[i].attempts + 1
         /\ \A j \in 1 .. Len(rows) : j # i => Marked(i)[j] = rows[j]
<1>. DEFINE a == [rows[i] EXCEPT !.status = "running"]
<1>. DEFINE n == rows[i].attempts + 1
<1>0. rows[i] \in Row
  BY DEF Rows
<1>1. n \in Nat
  BY <1>0 DEF Row
<1>2. a \in Row /\ a.status = "running"
  BY <1>0, RowUpdates DEF Statuses
<1>3. Started(rows[i]) = [a EXCEPT !.attempts = n]
  BY DEF Started
<1>4. Marked(i) = Put(rows, i, Started(rows[i]))
  BY DEF Marked, Put, Started, Rows
<1>. HIDE DEF a, n
<1>5. Started(rows[i]) \in Row /\ Started(rows[i]).status = "running" /\ Started(rows[i]).attempts = n
  BY <1>1, <1>2, <1>3, CountUpdates
<1>6. /\ Marked(i) \in Rows /\ Len(Marked(i)) = Len(rows)
      /\ Marked(i)[i] = Started(rows[i])
      /\ \A j \in 1 .. Len(rows) : j # i => Marked(i)[j] = rows[j]
  BY <1>4, <1>5, PutRow
<1>. QED BY <1>5, <1>6 DEF n

LEMMA Quotas ==
  ASSUME JobQueueAssumption, NEW a \in Nat
  PROVE  /\ MaxAttempts * a \in Nat
         /\ MaxAttempts * (a + 1) = MaxAttempts * a + MaxAttempts
  BY DEF JobQueueAssumption

LEMMA Tables ==
  ASSUME TypeOK, NEW p \in Processes
  PROVE  Table(p) \in Rows
  BY DEF Table, InTx, TypeOK, Transaction

-----------------------------------------------------------------------------
(* The steps that leave the table, the claims and the counts as they are. *)

LEMMA Unmoved ==
  ASSUME IInv, UNCHANGED <<rows, held, asked, starts, lost, up>>,
         \A w \in Workers : Handling(w)' = Handling(w)
  PROVE  Marks' /\ Apart' /\ Covered' /\ BoundedStarts' /\ RunningIsRun'
  BY DEF IInv, Marks, Apart, Covered, Quota, BoundedStarts, RunningIsRun, Runners, Handling

LEMMA TurnsOfNoJob ==
  ASSUME JobQueueAssumption, IInv, NEW w \in Workers,
         Leave(w) \/ PollDies(w) \/ Idle(w) \/ ClaimFails(w)
  PROVE  IInv'
<1>1. UNCHANGED <<rows, held, asked, starts, lost, up, stopped, retrying>> /\ pc[w] = "poll"
  BY DEF Leave, PollDies, Idle, ClaimFails, Polls, processes, history
<1>2. pc' \in [Workers -> {"poll", "handle", "off", "dead"}] /\ \A v \in Workers : Handling(v)' = Handling(v)
  BY <1>1 DEF IInv, TypeOK, Leave, PollDies, Idle, ClaimFails, Handling
<1>3. Marks' /\ Apart' /\ Covered' /\ BoundedStarts' /\ RunningIsRun'
  BY <1>1, <1>2, Unmoved
<1>4. stale' \in [Workers -> 0 .. MaxTries - 1]
  BY DEF Leave, PollDies, Idle, ClaimFails, RoomToTry, IInv, TypeOK, JobQueueAssumption
<1>5. CASE ~ClaimFails(w)
  <2>1. UNCHANGED tx
    BY <1>5 DEF Leave, PollDies, Idle
  <2>2. TypeOK' /\ Longer' /\ Asks'
    BY <1>1, <1>2, <1>4, <2>1 DEF IInv, TypeOK, Rows, Claimed, Longer, Asks, Table, InTx, Handling
  <2>. QED BY <1>3, <2>2 DEF IInv
<1>6. CASE ClaimFails(w)
  <2>1. PICK i \in DOMAIN rows : /\ tx = None
                                 /\ tx' = [proc |-> Proc(w), rows |-> Marked(i)]
                                 /\ Free(Proc(w))
    BY <1>6 DEF ClaimFails, Polls
  <2>2. Marked(i) \in Rows /\ Len(Marked(i)) = Len(rows)
    BY MarkedRow DEF IInv, TypeOK, Rows
  <2>3. tx' \in Transaction /\ tx' # None /\ tx'.proc = Proc(w) /\ tx'.rows = Marked(i)
    BY <2>1, <2>2 DEF Workers, Proc, Transaction, JobQueueAssumption
  <2>4. TypeOK'
    BY <1>1, <1>2, <1>4, <2>3 DEF IInv, TypeOK, Rows, Claimed, Handling
  <2>5. Longer'
    BY <1>1, <2>2, <2>3 DEF IInv, TypeOK, Rows, Longer
  <2>6. Asks'
    BY <1>1, <2>1, <2>2, <2>3 DEF IInv, TypeOK, Rows, Asks, Table, InTx, Free
  <2>. QED BY <1>3, <2>4, <2>5, <2>6 DEF IInv
<1>. QED BY <1>5, <1>6

-----------------------------------------------------------------------------
(* The steps that rewrite the table and no worker. *)

\* A row that is put in the place of another keeps the bounds, if it is the same or
\* deleted, or pending where a failed one was and asked for once more.
Succeeds(new, old, i) ==
  \/ new = old
  \/ new.status = "deleted"
  \/ new.status = "pending" /\ old.status = "failed" /\ asked'[i] = asked[i] + 1

Adds(new, i) == new.status = "pending" /\ new.attempts = 0 /\ asked'[i] = asked[i] + 1

Rewrites(p, table) ==
  /\ Store(p, table)
  /\ Len(Table(p)) <= Len(table)
  /\ UNCHANGED <<workers, processes, starts, lost>>
  /\ asked' \in [Ids -> Nat] /\ \A i \in Ids : asked'[i] >= asked[i]
  /\ ~InTx(p) => /\ \A i \in 1 .. Len(rows) : Succeeds(table[i], rows[i], i)
                 /\ \A i \in Len(rows) + 1 .. Len(table) : Adds(table[i], i)

LEMMA RewritesType ==
  ASSUME JobQueueAssumption, IInv, NEW p \in Processes, NEW table \in Rows, Rewrites(p, table),
         retrying' \in [Processes -> Ids \cup {None}]
  PROVE  /\ TypeOK' /\ Longer' /\ Len(rows) <= Len(rows')
         /\ \A q \in Processes : InTx(q)' = InTx(q) /\ Len(Table(q)) <= Len(Table(q)')
         /\ IF InTx(p) THEN rows' = rows ELSE rows' = table /\ tx = None
<1>. USE DEF IInv, Rewrites, workers, processes
<1>1. CASE InTx(p)
  <2>1. rows' = rows /\ tx' = [tx EXCEPT !.rows = table] /\ tx # None
    BY <1>1 DEF Store, InTx
  <2>2. tx' \in Transaction /\ tx'.proc = tx.proc /\ tx'.rows = table /\ tx' # None
    BY <2>1 DEF TypeOK, Transaction, JobQueueAssumption
  <2>3. TypeOK'
    BY <2>1, <2>2 DEF TypeOK, Claimed
  <2>4. InTx(p)' /\ Table(p) = tx.rows /\ Table(p)' = table
    BY <1>1, <2>1, <2>2 DEF InTx, Table
  <2>5. \A q \in Processes : InTx(q)' = InTx(q)
    BY <2>1, <2>2 DEF InTx
  <2>6. \A q \in Processes : Len(Table(q)) <= Len(Table(q)')
    <3>. TAKE q \in Processes
    <3>1. CASE InTx(q)
      BY <1>1, <2>4, <3>1, <2>1, <2>2, <2>5 DEF InTx, Table
    <3>2. CASE ~InTx(q)
      BY <2>1, <2>5, <3>2 DEF Table, TypeOK, Rows
    <3>. QED BY <3>1, <3>2
  <2>7. Longer'
    BY <2>1, <2>2, <2>4 DEF Longer, TypeOK, Rows
  <2>. QED BY <1>1, <2>1, <2>3, <2>5, <2>6, <2>7 DEF TypeOK, Rows
<1>2. CASE ~InTx(p)
  <2>1. rows' = table /\ tx = None /\ tx' = None /\ Len(rows) <= Len(rows') /\ Table(p) = rows
    BY <1>2 DEF Store, Table
  <2>2. \A w \in Workers : held[w] \in Claimed => (held[w] \in Claimed)'
    BY <2>1 DEF Claimed, TypeOK, Rows
  <2>3. held' \in [Workers -> Claimed' \cup {None}]
    BY <2>2 DEF TypeOK
  <2>. QED BY <1>2, <2>1, <2>2, <2>3 DEF TypeOK, Longer, InTx, Table
<1>. QED BY <1>1, <1>2

\* Where the table is rewritten, what the invariant says of its rows stays true.
LEMMA RewritesRows ==
  ASSUME JobQueueAssumption, IInv, NEW p \in Processes, NEW table \in Rows, Rewrites(p, table),
         retrying' \in [Processes -> Ids \cup {None}]
  PROVE  Marks' /\ Apart' /\ Covered' /\ BoundedStarts' /\ RunningIsRun'
<1>1. /\ UNCHANGED <<pc, held, up, starts, lost>>
      /\ asked' \in [Ids -> Nat] /\ starts \in [Ids -> Nat] /\ \A i \in Ids : asked'[i] >= asked[i]
      /\ asked \in [Ids -> Nat]
  BY DEF Rewrites, workers, processes, IInv, TypeOK
<1>2. Len(rows) <= Len(rows') /\ rows \in Rows /\ rows' \in Rows
  BY RewritesType DEF IInv, TypeOK
<1>3. 1 .. Len(rows') \subseteq Ids /\ 1 .. Len(rows) \subseteq 1 .. Len(rows')
  BY <1>2 DEF Rows, Ids
<1>4. \A i \in Ids : Quota(i) \in Nat /\ Quota(i)' \in Nat /\ Quota(i)' >= Quota(i)
  <2>. TAKE i \in Ids
  <2>1. asked[i] \in Nat /\ asked'[i] \in Nat /\ asked'[i] >= asked[i]
    BY <1>1
  <2>. DEFINE a == asked[i]
              b == asked'[i]
  <2>2. MaxAttempts * a \in Nat /\ MaxAttempts * b \in Nat /\ MaxAttempts * b >= MaxAttempts * a
    <3>. HIDE DEF a, b
    <3>1. \A m \in 1 .. 100, x, y \in Nat : x >= y => m * x >= m * y /\ m * x \in Nat
      BY Z3
    <3>. QED BY <2>1, <3>1 DEF JobQueueAssumption, a, b
  <2>. QED BY <2>2 DEF Quota
<1>5. BoundedStarts'
  <2>. SUFFICES ASSUME NEW i \in Ids PROVE starts[i] <= Quota(i)'
    BY <1>1 DEF BoundedStarts, Quota
  <2>1. starts[i] <= Quota(i) /\ starts[i] \in Nat
    BY <1>1 DEF IInv, BoundedStarts, Quota
  <2>. QED BY <1>4, <2>1
<1>6. \A i \in 1 .. Len(rows) :
        \/ rows'[i] = rows[i]
        \/ rows'[i].status = "deleted"
        \/ rows'[i].status = "pending" /\ rows[i].status = "failed" /\ asked'[i] = asked[i] + 1
  BY RewritesType DEF Rewrites, Succeeds
<1>7. \A i \in Len(rows) + 1 .. Len(rows') :
        rows'[i].status = "pending" /\ rows'[i].attempts = 0 /\ asked'[i] = asked[i] + 1
  <2>1. CASE InTx(p)
    BY <1>2, <2>1, RewritesType DEF Rows
  <2>2. CASE ~InTx(p)
    BY <2>2, RewritesType DEF Rewrites, Adds
  <2>. QED BY <2>1, <2>2
<1>8. Marks' /\ Apart'
  <2>1. \A w \in Workers : Handling(w) => held[w].id \in 1 .. Len(rows)
    BY DEF IInv, TypeOK, Handling, Claimed
  <2>2. \A w \in Workers : Handling(w) =>
          rows'[held[w].id] = rows[held[w].id] \/ rows'[held[w].id].status = "deleted"
    <3>. TAKE w \in Workers
    <3>. HAVE Handling(w)
    <3>1. rows[held[w].id].status \in {"deleted", "running"}
      BY DEF IInv, Marks
    <3>. QED BY <1>6, <2>1, <3>1
  <2>3. Marks'
    BY <1>1, <2>2 DEF IInv, Marks, Handling
  <2>. QED BY <1>1, <2>3 DEF IInv, Apart, Handling
<1>9. RunningIsRun'
  <2>. SUFFICES ASSUME NEW i \in 1 .. Len(rows'), rows'[i].status = "running", i \notin lost
                PROVE  Runners(i)' # {}
    <3>1. DOMAIN rows' = 1 .. Len(rows') /\ lost' = lost
      BY <1>1, <1>2 DEF Rows
    <3>. QED BY <3>1 DEF RunningIsRun
  <2>1. i \in 1 .. Len(rows) /\ rows[i].status = "running"
    BY <1>2, <1>6, <1>7 DEF Rows
  <2>2. Runners(i) # {}
    BY <1>2, <2>1 DEF IInv, RunningIsRun, Rows
  <2>. QED BY <1>1, <2>2 DEF Runners
<1>10. Covered'
  <2>. SUFFICES ASSUME NEW i \in 1 .. Len(rows')
                PROVE  /\ rows'[i].status \in {"pending", "running"}
                            => starts[i] + MaxAttempts - rows'[i].attempts <= Quota(i)'
                       /\ rows'[i].status = "pending" => starts[i] + 1 <= Quota(i)'
    BY <1>1 DEF Covered, Quota
  <2>1. i \in Ids /\ MaxAttempts \in 1 .. 100 /\ starts[i] \in Nat /\ starts[i] <= Quota(i)
    BY <1>1, <1>3 DEF JobQueueAssumption, IInv, BoundedStarts, Quota
  <2>2. Quota(i) \in Nat /\ Quota(i)' \in Nat /\ Quota(i)' >= Quota(i)
    BY <1>4, <2>1
  <2>3. rows'[i].attempts \in Nat
    <3>1. rows'[i] \in Row
      BY <1>2 DEF Rows
    <3>. QED BY <3>1 DEF Row
  <2>4. asked'[i] = asked[i] + 1 => Quota(i)' = Quota(i) + MaxAttempts
    BY <1>1, <2>1, Quotas DEF Quota
  <2>5. CASE i \in 1 .. Len(rows) /\ rows'[i] = rows[i]
    <3>1. /\ rows[i].status \in {"pending", "running"} => starts[i] + MaxAttempts - rows[i].attempts <= Quota(i)
          /\ rows[i].status = "pending" => starts[i] + 1 <= Quota(i)
      BY <2>5 DEF IInv, Covered
    <3>. DEFINE q == Quota(i)
                r == Quota(i)'
                n == rows[i].attempts
                u == rows[i].status
    <3>2. /\ u \in {"pending", "running"} => starts[i] + MaxAttempts - n <= r
          /\ u = "pending" => starts[i] + 1 <= r
      <4>1. n \in Nat /\ q \in Nat /\ r \in Nat /\ q <= r
        BY <2>2, <2>3, <2>5
      <4>2. /\ u \in {"pending", "running"} => starts[i] + MaxAttempts - n <= q
            /\ u = "pending" => starts[i] + 1 <= q
        BY <3>1
      <4>. HIDE DEF q, r, n, u
      <4>. QED BY <2>1, <4>1, <4>2
    <3>. HIDE DEF Quota
    <3>. QED BY <2>5, <3>2
  <2>6. CASE rows'[i].status = "deleted"
    BY <2>6
  <2>7. CASE rows'[i].status = "pending" /\ asked'[i] = asked[i] + 1
    <3>1. \A m \in 1 .. 100, s, n, q \in Nat : s <= q => s + m - n <= q + m /\ s + 1 <= q + m
      OBVIOUS
    <3>2. Quota(i)' = Quota(i) + MaxAttempts
      BY <2>4, <2>7
    <3>. DEFINE q == Quota(i)
                r == Quota(i)'
                n == rows'[i].attempts
    <3>3. starts[i] \in Nat /\ n \in Nat /\ q \in Nat /\ starts[i] <= q /\ r = q + MaxAttempts
      BY <2>1, <2>2, <2>3, <3>2
    <3>4. starts[i] + MaxAttempts - n <= r /\ starts[i] + 1 <= r
      <4>. HIDE DEF q, r, n
      <4>. QED BY ONLY <2>1, <3>1, <3>3
    <3>. QED BY <3>4
  <2>. QED BY <1>2, <1>6, <1>7, <2>5, <2>6, <2>7 DEF Rows
<1>. QED BY <1>5, <1>8, <1>9, <1>10

\* The jobs that queue_retry() is about to retry stay failed.
LEMMA RewritesAsks ==
  ASSUME JobQueueAssumption, IInv, OneRetries, NEW p \in Processes, NEW table \in Rows, Rewrites(p, table),
         retrying' \in [Processes -> Ids \cup {None}],
         \A q \in Processes : retrying'[q] = None \/ (q # p /\ retrying'[q] = retrying[q]),
         p \in Retriers \/ \A i \in 1 .. Len(Table(p)) : Table(p)[i] = table[i] \/ table[i].status = "deleted"
  PROVE  IInv'
<1>1. Asks'
  <2>. SUFFICES ASSUME NEW q \in Processes, retrying'[q] # None
                PROVE  /\ q \in Retriers /\ retrying'[q] \in DOMAIN Table(q)'
                       /\ ~InTx(q)' => rows'[retrying'[q]].status \in {"failed", "deleted"}
    BY DEF Asks
  <2>1. q # p /\ retrying'[q] = retrying[q]
    OBVIOUS
  <2>2. /\ q \in Retriers /\ retrying[q] \in DOMAIN Table(q)
        /\ ~InTx(q) => rows[retrying[q]].status \in {"failed", "deleted"}
    BY <2>1 DEF IInv, Asks
  <2>3. retrying'[q] \in DOMAIN Table(q)'
    <3>1. TypeOK /\ TypeOK' /\ Len(Table(q)) <= Len(Table(q)')
      BY RewritesType DEF IInv
    <3>2. Table(q) \in Rows /\ (Table(q) \in Rows)'
      BY <3>1 DEF Table, InTx, TypeOK, Transaction
    <3>. QED BY <2>1, <2>2, <3>1, <3>2 DEF Rows
  <2>4. p \notin Retriers
    BY <2>1, <2>2 DEF OneRetries
  <2>5. ASSUME ~InTx(q)' PROVE rows'[retrying'[q]].status \in {"failed", "deleted"}
    <3>1. ~InTx(q) /\ rows[retrying[q]].status \in {"failed", "deleted"}
      BY <2>2, <2>5, RewritesType
    <3>2. CASE InTx(p)
      BY <2>1, <3>1, <3>2, RewritesType
    <3>3. CASE ~InTx(p)
      <4>1. rows' = table /\ Table(p) = rows /\ Table(q) = rows /\ rows \in Rows
        BY <3>1, <3>3, RewritesType DEF Table, IInv, TypeOK
      <4>2. retrying[q] \in 1 .. Len(rows)
        BY <2>2, <4>1 DEF Rows
      <4>. QED BY <2>1, <2>4, <3>1, <4>1, <4>2
    <3>. QED BY <3>2, <3>3
  <2>. QED BY <2>2, <2>1, <2>3, <2>5
<1>. QED BY <1>1, RewritesType, RewritesRows DEF IInv

LEMMA SubmitSteps ==
  ASSUME JobQueueAssumption, IInv, OneRetries, NEW p \in Processes, Submit(p)
  PROVE  IInv'
<1>. DEFINE new == New
            table == Append(Table(p), new)
            i == Len(Table(p)) + 1
<1>1. Table(p) \in Rows /\ TypeOK /\ retrying[p] = None
  BY Tables DEF IInv, Submit, Free
<1>2. new \in Row /\ new.status = "pending" /\ new.attempts = 0
  BY DEF Row, New
<1>3. i \in Ids /\ asked' = [asked EXCEPT ![i] = @ + 1]
  BY DEF Submit
<1>4. /\ table \in Rows /\ Len(table) = Len(Table(p)) + 1
      /\ \A j \in 1 .. Len(Table(p)) : table[j] = Table(p)[j]
      /\ table[i] = new
  <2>. HIDE DEF new
  <2>. QED BY <1>1, <1>2, <1>3, JobQueueAssumption DEF Rows, Ids, JobQueueAssumption
<1>5. asked' \in [Ids -> Nat] /\ (\A j \in Ids : asked'[j] >= asked[j]) /\ asked'[i] = asked[i] + 1
  BY <1>1, <1>3 DEF TypeOK
<1>6. Store(p, table) /\ UNCHANGED <<workers, processes, retrying, starts, lost>>
  BY DEF Submit
<1>. HIDE DEF new, table
<1>7. Rewrites(p, table)
  <2>1. CASE InTx(p)
    BY <1>1, <1>4, <1>5, <1>6, <2>1 DEF Rewrites, Rows
  <2>2. CASE ~InTx(p)
    <3>1. Table(p) = rows
      BY <2>2 DEF Table
    <3>2. \A j \in 1 .. Len(rows) : Succeeds(table[j], rows[j], j)
      BY <1>4, <3>1 DEF Succeeds
    <3>3. \A j \in Len(rows) + 1 .. Len(table) : Adds(table[j], j)
      BY <1>1, <1>2, <1>4, <1>5, <3>1 DEF Adds, Rows
    <3>. QED BY <1>1, <1>4, <1>5, <1>6, <3>1, <3>2, <3>3 DEF Rewrites, Rows
  <2>. QED BY <2>1, <2>2
<1>. QED BY <1>1, <1>4, <1>6, <1>7, RewritesAsks DEF TypeOK

LEMMA ClearSteps ==
  ASSUME JobQueueAssumption, IInv, OneRetries, NEW p \in Processes, ClearAll(p)
  PROVE  IInv'
<1>. DEFINE table == [i \in DOMAIN Table(p) |-> [Table(p)[i] EXCEPT !.status = "deleted"]]
<1>1. Table(p) \in Rows /\ TypeOK /\ retrying[p] = None
  BY Tables DEF IInv, ClearAll, Free
<1>2. DOMAIN Table(p) = 1 .. Len(Table(p)) /\ Len(Table(p)) \in Nat /\ Len(Table(p)) <= MaxJobs
  BY <1>1 DEF Rows
<1>3. \A i \in 1 .. Len(Table(p)) : table[i] \in Row /\ table[i].status = "deleted"
  <2>. TAKE i \in 1 .. Len(Table(p))
  <2>1. Table(p)[i] \in Row
    BY <1>1 DEF Rows
  <2>. QED BY <1>2, <2>1, RowUpdates DEF Statuses
<1>4. table \in Rows /\ Len(table) = Len(Table(p))
  <2>1. table \in [1 .. Len(Table(p)) -> Row]
    BY <1>2, <1>3
  <2>. HIDE DEF table
  <2>. QED BY <1>2, <2>1 DEF Rows
<1>5. Store(p, table) /\ UNCHANGED <<workers, processes, retrying, history>>
  BY DEF ClearAll
<1>. HIDE DEF table
<1>6. Rewrites(p, table)
  <2>1. \A i \in 1 .. Len(Table(p)) : Succeeds(table[i], Table(p)[i], i)
    BY <1>3 DEF Succeeds
  <2>2. ~InTx(p) => Table(p) = rows
    BY DEF Table
  <2>. QED BY <1>1, <1>2, <1>4, <1>5, <2>1, <2>2 DEF Rewrites, history, TypeOK
<1>. QED BY <1>1, <1>3, <1>4, <1>5, <1>6, RewritesAsks DEF TypeOK

LEMMA RetryReadSteps ==
  ASSUME JobQueueAssumption, IInv, NEW p \in Processes, RetryRead(p)
  PROVE  IInv'
<1>1. PICK i \in DOMAIN Table(p) : /\ Table(p)[i].status = "failed" /\ p \in Retriers
                                   /\ retrying' = [retrying EXCEPT ![p] = i]
  BY DEF RetryRead
<1>2. UNCHANGED <<rows, tx, workers, processes, history>>
  BY DEF RetryRead
<1>3. i \in Ids
  BY <1>1, Tables DEF IInv, Rows, Ids
<1>4. Marks' /\ Apart' /\ Covered' /\ BoundedStarts' /\ RunningIsRun'
  BY <1>2, Unmoved DEF workers, processes, history, Handling
<1>5. TypeOK' /\ Longer'
  BY <1>1, <1>2, <1>3 DEF IInv, TypeOK, Longer, Claimed, workers, processes, history
<1>6. \A q \in Processes : Table(q)' = Table(q) /\ InTx(q)' = InTx(q)
  BY <1>2 DEF Table, InTx
<1>7. ~InTx(p) => rows[i].status = "failed"
  BY <1>1 DEF Table
<1>8. retrying \in [Processes -> Ids \cup {None}]
  BY DEF IInv, TypeOK
<1>9. Asks'
  BY <1>1, <1>2, <1>6, <1>7, <1>8 DEF IInv, Asks
<1>. QED BY <1>4, <1>5, <1>9 DEF IInv

\* One row is made pending, by the form or by the second statement of queue_retry().
LEMMA OneRetried ==
  ASSUME JobQueueAssumption, IInv, OneRetries, NEW p \in Retriers, p \in Processes,
         NEW table \in Rows, Len(table) = Len(Table(p)), NEW i \in 1 .. Len(table),
         \A j \in 1 .. Len(table) : j # i => table[j] = Table(p)[j],
         table[i].status = IF Table(p)[i].status = "deleted" THEN "deleted" ELSE "pending",
         ~InTx(p) => rows[i].status \in {"failed", "deleted"},
         Store(p, table), asked' = [asked EXCEPT ![i] = @ + 1],
         UNCHANGED <<workers, processes, starts, lost>>,
         retrying' \in [Processes -> Ids \cup {None}], retrying'[p] = None,
         \A q \in Processes : q # p => retrying'[q] = retrying[q]
  PROVE  IInv'
<1>1. Table(p) \in Rows /\ TypeOK
  BY Tables DEF IInv
<1>2. i \in Ids
  BY DEF Ids, Rows
<1>3. asked' \in [Ids -> Nat] /\ (\A j \in Ids : asked'[j] >= asked[j]) /\ asked'[i] = asked[i] + 1
  BY <1>1, <1>2 DEF TypeOK
<1>4. Rewrites(p, table)
  <2>1. ~InTx(p) => Table(p) = rows
    BY DEF Table
  <2>2. ASSUME ~InTx(p), NEW j \in 1 .. Len(rows) PROVE Succeeds(table[j], rows[j], j)
    <3>1. CASE j = i
      BY <1>3, <2>1, <2>2, <3>1 DEF Succeeds
    <3>2. CASE j # i
      BY <2>1, <2>2, <3>2 DEF Succeeds
    <3>. QED BY <3>1, <3>2
  <2>. QED BY <1>1, <1>3, <2>1, <2>2 DEF Rewrites, Rows
<1>. QED BY <1>4, RewritesAsks

LEMMA RetryOneSteps ==
  ASSUME JobQueueAssumption, IInv, OneRetries, NEW p \in Processes, RetryOne(p)
  PROVE  IInv'
<1>1. PICK i \in DOMAIN Table(p) : /\ Table(p)[i].status = "failed"
                                   /\ Store(p, Set(Table(p), i, "pending"))
                                   /\ asked' = [asked EXCEPT ![i] = @ + 1]
  BY DEF RetryOne, OneRetries
<1>2. /\ p \in Retriers /\ retrying[p] = None
      /\ UNCHANGED <<workers, processes, retrying, starts, lost>>
  BY DEF RetryOne, Free
<1>3. Table(p) \in Rows /\ retrying \in [Processes -> Ids \cup {None}]
  BY Tables DEF IInv, TypeOK
<1>4. i \in 1 .. Len(Table(p))
  BY <1>1, <1>3 DEF Rows
<1>5. ~InTx(p) => Table(p) = rows
  BY DEF Table
<1>. DEFINE table == Set(Table(p), i, "pending")
<1>6. /\ table \in Rows /\ Len(table) = Len(Table(p))
      /\ \A j \in 1 .. Len(Table(p)) : j # i => table[j] = Table(p)[j]
      /\ table[i].status = IF Table(p)[i].status = "deleted" THEN "deleted" ELSE "pending"
  <2>1. "pending" \in Statuses
    BY DEF Statuses
  <2>. DEFINE t == Table(p)
  <2>2. t \in Rows /\ i \in 1 .. Len(t)
    BY <1>3, <1>4
  <2>. HIDE DEF t
  <2>3. /\ Set(t, i, "pending") \in Rows /\ Len(Set(t, i, "pending")) = Len(t)
        /\ \A j \in 1 .. Len(t) : j # i => Set(t, i, "pending")[j] = t[j]
        /\ Set(t, i, "pending")[i].status = IF t[i].status = "deleted" THEN "deleted" ELSE "pending"
    BY ONLY <2>1, <2>2, SetRow
  <2>. QED BY <2>3 DEF t
<1>7. Store(p, table)
  BY <1>1
<1>8. /\ retrying' \in [Processes -> Ids \cup {None}] /\ retrying'[p] = None
      /\ \A q \in Processes : q # p => retrying'[q] = retrying[q]
  BY <1>2, <1>3
<1>9. ~InTx(p) => rows[i].status \in {"failed", "deleted"}
  BY <1>1, <1>5
<1>. HIDE DEF table
<1>10. i \in 1 .. Len(table) /\ \A j \in 1 .. Len(table) : j # i => table[j] = Table(p)[j]
  BY <1>4, <1>6
<1>. QED BY <1>1, <1>2, <1>6, <1>7, <1>8, <1>9, <1>10, OneRetried

\* The second statement of queue_retry() makes a row pending, if it is still there.
LEMMA ResetRow ==
  ASSUME NEW table \in Rows, NEW i \in 1 .. Len(table)
  PROVE  /\ Reset(table, i) \in Rows
         /\ Len(Reset(table, i)) = Len(table)
         /\ \A j \in 1 .. Len(table) : j # i => Reset(table, i)[j] = table[j]
         /\ Reset(table, i)[i] = IF table[i].status = "deleted" THEN table[i] ELSE New
<1>1. New \in Row
  BY DEF New, Row
<1>2. CASE table[i].status = "deleted"
  BY <1>2 DEF Reset
<1>3. CASE table[i].status # "deleted"
  <2>1. Reset(table, i) = Put(table, i, New)
    BY <1>3 DEF Reset, Put
  <2>. QED BY <1>1, <1>3, <2>1, PutRow
<1>. QED BY <1>2, <1>3

LEMMA RetryWriteSteps ==
  ASSUME JobQueueAssumption, IInv, OneRetries, NEW p \in Processes, RetryWrite(p)
  PROVE  IInv'
<1>. DEFINE i == retrying[p]
            table == Reset(Table(p), i)
<1>1. /\ i # None /\ retrying' = [retrying EXCEPT ![p] = None]
      /\ UNCHANGED <<workers, processes, starts, lost>>
  BY DEF RetryWrite
<1>2. /\ p \in Retriers /\ i \in DOMAIN Table(p)
      /\ ~InTx(p) => rows[i].status \in {"failed", "deleted"}
  BY <1>1 DEF IInv, Asks
<1>3. Table(p) \in Rows /\ retrying \in [Processes -> Ids \cup {None}]
  BY Tables DEF IInv, TypeOK
<1>4. /\ retrying' \in [Processes -> Ids \cup {None}] /\ retrying'[p] = None
      /\ \A q \in Processes : q # p => retrying'[q] = retrying[q]
  BY <1>1, <1>3
<1>5. CASE UNCHANGED <<rows, tx, asked>>
  <2>1. Marks' /\ Apart' /\ Covered' /\ BoundedStarts' /\ RunningIsRun'
    BY <1>1, <1>5, Unmoved DEF workers, processes, Handling
  <2>2. TypeOK' /\ Longer'
    BY <1>1, <1>4, <1>5 DEF IInv, TypeOK, Longer, Claimed, workers, processes
  <2>3. \A q \in Processes : Table(q)' = Table(q) /\ InTx(q)' = InTx(q)
    BY <1>5 DEF Table, InTx
  <2>4. Asks'
    BY <1>4, <1>5, <2>3 DEF IInv, Asks
  <2>. QED BY <2>1, <2>2, <2>4 DEF IInv
<1>6. CASE Store(p, table) /\ asked' = [asked EXCEPT ![i] = @ + 1]
  <2>1. i \in 1 .. Len(Table(p))
    BY <1>2, <1>3 DEF Rows
  <2>. HIDE DEF i
  <2>2. /\ table \in Rows /\ Len(table) = Len(Table(p))
        /\ \A j \in 1 .. Len(Table(p)) : j # i => table[j] = Table(p)[j]
        /\ table[i].status = IF Table(p)[i].status = "deleted" THEN "deleted" ELSE "pending"
    BY <1>3, <2>1, ResetRow DEF New
  <2>. HIDE DEF table
  <2>. QED BY <1>1, <1>2, <1>4, <1>6, <2>1, <2>2, OneRetried
<1>. QED BY <1>5, <1>6 DEF RetryWrite

LEMMA RetryAllSteps ==
  ASSUME JobQueueAssumption, IInv, OneRetries, NEW p \in Processes, RetryAll(p)
  PROVE  IInv'
<1>. DEFINE table == [i \in DOMAIN Table(p) |-> IF i \in Failed(Table(p))
                                                  THEN [Table(p)[i] EXCEPT !.status = "pending"]
                                                  ELSE Table(p)[i]]
<1>1. Table(p) \in Rows /\ TypeOK /\ retrying[p] = None /\ p \in Retriers
  BY Tables DEF IInv, RetryAll, Free
<1>2. DOMAIN Table(p) = 1 .. Len(Table(p)) /\ Len(Table(p)) \in Nat /\ Len(Table(p)) <= MaxJobs
  BY <1>1 DEF Rows
<1>3. /\ Store(p, table) /\ UNCHANGED <<workers, processes, retrying, starts, lost>>
      /\ asked' = [i \in Ids |-> IF i \in Failed(Table(p)) THEN asked[i] + 1 ELSE asked[i]]
  BY DEF RetryAll
<1>4. \A i \in 1 .. Len(Table(p)) :
        /\ table[i] \in Row
        /\ IF i \in Failed(Table(p)) THEN table[i].status = "pending" ELSE table[i] = Table(p)[i]
  <2>. TAKE i \in 1 .. Len(Table(p))
  <2>1. Table(p)[i] \in Row
    BY <1>1 DEF Rows
  <2>. QED BY <1>2, <2>1, RowUpdates DEF Statuses
<1>5. table \in Rows /\ Len(table) = Len(Table(p))
  <2>1. table \in [1 .. Len(Table(p)) -> Row]
    BY <1>2, <1>4
  <2>. HIDE DEF table
  <2>. QED BY <1>2, <2>1 DEF Rows
<1>. HIDE DEF table
<1>6. asked' \in [Ids -> Nat] /\ (\A j \in Ids : asked'[j] >= asked[j])
  BY <1>1, <1>3 DEF TypeOK
<1>7. \A i \in 1 .. Len(Table(p)) : Succeeds(table[i], Table(p)[i], i)
  <2>. TAKE i \in 1 .. Len(Table(p))
  <2>1. CASE i \in Failed(Table(p))
    <3>1. i \in Ids /\ Table(p)[i].status = "failed"
      BY <1>2, <2>1, JobQueueAssumption DEF Failed, Ids, JobQueueAssumption
    <3>. QED BY <1>3, <1>4, <2>1, <3>1 DEF Succeeds
  <2>2. CASE i \notin Failed(Table(p))
    BY <1>4, <2>2 DEF Succeeds
  <2>. QED BY <2>1, <2>2
<1>8. Rewrites(p, table)
  <2>1. ~InTx(p) => Table(p) = rows
    BY DEF Table
  <2>. QED BY <1>1, <1>2, <1>3, <1>5, <1>6, <1>7, <2>1 DEF Rewrites, TypeOK
<1>. QED BY <1>1, <1>3, <1>5, <1>8, RewritesAsks DEF TypeOK

-----------------------------------------------------------------------------
(* The runs of a job. *)

LEMMA ClaimSteps ==
  ASSUME JobQueueAssumption, IInv, NEW w \in Workers, Claim(w)
  PROVE  IInv'
<1>1. PICK i \in DOMAIN rows :
        /\ Polls(w) /\ tx = None /\ IsFirst(i, rows)
        /\ rows' = Marked(i)
        /\ pc' = [pc EXCEPT ![w] = "handle"]
        /\ held' = [held EXCEPT ![w] = [id |-> i, attempts |-> rows[i].attempts]]
        /\ starts' = [starts EXCEPT ![i] = @ + 1]
        /\ UNCHANGED <<tx, stale, processes, retrying, asked, lost>>
  BY DEF Claim
<1>2. /\ TypeOK /\ rows \in Rows /\ i \in 1 .. Len(rows) /\ i \in Ids
      /\ rows[i].status = "pending" /\ rows[i].attempts \in Nat
  <2>1. TypeOK /\ rows \in Rows /\ i \in 1 .. Len(rows) /\ rows[i].status = "pending"
    BY <1>1 DEF IInv, TypeOK, Rows, IsFirst, Pending
  <2>2. rows[i] \in Row
    BY <2>1 DEF Rows
  <2>. QED BY <2>1, <2>2, JobQueueAssumption DEF Rows, Row, Ids, JobQueueAssumption
<1>3. /\ rows' \in Rows /\ Len(rows') = Len(rows)
      /\ rows'[i].status = "running" /\ rows'[i].attempts = rows[i].attempts + 1
      /\ \A j \in 1 .. Len(rows) : j # i => rows'[j] = rows[j]
  BY <1>1, <1>2, MarkedRow
<1>4. /\ \A v \in Workers : Handling(v)' <=> v = w \/ Handling(v)
      /\ held'[w].id = i /\ held'[w].attempts = rows[i].attempts
      /\ \A v \in Workers : v # w => held'[v] = held[v]
      /\ ~Handling(w)
  BY <1>1, <1>2 DEF TypeOK, Handling, Polls
<1>5. \A v \in Workers : Handling(v) => held[v].id \in 1 .. Len(rows) /\ held[v].id # i
  <2>. TAKE v \in Workers
  <2>. HAVE Handling(v)
  <2>1. held[v].id \in 1 .. Len(rows)
    BY <1>2 DEF TypeOK, Handling, Claimed
  <2>2. rows[held[v].id].status \in {"deleted", "running"}
    BY DEF IInv, Marks
  <2>. QED BY <1>2, <2>1, <2>2
<1>6. TypeOK'
  <2>1. [id |-> i, attempts |-> rows[i].attempts] \in Claimed /\ Claimed' = Claimed
    BY <1>2, <1>3 DEF Claimed
  <2>2. held' \in [Workers -> Claimed' \cup {None}]
    BY <1>1, <1>2, <2>1 DEF TypeOK
  <2>3. \A v \in Workers : IF pc'[v] = "handle" THEN held'[v] \in Claimed' ELSE held'[v] = None
    BY <1>1, <1>2, <2>1 DEF TypeOK
  <2>4. pc' \in [Workers -> {"poll", "handle", "off", "dead"}] /\ starts' \in [Ids -> Nat]
    BY <1>1, <1>2 DEF TypeOK
  <2>. HIDE DEF Claimed
  <2>. QED BY <1>1, <1>2, <1>3, <2>2, <2>3, <2>4 DEF TypeOK, processes
<1>7. Marks'
  <2>1. Proc(w) \in up
    BY <1>1 DEF Polls, Free
  <2>2. \A v \in Workers : Handling(v)' /\ v # w => /\ Proc(v) \in up
                                                    /\ rows'[held'[v].id] = rows[held[v].id]
                                                    /\ held'[v] = held[v]
    BY <1>3, <1>4, <1>5 DEF IInv, Marks
  <2>3. UNCHANGED up
    BY <1>1 DEF processes
  <2>. QED BY <1>3, <1>4, <2>1, <2>2, <2>3 DEF IInv, Marks
<1>8. Apart'
  BY <1>4, <1>5 DEF IInv, Apart
<1>9. Asks' /\ Longer'
  <2>1. \A j \in DOMAIN rows : j \in DOMAIN rows' /\ (rows[j].status \in {"failed", "deleted"} => rows'[j] = rows[j])
    BY <1>2, <1>3 DEF Rows
  <2>2. UNCHANGED <<tx, retrying>>
    BY <1>1
  <2>3. \A q \in Processes : ~InTx(q)' /\ ~InTx(q) /\ Table(q)' = rows' /\ Table(q) = rows
    BY <1>1 DEF InTx, Table
  <2>. QED BY <1>1, <2>1, <2>2, <2>3 DEF IInv, Asks, Longer
<1>10. BoundedStarts' /\ Covered'
  <2>1. /\ starts[i] \in Nat /\ MaxAttempts \in 1 .. 100
        /\ starts'[i] = starts[i] + 1 /\ \A j \in Ids : j # i => starts'[j] = starts[j]
    BY <1>1, <1>2, JobQueueAssumption DEF TypeOK, JobQueueAssumption
  <2>2. Quota(i) \in Nat /\ UNCHANGED asked
    BY <1>1, <1>2, Quotas DEF Quota, TypeOK
  <2>3. starts[i] + MaxAttempts - rows[i].attempts <= Quota(i) /\ starts[i] + 1 <= Quota(i)
    BY <1>2 DEF IInv, Covered
  <2>4. starts'[i] + MaxAttempts - rows'[i].attempts <= Quota(i) /\ starts'[i] <= Quota(i)
    <3>1. \A s, m, n, q \in Nat : s + m - n <= q => (s + 1) + m - (n + 1) <= q
      OBVIOUS
    <3>. QED BY <1>2, <1>3, <2>1, <2>2, <2>3, <3>1
  <2>5. BoundedStarts'
    BY <2>1, <2>2, <2>4 DEF IInv, BoundedStarts, Quota
  <2>6. Covered'
    <3>. SUFFICES ASSUME NEW j \in 1 .. Len(rows)
                  PROVE  /\ rows'[j].status \in {"pending", "running"}
                              => starts'[j] + MaxAttempts - rows'[j].attempts <= Quota(j)
                         /\ rows'[j].status = "pending" => starts'[j] + 1 <= Quota(j)
      BY <1>3, <2>2 DEF Covered, Quota
    <3>1. CASE j = i
      BY <1>3, <2>4, <3>1
    <3>2. CASE j # i
      <4>1. j \in Ids
        BY <1>2 DEF Rows, Ids
      <4>. QED BY <1>3, <2>1, <3>2, <4>1 DEF IInv, Covered
    <3>. QED BY <3>1, <3>2
  <2>. QED BY <2>5, <2>6
<1>11. RunningIsRun'
  <2>. SUFFICES ASSUME NEW j \in 1 .. Len(rows), rows'[j].status = "running", j \notin lost
                PROVE  Runners(j)' # {}
    BY <1>1, <1>3 DEF RunningIsRun, Rows
  <2>1. CASE j = i
    BY <1>4, <2>1 DEF Runners, Handling
  <2>2. CASE j # i
    <3>1. PICK v \in Workers : pc[v] = "handle" /\ held[v].id = j
      BY <1>2, <1>3, <2>2 DEF IInv, RunningIsRun, Runners, Rows
    <3>. QED BY <1>4, <3>1 DEF Runners, Handling
  <2>. QED BY <2>1, <2>2
<1>. QED BY <1>6, <1>7, <1>8, <1>9, <1>10, <1>11 DEF IInv

\* What is recorded is a status of its own, and pending only while a try is left.
LEMMA RecordSteps ==
  ASSUME JobQueueAssumption, IInv, NEW w \in Workers, NEW status \in {"completed", "failed", "pending"},
         Record(w, status), status = "pending" => held[w].attempts + 1 < MaxAttempts
  PROVE  IInv'
<1>. DEFINE p == Proc(w)
            i == held[w].id
            table == Set(Table(p), i, status)
<1>1. /\ Handling(w) /\ Store(p, table)
      /\ pc' = [pc EXCEPT ![w] = "poll"] /\ held' = [held EXCEPT ![w] = None]
      /\ lost' = IF InTx(p) THEN lost \cup {i} ELSE lost
      /\ UNCHANGED <<stale, processes, retrying, asked, starts>>
  BY DEF Record, Handling
<1>2. /\ TypeOK /\ Table(p) \in Rows /\ rows \in Rows /\ held[w] \in Claimed
      /\ i \in 1 .. Len(rows) /\ held[w].attempts \in Nat /\ p \in Processes
      /\ Len(rows) <= Len(Table(p))
  <2>1. p \in Processes /\ TypeOK /\ rows \in Rows /\ held[w] \in Claimed
    BY <1>1 DEF Workers, Proc, IInv, TypeOK, Handling
  <2>2. Len(rows) <= Len(Table(p))
    BY <2>1 DEF IInv, Longer, Table, InTx, Rows
  <2>. QED BY <2>1, <2>2, Tables DEF Claimed
<1>3. /\ table \in Rows /\ Len(table) = Len(Table(p))
      /\ \A j \in 1 .. Len(Table(p)) : /\ j # i => table[j] = Table(p)[j]
                                       /\ table[j].attempts = Table(p)[j].attempts
      /\ table[i].status = IF Table(p)[i].status = "deleted" THEN "deleted" ELSE status
  <2>1. i \in 1 .. Len(Table(p))
    BY <1>2 DEF Rows
  <2>2. status \in Statuses /\ Table(p) \in Rows
    BY <1>2 DEF Statuses
  <2>. HIDE DEF i, p
  <2>. QED BY <2>1, <2>2, SetRow
<1>4. /\ rows' \in Rows /\ Len(rows') = Len(rows) /\ tx' \in Transaction \cup {None}
      /\ \A q \in Processes : InTx(q)' = InTx(q) /\ DOMAIN Table(q)' = DOMAIN Table(q)
      /\ tx' # None => Len(rows) <= Len(tx'.rows)
      /\ IF InTx(p) THEN rows' = rows ELSE rows' = table /\ Table(p) = rows
  <2>. HIDE DEF table
  <2>1. CASE InTx(p)
    <3>1. rows' = rows /\ tx' = [tx EXCEPT !.rows = table] /\ tx # None /\ tx \in Transaction
      BY <1>1, <1>2, <2>1 DEF Store, InTx, TypeOK
    <3>2. tx' \in Transaction /\ tx'.proc = tx.proc /\ tx'.rows = table /\ tx' # None
      BY <1>3, <3>1 DEF Transaction, JobQueueAssumption
    <3>3. \A q \in Processes : InTx(q)' = InTx(q)
      BY <3>1, <3>2 DEF InTx
    <3>4. Table(p) = tx.rows /\ Len(tx.rows) = Len(table)
      BY <1>3, <2>1 DEF Table
    <3>5. \A q \in Processes : DOMAIN Table(q)' = DOMAIN Table(q)
      <4>. TAKE q \in Processes
      <4>1. CASE InTx(q)
        <5>1. Table(q)' = table /\ Table(q) = tx.rows
          BY <3>2, <3>3, <4>1 DEF Table
        <5>. QED BY <1>2, <1>3, <3>4, <5>1 DEF Rows
      <4>2. CASE ~InTx(q)
        BY <3>1, <3>3, <4>2 DEF Table
      <4>. QED BY <4>1, <4>2
    <3>. QED BY <1>2, <2>1, <3>1, <3>2, <3>3, <3>4, <3>5
  <2>2. CASE ~InTx(p)
    <3>1. rows' = table /\ tx = None /\ tx' = None /\ Table(p) = rows
      BY <1>1, <2>2 DEF Store, Table
    <3>2. \A q \in Processes : ~InTx(q)' /\ ~InTx(q) /\ Table(q)' = table /\ Table(q) = rows
      BY <3>1 DEF InTx, Table
    <3>3. DOMAIN table = DOMAIN rows
      BY <1>2, <1>3, <3>1 DEF Rows
    <3>4. rows' \in Rows /\ Len(rows') = Len(rows)
      BY <1>3, <3>1
    <3>5. \A q \in Processes : InTx(q)' = InTx(q) /\ DOMAIN Table(q)' = DOMAIN Table(q)
      <4>1. \A q \in Processes : InTx(q)' = InTx(q)
        BY <3>1 DEF InTx
      <4>. QED BY <3>2, <3>3, <4>1
    <3>. QED BY <2>2, <3>1, <3>4, <3>5
  <2>. QED BY <2>1, <2>2
<1>5. /\ \A v \in Workers : Handling(v)' <=> v # w /\ Handling(v)
      /\ \A v \in Workers : v # w => held'[v] = held[v]
  BY <1>1, <1>2 DEF TypeOK, Handling
<1>6. \A v \in Workers : v # w /\ Handling(v) => held[v].id # i /\ held[v].id \in 1 .. Len(rows)
  BY <1>1, <1>2 DEF IInv, Apart, TypeOK, Handling, Claimed
<1>7. rows[i].status = "deleted" \/ (rows[i].status = "running" /\ rows[i].attempts = held[w].attempts + 1)
  BY <1>1 DEF IInv, Marks
<1>. HIDE DEF table, i
<1>8. \A j \in 1 .. Len(rows) : j # i => rows'[j] = rows[j]
  BY <1>2, <1>3, <1>4 DEF Rows
<1>9. \/ rows'[i] = rows[i] /\ (InTx(p) \/ rows[i].status = "deleted")
      \/ rows[i].status = "running" /\ rows'[i].status = status /\ rows'[i].attempts = rows[i].attempts
  <2>1. CASE InTx(p)
    BY <1>4, <2>1
  <2>2. CASE ~InTx(p) /\ rows[i].status = "deleted"
    BY <1>4, <2>2 DEF table, Set
  <2>3. CASE ~InTx(p) /\ rows[i].status # "deleted"
    BY <1>2, <1>3, <1>4, <1>7, <2>3
  <2>. QED BY <2>1, <2>2, <2>3
<1>10. TypeOK'
  <2>1. Claimed' = Claimed
    BY <1>4 DEF Claimed
  <2>2. lost' \subseteq Ids
    BY <1>1, <1>2 DEF TypeOK, Rows, Ids
  <2>. HIDE DEF Claimed
  <2>3. held' \in [Workers -> Claimed' \cup {None}] /\ pc' \in [Workers -> {"poll", "handle", "off", "dead"}]
    BY <1>1, <1>2, <2>1 DEF TypeOK
  <2>4. \A v \in Workers : IF pc'[v] = "handle" THEN held'[v] \in Claimed' ELSE held'[v] = None
    BY <1>1, <1>2, <2>1 DEF TypeOK
  <2>. QED BY <1>1, <1>2, <1>4, <2>2, <2>3, <2>4 DEF TypeOK, processes
<1>11. Marks' /\ Apart'
  BY <1>1, <1>5, <1>6, <1>8 DEF IInv, Marks, Apart, processes
<1>12. Asks' /\ Longer'
  <2>1. ASSUME NEW q \in Processes, retrying[q] # None, ~InTx(q),
               rows[retrying[q]].status \in {"failed", "deleted"}, retrying[q] \in DOMAIN rows
        PROVE  rows'[retrying[q]].status \in {"failed", "deleted"}
    <3>1. retrying[q] \in 1 .. Len(rows)
      BY <1>2, <2>1 DEF Rows
    <3>. QED BY <1>7, <1>8, <1>9, <2>1, <3>1
  <2>2. \A q \in Processes : ~InTx(q) => Table(q) = rows
    BY DEF Table
  <2>. QED BY <1>1, <1>4, <2>1, <2>2 DEF IInv, Asks, Longer
<1>13. BoundedStarts'
  BY <1>1 DEF IInv, BoundedStarts
<1>14. Covered'
  <2>. SUFFICES ASSUME NEW j \in 1 .. Len(rows)
                PROVE  /\ rows'[j].status \in {"pending", "running"}
                            => starts[j] + MaxAttempts - rows'[j].attempts <= Quota(j)
                       /\ rows'[j].status = "pending" => starts[j] + 1 <= Quota(j)
    BY <1>1, <1>4 DEF Covered, Quota
  <2>1. /\ rows[j].status \in {"pending", "running"} => starts[j] + MaxAttempts - rows[j].attempts <= Quota(j)
        /\ rows[j].status = "pending" => starts[j] + 1 <= Quota(j)
    BY DEF IInv, Covered
  <2>2. CASE rows'[j] = rows[j]
    BY <2>1, <2>2
  <2>3. CASE j = i /\ rows[i].status = "running" /\ rows'[i].status = status /\ rows'[i].attempts = rows[i].attempts
    <3>1. j \in Ids /\ starts[j] \in Nat /\ asked[j] \in Nat
      BY <1>2 DEF TypeOK, Rows, Ids
    <3>2. Quota(j) \in Nat /\ MaxAttempts \in 1 .. 100
      BY <3>1, Quotas, JobQueueAssumption DEF Quota, JobQueueAssumption
    <3>3. status = "pending" => rows[i].attempts < MaxAttempts /\ rows[i].attempts \in Nat
      BY <1>2, <1>7, <2>3
    <3>4. \A s, q, a \in Nat, m \in 1 .. 100 : s + m - a <= q /\ a < m => s + 1 <= q
      OBVIOUS
    <3>5. starts[j] + MaxAttempts - rows[j].attempts <= Quota(j)
      BY <2>1, <2>3
    <3>. HIDE DEF Quota
    <3>6. status = "pending" => starts[j] + 1 <= Quota(j)
      <4>. SUFFICES ASSUME status = "pending" PROVE starts[j] + 1 <= Quota(j)
        OBVIOUS
      <4>. DEFINE a == rows[j].attempts
      <4>1. a \in Nat /\ a < MaxAttempts /\ starts[j] + MaxAttempts - a <= Quota(j)
        BY <2>3, <3>3, <3>5
      <4>. HIDE DEF a
      <4>. QED BY <3>1, <3>2, <3>4, <4>1
    <3>. QED BY <2>3, <3>5, <3>6
  <2>. QED BY <1>8, <1>9, <2>2, <2>3
<1>15. RunningIsRun'
  <2>. SUFFICES ASSUME NEW j \in 1 .. Len(rows), rows'[j].status = "running", j \notin lost'
                PROVE  Runners(j)' # {}
    BY <1>2, <1>4 DEF RunningIsRun, Rows
  <2>1. j # i
    BY <1>1, <1>9
  <2>2. rows[j].status = "running" /\ j \notin lost
    BY <1>1, <1>8, <2>1
  <2>3. PICK v \in Workers : pc[v] = "handle" /\ held[v].id = j
    BY <1>2, <2>2 DEF IInv, RunningIsRun, Runners, Rows
  <2>4. v # w
    BY <2>1, <2>3 DEF i
  <2>. QED BY <1>5, <2>3, <2>4 DEF Runners, Handling
<1>. QED BY <1>10, <1>11, <1>12, <1>13, <1>14, <1>15 DEF IInv

LEMMA HandlerSteps ==
  ASSUME JobQueueAssumption, IInv, NEW w \in Workers, HandlerReturns(w) \/ HandlerThrows(w)
  PROVE  IInv'
<1>1. CASE HandlerReturns(w)
  BY <1>1, RecordSteps DEF HandlerReturns
<1>2. CASE HandlerThrows(w)
  <2>. DEFINE status == IF held[w].attempts + 1 < MaxAttempts THEN "pending" ELSE "failed"
  <2>1. Record(w, status)
    BY <1>2 DEF HandlerThrows
  <2>2. status \in {"completed", "failed", "pending"} /\ (status = "pending" => held[w].attempts + 1 < MaxAttempts)
    OBVIOUS
  <2>. HIDE DEF status
  <2>. QED BY <2>1, <2>2, RecordSteps
<1>. QED BY <1>1, <1>2

\* Workers that end in a run lose it, and no other.
LEMMA EndsRuns ==
  ASSUME IInv, UNCHANGED <<rows, asked, starts>>, up' \in SUBSET Processes,
         \A w \in Workers : Handling(w)' => Handling(w) /\ held'[w] = held[w] /\ Proc(w) \in up',
         \A w \in Workers : Handling(w) => Handling(w)' \/ held[w].id \in lost',
         lost \subseteq lost'
  PROVE  Marks' /\ Apart' /\ Covered' /\ BoundedStarts' /\ RunningIsRun'
<1>1. Marks'
  BY DEF IInv, Marks
<1>2. Apart'
  BY DEF IInv, Apart
<1>3. Covered' /\ BoundedStarts'
  BY DEF IInv, Covered, BoundedStarts, Quota
<1>4. RunningIsRun'
  <2>. SUFFICES ASSUME NEW i \in DOMAIN rows, rows[i].status = "running", i \notin lost'
                PROVE  Runners(i)' # {}
    BY DEF RunningIsRun
  <2>1. PICK w \in Workers : pc[w] = "handle" /\ held[w].id = i
    BY DEF IInv, RunningIsRun, Runners
  <2>2. Handling(w)' /\ held'[w].id = i
    BY <2>1 DEF Handling
  <2>. QED BY <2>2 DEF Runners, Handling
<1>. QED BY <1>1, <1>2, <1>3, <1>4

LEMMA HandlerDiesSteps ==
  ASSUME JobQueueAssumption, IInv, NEW w \in Workers, HandlerDies(w)
  PROVE  IInv'
<1>1. /\ Handling(w) /\ pc' = [pc EXCEPT ![w] = "dead"] /\ held' = [held EXCEPT ![w] = None]
      /\ lost' = lost \cup {held[w].id}
      /\ UNCHANGED <<rows, tx, stale, processes, retrying, asked, starts>>
  BY DEF HandlerDies, Handling
<1>2. TypeOK /\ held[w] \in Claimed /\ held[w].id \in Ids
  <2>1. TypeOK /\ held[w] \in Claimed
    BY <1>1 DEF IInv, TypeOK, Handling
  <2>2. held[w].id \in 1 .. Len(rows) /\ Len(rows) \in Nat /\ Len(rows) <= MaxJobs
    BY <2>1 DEF Claimed, TypeOK, Rows
  <2>. QED BY <2>1, <2>2, JobQueueAssumption DEF Ids, JobQueueAssumption
<1>3. /\ \A v \in Workers : Handling(v)' <=> v # w /\ Handling(v)
      /\ \A v \in Workers : v # w => held'[v] = held[v]
  BY <1>1, <1>2 DEF TypeOK, Handling
<1>4. Marks' /\ Apart' /\ Covered' /\ BoundedStarts' /\ RunningIsRun'
  <2>1. up' \in SUBSET Processes /\ UNCHANGED up
    BY <1>1, <1>2 DEF TypeOK, processes
  <2>2. \A v \in Workers : Handling(v) => Proc(v) \in up
    BY DEF IInv, Marks
  <2>3. \A v \in Workers : Handling(v)' => Handling(v) /\ held'[v] = held[v] /\ Proc(v) \in up'
    BY <1>3, <2>1, <2>2
  <2>4. \A v \in Workers : Handling(v) => Handling(v)' \/ held[v].id \in lost'
    BY <1>1, <1>3
  <2>. QED BY <1>1, <2>1, <2>3, <2>4, EndsRuns
<1>5. TypeOK'
  <2>1. pc' \in [Workers -> {"poll", "handle", "off", "dead"}] /\ held' \in [Workers -> Claimed \cup {None}]
    BY <1>1, <1>2 DEF TypeOK
  <2>2. \A v \in Workers : IF pc'[v] = "handle" THEN held'[v] \in Claimed ELSE held'[v] = None
    BY <1>1, <1>2 DEF TypeOK
  <2>3. Claimed' = Claimed
    BY <1>1 DEF Claimed
  <2>. HIDE DEF Claimed
  <2>. QED BY <1>1, <1>2, <2>1, <2>2, <2>3 DEF TypeOK, processes
<1>6. Asks' /\ Longer'
  BY <1>1 DEF IInv, Asks, Longer, Table, InTx
<1>. QED BY <1>4, <1>5, <1>6 DEF IInv

-----------------------------------------------------------------------------
(* Processes. *)

LEMMA StopSteps ==
  ASSUME JobQueueAssumption, IInv, NEW p \in Processes, Stop(p)
  PROVE  IInv'
<1>1. stopped' = stopped \cup {p} /\ UNCHANGED <<rows, tx, workers, up, crashes, retrying, history>>
  BY DEF Stop
<1>2. Marks' /\ Apart' /\ Covered' /\ BoundedStarts' /\ RunningIsRun'
  BY <1>1, Unmoved DEF workers, history, Handling
<1>3. TypeOK' /\ Longer' /\ Asks'
  BY <1>1 DEF IInv, TypeOK, Claimed, Longer, Asks, Table, InTx, workers, history
<1>. QED BY <1>2, <1>3 DEF IInv

LEMMA CrashSteps ==
  ASSUME JobQueueAssumption, IInv, NEW p \in Processes, Crash(p)
  PROVE  IInv'
<1>1. /\ up' = up \ {p} /\ tx' = IF InTx(p) THEN None ELSE tx
      /\ lost' = lost \cup {held[w].id : w \in {v \in Workers : Proc(v) = p /\ pc[v] = "handle"}}
      /\ pc' = [w \in Workers |-> IF Proc(w) = p THEN "off" ELSE pc[w]]
      /\ held' = [w \in Workers |-> IF Proc(w) = p THEN None ELSE held[w]]
      /\ retrying' = [retrying EXCEPT ![p] = None]
      /\ UNCHANGED <<rows, stale, stopped, asked, starts>>
  BY DEF Crash
<1>2. TypeOK /\ \A w \in Workers : Handling(w) => held[w].id \in Ids
  BY DEF IInv, TypeOK, Handling, Claimed, Rows, Ids
<1>3. \A w \in Workers : /\ Handling(w)' <=> Proc(w) # p /\ Handling(w)
                         /\ Proc(w) # p => held'[w] = held[w]
  BY <1>1 DEF Handling
<1>4. Marks' /\ Apart' /\ Covered' /\ BoundedStarts' /\ RunningIsRun'
  <2>1. up' \in SUBSET Processes
    BY <1>1, <1>2 DEF TypeOK
  <2>2. \A v \in Workers : Handling(v) => Proc(v) \in up
    BY DEF IInv, Marks
  <2>3. \A v \in Workers : Handling(v)' => Handling(v) /\ held'[v] = held[v] /\ Proc(v) \in up'
    BY <1>1, <1>3, <2>2
  <2>4. \A v \in Workers : Handling(v) => Handling(v)' \/ held[v].id \in lost'
    BY <1>1, <1>3 DEF Handling
  <2>. QED BY <1>1, <2>1, <2>3, <2>4, EndsRuns
<1>5. TypeOK'
  <2>1. pc' \in [Workers -> {"poll", "handle", "off", "dead"}] /\ held' \in [Workers -> Claimed \cup {None}]
    BY <1>1, <1>2 DEF TypeOK
  <2>2. \A v \in Workers : IF pc'[v] = "handle" THEN held'[v] \in Claimed ELSE held'[v] = None
    BY <1>1, <1>2 DEF TypeOK
  <2>3. Claimed' = Claimed
    BY <1>1 DEF Claimed
  <2>4. lost' \subseteq Ids
    BY <1>1, <1>2 DEF TypeOK, Handling
  <2>5. retrying' \in [Processes -> Ids \cup {None}]
    BY <1>1, <1>2 DEF TypeOK
  <2>. HIDE DEF Claimed
  <2>. QED BY <1>1, <1>2, <2>1, <2>2, <2>3, <2>4, <2>5 DEF TypeOK
<1>6. Longer'
  BY <1>1 DEF IInv, Longer
<1>7. Asks'
  <2>. SUFFICES ASSUME NEW q \in Processes, retrying'[q] # None
                PROVE  /\ q \in Retriers /\ retrying'[q] \in DOMAIN Table(q)'
                       /\ ~InTx(q)' => rows[retrying'[q]].status \in {"failed", "deleted"}
    BY <1>1 DEF Asks
  <2>1. q # p /\ retrying'[q] = retrying[q]
    BY <1>1, <1>2 DEF TypeOK
  <2>2. (InTx(q)' <=> InTx(q)) /\ Table(q)' = Table(q)
    BY <1>1, <2>1 DEF InTx, Table
  <2>. QED BY <2>1, <2>2 DEF IInv, Asks
<1>. QED BY <1>4, <1>5, <1>6, <1>7 DEF IInv

LEMMA RestartSteps ==
  ASSUME JobQueueAssumption, IInv, NEW p \in Processes, Restart(p)
  PROVE  IInv'
<1>1. /\ p \notin up /\ up' = up \cup {p} /\ stopped' = stopped \ {p}
      /\ pc' = [w \in Workers |-> IF Proc(w) = p THEN "poll" ELSE pc[w]]
      /\ stale' = [w \in Workers |-> IF Proc(w) = p THEN 0 ELSE stale[w]]
      /\ UNCHANGED <<rows, tx, held, crashes, retrying, history>>
  BY DEF Restart
<1>2. \A w \in Workers : (Handling(w)' <=> Handling(w)) /\ (Proc(w) = p => ~Handling(w))
  BY <1>1 DEF IInv, Marks, Handling
<1>3. Marks' /\ Apart' /\ Covered' /\ BoundedStarts' /\ RunningIsRun'
  <2>1. up' \in SUBSET Processes
    BY <1>1 DEF IInv, TypeOK
  <2>2. \A v \in Workers : Handling(v) => Proc(v) \in up
    BY DEF IInv, Marks
  <2>. QED BY <1>1, <1>2, <2>1, <2>2, EndsRuns DEF history
<1>4. TypeOK'
  <2>1. pc' \in [Workers -> {"poll", "handle", "off", "dead"}] /\ stale' \in [Workers -> 0 .. MaxTries - 1]
    BY <1>1, JobQueueAssumption DEF IInv, TypeOK, JobQueueAssumption
  <2>2. \A v \in Workers : IF pc'[v] = "handle" THEN held[v] \in Claimed ELSE held[v] = None
    BY <1>1, <1>2 DEF IInv, TypeOK, Handling
  <2>3. Claimed' = Claimed
    BY <1>1 DEF Claimed
  <2>. HIDE DEF Claimed
  <2>. QED BY <1>1, <2>1, <2>2, <2>3 DEF IInv, TypeOK, history
<1>5. Asks' /\ Longer'
  BY <1>1 DEF IInv, Asks, Longer, Table, InTx
<1>. QED BY <1>3, <1>4, <1>5 DEF IInv

-----------------------------------------------------------------------------
(* The theorems. *)

LEMMA InitInv ==
  ASSUME JobQueueAssumption, Init
  PROVE  IInv
<1>1. rows = << >> /\ Len(rows) = 0 /\ rows \in Rows
  BY DEF Init, Rows, JobQueueAssumption
<1>2. TypeOK
  BY <1>1, JobQueueAssumption DEF Init, TypeOK, JobQueueAssumption
<1>3. Marks /\ Apart /\ Asks /\ Longer /\ Covered /\ RunningIsRun
  BY <1>1 DEF Init, Marks, Apart, Asks, Longer, Covered, RunningIsRun, Handling
<1>4. BoundedStarts
  <2>1. \A i \in Ids : asked[i] = 0 /\ starts[i] = 0
    BY DEF Init
  <2>2. MaxAttempts * 0 = 0
    BY JobQueueAssumption DEF JobQueueAssumption
  <2>. QED BY <2>1, <2>2 DEF BoundedStarts
<1>. QED BY <1>2, <1>3, <1>4 DEF IInv

LEMMA StutterInv ==
  ASSUME IInv, UNCHANGED vars
  PROVE  IInv'
<1>1. Marks' /\ Apart' /\ Covered' /\ BoundedStarts' /\ RunningIsRun'
  BY Unmoved DEF vars, workers, processes, history, Handling
<1>2. TypeOK' /\ Longer' /\ Asks'
  BY DEF IInv, TypeOK, Claimed, Longer, Asks, Table, InTx, vars, workers, processes, history
<1>. QED BY <1>1, <1>2 DEF IInv

LEMMA NextInv ==
  ASSUME JobQueueAssumption, OneRetries, IInv, [Next]_vars
  PROVE  IInv'
<1>1. ASSUME NEW w \in Workers, Turn(w) PROVE IInv'
  BY <1>1, TurnsOfNoJob, ClaimSteps, HandlerSteps, HandlerDiesSteps DEF Turn
<1>2. ASSUME NEW p \in Processes, Request(p) PROVE IInv'
  BY <1>2, SubmitSteps, RetryReadSteps, RetryWriteSteps, RetryOneSteps, RetryAllSteps, ClearSteps,
     StopSteps, CrashSteps, RestartSteps DEF Request
<1>. QED BY <1>1, <1>2, StutterInv DEF Next

LEMMA SetsOfOne ==
  ASSUME NEW S, \A x, y \in S : x = y
  PROVE  Cardinality(S) <= 1
<1>1. CASE S = {}
  BY <1>1, FS_EmptySet
<1>2. CASE S # {}
  <2>1. PICK x \in S : TRUE
    BY <1>2
  <2>2. S = {x}
    BY <2>1
  <2>. QED BY <2>2, FS_Singleton
<1>. QED BY <1>1, <1>2

LEMMA SoundJobs ==
  ASSUME IInv
  PROVE  JobQueueInv
<1>1. OneRunner
  <2>. SUFFICES ASSUME NEW i \in Ids PROVE Cardinality(Runners(i)) <= 1
    BY DEF OneRunner
  <2>1. \A v, w \in Runners(i) : v = w
    BY DEF IInv, Apart, Runners, Handling
  <2>. QED BY <2>1, SetsOfOne
<1>. QED BY <1>1 DEF IInv, JobQueueInv

\* With one process that retries jobs, from pages that are up to date, a job has one
\* runner at a time, is started at most max_attempts times for each time it was asked
\* for, and is marked as running only while it is run or when a run was lost, however
\* processes crash, statements fail and workers interleave.
THEOREM JobsAreSound == OneRetries => (Spec => []JobQueueInv)
<1>. SUFFICES ASSUME OneRetries PROVE Spec => []JobQueueInv
  OBVIOUS
<1>. USE JobQueueAssumption
<1>1. Init => IInv
  BY InitInv
<1>2. IInv /\ [Next]_vars => IInv'
  BY NextInv
<1>3. IInv => JobQueueInv
  BY SoundJobs
<1>. QED BY <1>1, <1>2, <1>3, PTL DEF Spec

\* Nobody runs a job that completed, and so nobody records an end of it again: what
\* completed stays so until the table is cleared.
(***************************************************************************)
(* What others see of the queue: its steps are steps of module DurableJobs. *)
(***************************************************************************)

LEMMA ClaimBegins ==
  ASSUME IInv, NEW w \in Workers, Claim(w)
  PROVE  Life!Begin(w)
<1>1. PICK i \in DOMAIN rows :
        /\ pc[w] = "poll" /\ IsFirst(i, rows)
        /\ rows' = Marked(i)
        /\ held' = [held EXCEPT ![w] = [id |-> i, attempts |-> rows[i].attempts]]
  BY DEF Claim, Polls
<1>2. held[w] = None
  BY <1>1 DEF IInv, TypeOK
<1>. QED BY <1>1, <1>2 DEF Life!Begin, Life!With, IsFirst, Pending, Marked

LEMMA RecordFinishes ==
  ASSUME JobQueueAssumption, IInv, NEW w \in Workers, NEW status \in {"completed", "failed", "pending"},
         Record(w, status),
         status # "completed" => status = IF held[w].attempts + 1 < MaxAttempts THEN "pending" ELSE "failed"
  PROVE  Life!Lose({w}) \/ Life!Finish(w)
<1>. DEFINE p == Proc(w)
            i == held[w].id
<1>1. /\ Handling(w) /\ Store(p, Set(Table(p), i, status))
      /\ held' = [held EXCEPT ![w] = None]
  BY DEF Record, Handling
<1>2. held \in [Workers -> Claimed \cup {None}] /\ held[w] \in Claimed /\ held[w] # None
  BY <1>1 DEF IInv, TypeOK, Handling, Claimed, RowRead, JobQueueAssumption
<1>3. CASE InTx(p)
  <2>1. UNCHANGED rows
    BY <1>1, <1>3 DEF Store
  <2>2. held' = [v \in Workers |-> IF v \in {w} THEN None ELSE held[v]]
    BY <1>1, <1>2
  <2>. QED BY <2>1, <2>2 DEF Life!Lose
<1>4. CASE ~InTx(p)
  <2>1. rows' = Set(rows, i, status)
    BY <1>1, <1>4 DEF Store, Table
  <2>2. CASE rows[i].status = "deleted"
    BY <1>1, <1>2, <2>1, <2>2 DEF Set, Life!Finish
  <2>3. CASE rows[i].status = "running" /\ rows[i].attempts = held[w].attempts + 1
    <3>1. rows' = [rows EXCEPT ![i].status = status]
      BY <2>1, <2>3 DEF Set
    <3>2. status \in Life!Results(rows[i])
      BY <2>3 DEF Life!Results
    <3>. QED BY <1>1, <1>2, <2>3, <3>1, <3>2 DEF Life!Finish
  <2>. QED BY <1>1, <2>2, <2>3 DEF IInv, Marks
<1>. QED BY <1>3, <1>4

LEMMA TurnsOfLife ==
  ASSUME JobQueueAssumption, IInv, NEW w \in Workers, Turn(w)
  PROVE  [Life!Next]_(Life!vars)
<1>1. ASSUME Life!Lose({w}) PROVE Life!Next
  BY <1>1 DEF Life!Next
<1>2. CASE Leave(w) \/ PollDies(w) \/ Idle(w) \/ ClaimFails(w)
  BY <1>2 DEF Leave, PollDies, Idle, ClaimFails, Life!vars
<1>3. CASE Claim(w)
  BY <1>3, ClaimBegins DEF Life!Next
<1>4. CASE HandlerReturns(w) \/ HandlerThrows(w)
  <2>1. Life!Lose({w}) \/ Life!Finish(w)
    BY <1>4, RecordFinishes DEF HandlerReturns, HandlerThrows
  <2>. QED BY <1>1, <2>1 DEF Life!Next
<1>5. CASE HandlerDies(w)
  <2>1. held' = [held EXCEPT ![w] = None] /\ UNCHANGED rows
    BY <1>5 DEF HandlerDies
  <2>2. held \in [Workers -> Claimed \cup {None}]
    BY DEF IInv, TypeOK
  <2>3. Life!Lose({w})
    BY <2>1, <2>2 DEF Life!Lose
  <2>. QED BY <1>1, <2>3
<1>. QED BY <1>2, <1>3, <1>4, <1>5 DEF Turn

\* Who retries one job finds it failed, or deleted, in the table as committed.
LEMMA RetriesOfLife ==
  ASSUME JobQueueAssumption, OneRetries, IInv, NEW p \in Processes,
         RetryRead(p) \/ RetryWrite(p) \/ RetryOne(p) \/ RetryAll(p)
  PROVE  [Life!Next]_(Life!vars)
<1>. DEFINE Rewritten(jobs, afresh) ==
       [i \in DOMAIN rows |-> IF i \in jobs THEN Life!Again(rows[i], afresh) ELSE rows[i]]
<1>1. UNCHANGED held
  BY DEF RetryRead, RetryWrite, RetryOne, RetryAll, workers
<1>2. ASSUME NEW jobs \in SUBSET Failed(rows), NEW afresh \in BOOLEAN, rows' = Rewritten(jobs, afresh)
      PROVE  Life!Next
  BY <1>1, <1>2 DEF Life!Next, Life!Retry, Life!With, Failed
<1>3. UNCHANGED rows => UNCHANGED Life!vars
  BY <1>1 DEF Life!vars
<1>4. rows \in Rows /\ (~InTx(p) => Table(p) = rows)
  BY DEF IInv, TypeOK, Table
<1>5. CASE RetryRead(p) \/ InTx(p)
  BY <1>3, <1>5 DEF RetryRead, RetryWrite, RetryOne, RetryAll, Store
<1>6. CASE RetryWrite(p) /\ ~InTx(p)
  <2>. DEFINE i == retrying[p]
  <2>1. UNCHANGED rows \/ rows' = Reset(rows, i)
    BY <1>4, <1>6 DEF RetryWrite, Store
  <2>2. i \in DOMAIN rows /\ rows[i].status \in {"failed", "deleted"}
    BY <1>4, <1>6 DEF RetryWrite, IInv, Asks
  <2>. HIDE DEF i
  <2>3. CASE rows[i].status = "failed" /\ rows' = Reset(rows, i)
    <3>1. rows' = [rows EXCEPT ![i] = New] /\ {i} \in SUBSET Failed(rows)
      BY <2>2, <2>3 DEF Reset, Failed
    <3>2. rows' = Rewritten({i}, TRUE)
      BY <1>4, <2>2, <3>1 DEF New, Life!Again, Rows
    <3>. HIDE DEF Rewritten
    <3>. QED BY <1>2, <3>1, <3>2
  <2>. QED BY <1>3, <2>1, <2>2, <2>3 DEF Reset
<1>7. CASE RetryOne(p) /\ ~InTx(p)
  <2>1. PICK i \in DOMAIN rows : rows[i].status = "failed" /\ rows' = Set(rows, i, "pending")
    BY <1>4, <1>7 DEF RetryOne, OneRetries, Store
  <2>2. rows' = [rows EXCEPT ![i].status = "pending"] /\ {i} \in SUBSET Failed(rows)
    BY <2>1 DEF Set, Failed
  <2>3. rows' = Rewritten({i}, FALSE)
    BY <1>4, <2>1, <2>2 DEF Life!Again, Rows
  <2>. HIDE DEF Rewritten
  <2>. QED BY <1>2, <2>2, <2>3
<1>8. CASE RetryAll(p) /\ ~InTx(p)
  <2>1. rows' = [i \in DOMAIN rows |-> IF i \in Failed(rows) THEN [rows[i] EXCEPT !.status = "pending"]
                                                              ELSE rows[i]]
    BY <1>4, <1>8 DEF RetryAll, Store
  <2>2. rows' = Rewritten(Failed(rows), FALSE)
    BY <2>1 DEF Life!Again
  <2>. HIDE DEF Rewritten
  <2>. QED BY <1>2, <2>2
<1>. QED BY <1>5, <1>6, <1>7, <1>8

LEMMA RequestsOfLife ==
  ASSUME JobQueueAssumption, OneRetries, IInv, NEW p \in Processes, Request(p)
  PROVE  [Life!Next]_(Life!vars)
<1>1. ~InTx(p) => Table(p) = rows
  BY DEF Table
<1>2. CASE Submit(p)
  <2>1. UNCHANGED held /\ (UNCHANGED rows \/ rows' = Append(rows, New))
    BY <1>1, <1>2 DEF Submit, Store, workers
  <2>. QED BY <2>1 DEF Life!Next, Life!Submit, Life!vars, New
<1>3. CASE ClearAll(p)
  <2>1. /\ UNCHANGED held
        /\ \/ UNCHANGED rows
           \/ rows' = [i \in DOMAIN rows |-> [rows[i] EXCEPT !.status = "deleted"]]
    BY <1>1, <1>3 DEF ClearAll, Store, workers
  <2>. QED BY <2>1 DEF Life!Next, Life!Clear, Life!vars
<1>4. CASE Stop(p) \/ Restart(p)
  BY <1>4 DEF Stop, Restart, workers, Life!vars
<1>5. CASE Crash(p)
  <2>. DEFINE gone == {w \in Workers : Proc(w) = p}
  <2>1. UNCHANGED rows /\ held' = [w \in Workers |-> IF Proc(w) = p THEN None ELSE held[w]]
    BY <1>5 DEF Crash
  <2>2. held' = [w \in Workers |-> IF w \in gone THEN None ELSE held[w]]
    BY <2>1
  <2>3. gone \in SUBSET Workers
    OBVIOUS
  <2>. HIDE DEF gone
  <2>. QED BY <2>1, <2>2, <2>3 DEF Life!Next, Life!Lose
<1>. QED BY <1>2, <1>3, <1>4, <1>5, RetriesOfLife DEF Request

LEMMA StepsOfLife ==
  ASSUME JobQueueAssumption, OneRetries, IInv, [Next]_vars
  PROVE  [Life!Next]_(Life!vars)
<1>1. CASE UNCHANGED vars
  BY <1>1 DEF vars, workers, Life!vars
<1>. QED BY <1>1, TurnsOfLife, RequestsOfLife DEF Next

\* The queue implements the life of a job, for any number of processes, workers and
\* jobs, whatever fails or crashes, if one process retries, from pages that are up
\* to date.
THEOREM QueueImplementsLife == OneRetries => (Spec => KeepsPromise)
<1>. SUFFICES ASSUME OneRetries PROVE Spec => KeepsPromise
  OBVIOUS
<1>. USE JobQueueAssumption
<1>1. Init => IInv
  BY InitInv
<1>2. IInv /\ [Next]_vars => IInv'
  BY NextInv
<1>3. Init => Life!Init
  BY DEF Init, Life!Init
<1>4. IInv /\ [Next]_vars => [Life!Next]_(Life!vars)
  BY StepsOfLife
<1>. QED BY <1>1, <1>2, <1>3, <1>4, PTL DEF Spec, KeepsPromise, Life!Spec

\* So a job that completed can only be deleted.
LEMMA CompletedStep ==
  ASSUME JobQueueAssumption, OneRetries, IInv, [Next]_vars, NEW i \in DOMAIN rows,
         rows[i].status = "completed"
  PROVE  i \in DOMAIN rows' /\ rows'[i].status \in {"completed", "deleted"}
<1>0. rows \in Rows /\ rows[i] \in Row
  BY DEF IInv, TypeOK, Rows
<1>1. CASE UNCHANGED rows
  BY <1>1
<1>2. CASE Life!Submit
  BY <1>0, <1>2 DEF Life!Submit, Rows
<1>3. CASE Life!Clear
  BY <1>0, <1>3, RowUpdates DEF Life!Clear, Statuses
<1>4. ASSUME NEW w \in Workers, Life!Begin(w) PROVE i \in DOMAIN rows' /\ rows'[i] = rows[i]
  BY <1>0, <1>4 DEF Life!Begin, Life!With, Rows
<1>5. ASSUME NEW w \in Workers, Life!Finish(w) PROVE i \in DOMAIN rows' /\ rows'[i] = rows[i]
  BY <1>0, <1>5 DEF Life!Finish, Rows
<1>6. ASSUME NEW jobs \in SUBSET Life!With("failed"), NEW afresh \in BOOLEAN, Life!Retry(jobs, afresh)
      PROVE  i \in DOMAIN rows' /\ rows'[i] = rows[i]
  BY <1>6 DEF Life!Retry, Life!With
<1>. QED BY <1>1, <1>2, <1>3, <1>4, <1>5, <1>6, StepsOfLife DEF Life!Next, Life!Lose, Life!vars

\* A job that completed is never run again: under the same assumption its row says
\* so, in every step of every process, until the dashboard clears the table.
THEOREM CompletedIsFinal == OneRetries => (Spec => CompletedStays)
<1>. SUFFICES ASSUME OneRetries PROVE Spec => CompletedStays
  OBVIOUS
<1>. USE JobQueueAssumption
<1>1. Init => IInv
  BY InitInv
<1>2. IInv /\ [Next]_vars => IInv'
  BY NextInv
<1>3. IInv /\ [Next]_vars =>
        [\A i \in DOMAIN rows : rows[i].status = "completed" =>
           i \in DOMAIN rows' /\ rows'[i].status \in {"completed", "deleted"}]_rows
  BY CompletedStep
<1>. QED BY <1>1, <1>2, <1>3, PTL DEF Spec, CompletedStays
=============================================================================
