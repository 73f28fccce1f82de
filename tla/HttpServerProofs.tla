--------------------------- MODULE HttpServerProofs ---------------------------
(***************************************************************************)
(* Proofs about module HttpServer, for any connections, descriptors, pool  *)
(* sizes and limits, with and without io_uring, where handlers leave the   *)
(* closing of their sockets to the server: a descriptor has one owner, the *)
(* requests of a connection are answered once and in order, a pass polls   *)
(* every connection once, and none is closed for another's sake.           *)
(***************************************************************************)
EXTENDS HttpServer, SequenceTheorems, FiniteSetTheorems, TLAPS

-----------------------------------------------------------------------------
(* The inductive invariant. *)

Accepted(i) == cqes[i].op = "accept"

PoolFds == {pool[i].fd : i \in 1 .. Len(pool)}
TaskFds == {d.fd : d \in deferred}
NewFds == {cqes[i].fd : i \in {j \in 1 .. Len(cqes) : Accepted(j)}}
OpenFds == {f \in Fds : file[f] # None}

\* With io_uring or without.
Kinds == /\ phase = "reap" => uring
         /\ phase \in {"accept", "frame"} => ~uring
         /\ ~uring => inflight = {} /\ cqes = << >>

\* An open descriptor is in one place,
Partition == /\ OpenFds = PoolFds \cup TaskFds \cup NewFds \cup handed
             /\ PoolFds \cap TaskFds = {} /\ PoolFds \cap NewFds = {} /\ PoolFds \cap handed = {}
             /\ TaskFds \cap NewFds = {} /\ TaskFds \cap handed = {} /\ NewFds \cap handed = {}

\* once, and who has it knows what it is open on.
Single == /\ \A i, j \in 1 .. Len(pool) : pool[i].fd = pool[j].fd => i = j
          /\ \A d, e \in deferred : d.fd = e.fd => d = e

Known == /\ \A i \in 1 .. Len(pool) : file[pool[i].fd] = pool[i].conn
         /\ \A d \in deferred : file[d.fd] = d.conn
         /\ \A i \in 1 .. Len(cqes) : Accepted(i) => file[cqes[i].fd] = cqes[i].conn

\* A connection has one descriptor at most, and none before it is accepted.
Bound == /\ backlog \subseteq arrived
         /\ \A f \in Fds : file[f] # None => file[f] \in arrived \ backlog
         /\ \A f, g \in Fds : file[f] = file[g] /\ file[f] # None => f = g

\* At most one recv of a connection is in flight or completed, and while the connection
\* is in the pool it was submitted with its descriptor.
Operations ==
  /\ \A o \in inflight : o.conn \in arrived \ backlog
  /\ \A i \in 1 .. Len(cqes) : cqes[i].conn \in arrived \ backlog
  /\ \A o, p \in inflight : o.conn = p.conn => o = p
  /\ \A o \in inflight, i \in 1 .. Len(cqes) : o.conn # cqes[i].conn
  /\ \A i, j \in 1 .. Len(cqes) : cqes[i].conn = cqes[j].conn => i = j
  /\ \A o \in inflight, i \in 1 .. Len(pool) : pool[i].conn = o.conn => pool[i].fd = o.fd
  /\ \A i \in 1 .. Len(pool), j \in 1 .. Len(cqes) : pool[i].conn = cqes[j].conn => pool[i].fd = cqes[j].fd

\* Nothing was read of a connection that nobody has seen.
Unseen(c) == c \notin arrived \ backlog \/ \E i \in 1 .. Len(cqes) : Accepted(i) /\ cqes[i].conn = c
Untouched == \A c \in Conns : Unseen(c) => taken[c] = 0 /\ replies[c] = << >>

\* The requests of c from the first, until other bytes come.
InOrder(s, c) == \A n \in 1 .. Len(s) : (\A m \in 1 .. n : s[m] # Junk) => s[n] = Request(c, n)
Pure(s) == \A n \in 1 .. Len(s) : s[n] # Junk

\* What was answered, what is in the buffer and what is in a completion are the requests
\* that were read.
Stream(i) == replies[pool[i].conn] \o pool[i].buf
Fits(s, c, t, q) ==
  /\ InOrder(s, c)
  /\ Pure(s) => /\ (\A j \in 1 .. Len(q) : q[j].conn # c) => t = Len(s)
                /\ \A j \in 1 .. Len(q) : q[j].conn = c => /\ InOrder(s \o q[j].data, c)
                                                          /\ t = Len(s \o q[j].data)
Buffers == \A i \in 1 .. Len(pool) : Fits(Stream(i), pool[i].conn, taken[pool[i].conn], cqes)
Handling == \A d \in deferred : InOrder(Append(replies[d.conn], d.request), d.conn)

Ownership == Partition /\ Single /\ Known
Order == Untouched /\ Buffers /\ Handling /\ RepliesInOrder

IInv == TypeOK /\ Kinds /\ Ownership /\ Bound /\ Operations /\ Order /\ EachPolledOnce

-----------------------------------------------------------------------------
(* Sequences of requests. *)

LEMMA JustRequests ==
  /\ Junk \in Requests
  /\ \A c \in Conns, n \in Nat : Request(c, n) \in Requests /\ Request(c, n) # Junk
<1>1. \A c \in Conns, n \in Nat : Request(c, n) \in [conn : Conns, n : Nat]
  BY DEF Request
<1>2. Junk \notin [conn : Conns, n : Nat]
  BY HttpServerAssumption
<1>. QED BY ONLY <1>1, <1>2 DEF Requests

LEMMA PureConcat ==
  ASSUME NEW s \in Seq(Requests), NEW t \in Seq(Requests)
  PROVE  Pure(s \o t) <=> Pure(s) /\ Pure(t)
<1>1. /\ Len(s) \in Nat /\ Len(t) \in Nat /\ Len(s \o t) = Len(s) + Len(t)
      /\ \A i \in 1 .. Len(s) + Len(t) : (s \o t)[i] = IF i <= Len(s) THEN s[i] ELSE t[i - Len(s)]
  BY ConcatProperties, LenProperties
<1>2. ASSUME Pure(s \o t) PROVE Pure(s)
  BY <1>1, <1>2 DEF Pure
<1>3. ASSUME Pure(s \o t) PROVE Pure(t)
  <2>. SUFFICES ASSUME NEW n \in 1 .. Len(t) PROVE t[n] # Junk
    BY DEF Pure
  <2>1. Len(s) + n \in 1 .. Len(s) + Len(t) /\ ~(Len(s) + n <= Len(s)) /\ (Len(s) + n) - Len(s) = n
    BY <1>1
  <2>. QED BY <1>1, <1>3, <2>1 DEF Pure
<1>4. ASSUME Pure(s), Pure(t) PROVE Pure(s \o t)
  BY <1>1, <1>4 DEF Pure
<1>. QED BY <1>2, <1>3, <1>4

LEMMA OrderConcat ==
  ASSUME NEW c, NEW s \in Seq(Requests), NEW t \in Seq(Requests), InOrder(s, c),
         Pure(s) => \A n \in 1 .. Len(t) : (\A m \in 1 .. n : t[m] # Junk) => t[n] = Request(c, Len(s) + n)
  PROVE  InOrder(s \o t, c)
<1>1. /\ Len(s) \in Nat /\ Len(t) \in Nat /\ Len(s \o t) = Len(s) + Len(t)
      /\ \A i \in 1 .. Len(s) + Len(t) : (s \o t)[i] = IF i <= Len(s) THEN s[i] ELSE t[i - Len(s)]
  BY ConcatProperties, LenProperties
<1>. DEFINE u == s \o t
<1>. HIDE DEF u
<1>2. SUFFICES ASSUME NEW n \in 1 .. Len(u), \A m \in 1 .. n : u[m] # Junk PROVE u[n] = Request(c, n)
  BY DEF InOrder, u
<1>3. /\ Len(u) = Len(s) + Len(t)
      /\ \A i \in 1 .. Len(s) + Len(t) : u[i] = IF i <= Len(s) THEN s[i] ELSE t[i - Len(s)]
  BY <1>1 DEF u
<1>4. CASE n <= Len(s)
  <2>1. n \in 1 .. Len(s) /\ u[n] = s[n] /\ \A m \in 1 .. n : s[m] # Junk
    BY <1>1, <1>2, <1>3, <1>4
  <2>. QED BY <2>1 DEF InOrder
<1>5. CASE n > Len(s)
  <2>. DEFINE k == n - Len(s)
  <2>1. k \in 1 .. Len(t) /\ u[n] = t[k] /\ Len(s) + k = n
    BY <1>1, <1>2, <1>3, <1>5
  <2>2. Pure(s)
    BY <1>1, <1>2, <1>3, <1>5 DEF Pure
  <2>3. ASSUME NEW m \in 1 .. k PROVE t[m] # Junk
    <3>1. Len(s) + m \in 1 .. n /\ Len(s) + m \in 1 .. Len(s) + Len(t) /\ ~(Len(s) + m <= Len(s))
          /\ (Len(s) + m) - Len(s) = m
      BY <1>1, <1>3, <1>5, <2>1
    <3>. QED BY <1>2, <1>3, <3>1
  <2>. QED BY <2>1, <2>2, <2>3
<1>. QED BY <1>1, <1>3, <1>4, <1>5

LEMMA OrderPrefix ==
  ASSUME NEW c, NEW s \in Seq(Requests), NEW t \in Seq(Requests), InOrder(s \o t, c)
  PROVE  InOrder(s, c)
<1>1. /\ Len(s) \in Nat /\ Len(t) \in Nat /\ Len(s \o t) = Len(s) + Len(t)
      /\ \A i \in 1 .. Len(s) : (s \o t)[i] = s[i]
  BY ConcatProperties, LenProperties
<1>. QED BY <1>1 DEF InOrder

\* Moving the first of t to the end of s.
LEMMA Shift ==
  ASSUME NEW s \in Seq(Requests), NEW t \in Seq(Requests), t # << >>
  PROVE  /\ Head(t) \in Requests /\ Tail(t) \in Seq(Requests)
         /\ Append(s, Head(t)) \in Seq(Requests)
         /\ Append(s, Head(t)) \o Tail(t) = s \o t
<1>1. /\ Head(t) \in Requests /\ Tail(t) \in Seq(Requests) /\ Len(Tail(t)) = Len(t) - 1
      /\ \A i \in 1 .. Len(Tail(t)) : Tail(t)[i] = t[i + 1]
  BY HeadTailProperties
<1>2. Len(s) \in Nat /\ Len(t) \in Nat \ {0} /\ Head(t) = t[1]
  BY LenProperties, EmptySeq
<1>. DEFINE a == Append(s, Head(t))
            b == Tail(t)
<1>3. /\ a \in Seq(Requests) /\ Len(a) = Len(s) + 1 /\ a[Len(s) + 1] = t[1]
      /\ \A i \in 1 .. Len(s) : a[i] = s[i]
  BY <1>1, <1>2, AppendProperties
<1>. HIDE DEF a, b
<1>4. /\ b \in Seq(Requests) /\ Len(b) = Len(t) - 1 /\ \A i \in 1 .. Len(b) : b[i] = t[i + 1]
  BY <1>1 DEF b
<1>5. /\ a \o b \in Seq(Requests) /\ Len(a \o b) = Len(s) + Len(t)
      /\ \A i \in 1 .. Len(s) + Len(t) : (a \o b)[i] = IF i <= Len(s) + 1 THEN a[i] ELSE b[i - (Len(s) + 1)]
  <2>1. Len(a) + Len(b) = Len(s) + Len(t)
    BY <1>2, <1>3, <1>4
  <2>2. /\ a \o b \in Seq(Requests) /\ Len(a \o b) = Len(a) + Len(b)
        /\ \A i \in 1 .. Len(a) + Len(b) : (a \o b)[i] = IF i <= Len(a) THEN a[i] ELSE b[i - Len(a)]
    BY <1>3, <1>4, ConcatProperties
  <2>3. Len(a) = Len(s) + 1
    BY <1>3
  <2>. QED BY ONLY <2>1, <2>2, <2>3
<1>6. /\ s \o t \in Seq(Requests) /\ Len(s \o t) = Len(s) + Len(t)
      /\ \A i \in 1 .. Len(s) + Len(t) : (s \o t)[i] = IF i <= Len(s) THEN s[i] ELSE t[i - Len(s)]
  BY <1>2, ConcatProperties
<1>7. ASSUME NEW i \in 1 .. Len(s) + Len(t) PROVE (a \o b)[i] = (s \o t)[i]
  <2>1. CASE i <= Len(s)
    BY <1>2, <1>3, <1>5, <1>6, <2>1
  <2>2. CASE i = Len(s) + 1
    <3>1. i - Len(s) = 1
      BY <1>2, <2>2
    <3>. QED BY <1>2, <1>3, <1>5, <1>6, <2>2, <3>1
  <2>3. CASE i > Len(s) + 1
    <3>1. i - (Len(s) + 1) \in 1 .. Len(b) /\ (i - (Len(s) + 1)) + 1 = i - Len(s) /\ ~(i <= Len(s))
          /\ ~(i <= Len(s) + 1)
      BY <1>2, <1>4, <2>3
    <3>2. (a \o b)[i] = b[i - (Len(s) + 1)] /\ (s \o t)[i] = t[i - Len(s)]
      BY <1>5, <1>6, <3>1
    <3>3. b[i - (Len(s) + 1)] = t[i - Len(s)]
      BY <1>4, <3>1
    <3>. QED BY <3>2, <3>3
  <2>4. i <= Len(s) \/ i = Len(s) + 1 \/ i > Len(s) + 1
    BY <1>2
  <2>. QED BY <2>1, <2>2, <2>3, <2>4
<1>8. a \o b = s \o t
  BY <1>5, <1>6, <1>7, SeqEqual
<1>. QED BY <1>1, <1>3, <1>8 DEF a, b

LEMMA Reassociate ==
  ASSUME NEW s \in Seq(Requests), NEW t \in Seq(Requests), NEW u \in Seq(Requests)
  PROVE  (s \o t) \o u = s \o (t \o u)
BY ConcatAssociative, SMTT(30)

\* What recv gives, and that it follows what was taken before.
LEMMA SentFacts ==
  ASSUME TypeOK, NEW c \in Conns, NEW m \in taken[c] .. sent[c]
  PROVE  /\ taken[c] \in Nat /\ sent[c] \in Nat /\ m \in Nat /\ m <= sent[c]
         /\ Sent(c, m) \in Seq(Requests) /\ Len(Sent(c, m)) = m - taken[c] /\ Pure(Sent(c, m))
         /\ \A n \in 1 .. Len(Sent(c, m)) : Sent(c, m)[n] = Request(c, taken[c] + n)
<1>1. taken[c] \in Nat /\ sent[c] \in Nat /\ m \in Nat /\ m - taken[c] \in Nat /\ m <= sent[c]
  BY DEF TypeOK, ClientsOK
<1>. DEFINE t == Sent(c, m)
<1>2. \A n \in 1 .. m - taken[c] : Request(c, taken[c] + n) \in Requests /\ Request(c, taken[c] + n) # Junk
  BY <1>1, JustRequests
<1>3. t \in [1 .. m - taken[c] -> Requests] /\ \A n \in 1 .. m - taken[c] : t[n] = Request(c, taken[c] + n)
  BY <1>2 DEF Sent
<1>. HIDE DEF t
<1>4. t \in Seq(Requests)
  BY <1>1, <1>3, SeqDef
<1>5. Len(t) = m - taken[c]
  BY <1>1, <1>3, <1>4, LenProperties
<1>6. Pure(t)
  BY <1>2, <1>3, <1>5 DEF Pure
<1>. QED BY <1>1, <1>3, <1>4, <1>5, <1>6 DEF t

LEMMA SentFollows ==
  ASSUME TypeOK, NEW c \in Conns, NEW m \in taken[c] .. sent[c], NEW s \in Seq(Requests),
         InOrder(s, c), Pure(s) => taken[c] = Len(s)
  PROVE  /\ InOrder(s \o Sent(c, m), c)
         /\ Pure(s) => m = Len(s \o Sent(c, m))
<1>. DEFINE t == Sent(c, m)
<1>1. /\ taken[c] \in Nat /\ m \in Nat /\ t \in Seq(Requests) /\ Len(t) = m - taken[c]
      /\ \A n \in 1 .. Len(t) : t[n] = Request(c, taken[c] + n)
  BY SentFacts
<1>. HIDE DEF t
<1>2. InOrder(s \o t, c)
  BY <1>1, OrderConcat
<1>3. Len(s \o t) = Len(s) + Len(t) /\ Len(s) \in Nat
  BY <1>1, ConcatProperties, LenProperties
<1>4. Pure(s) => m = Len(s \o t)
  BY <1>1, <1>3
<1>. QED BY <1>2, <1>4 DEF t

-----------------------------------------------------------------------------
(* The pool, the completions, and whose connections they are. *)

Completions == [op : {"accept", "data", "end"}, fd : Fds, conn : Conns, data : Seq(Requests)]

LEMMA EntryFields ==
  ASSUME NEW e \in Entries
  PROVE  /\ e.fd \in Fds /\ e.conn \in Conns /\ e.buf \in Seq(Requests) /\ e.count \in 0 .. MaxRequests
         /\ e.quiet \in BOOLEAN /\ e.pending \in BOOLEAN
BY DEF Entries

LEMMA PoolFacts ==
  ASSUME TypeOK
  PROVE  /\ pool \in Seq(Entries) /\ Len(pool) \in Nat /\ DOMAIN pool = 1 .. Len(pool)
         /\ \A i \in 1 .. Len(pool) : /\ pool[i] \in Entries /\ pool[i].fd \in Fds
                                      /\ pool[i].conn \in Conns /\ pool[i].buf \in Seq(Requests)
<1>1. pool \in Seq(Entries)
  BY DEF TypeOK, ServerOK
<1>2. Len(pool) \in Nat /\ DOMAIN pool = 1 .. Len(pool) /\ \A i \in 1 .. Len(pool) : pool[i] \in Entries
  BY <1>1, LenProperties, ElementOfSeq
<1>. QED BY <1>1, <1>2, EntryFields

LEMMA CompletionFacts ==
  ASSUME TypeOK
  PROVE  /\ cqes \in Seq(Completions) /\ Len(cqes) \in Nat
         /\ \A i \in 1 .. Len(cqes) : /\ cqes[i] \in Completions /\ cqes[i].fd \in Fds
                                      /\ cqes[i].conn \in Conns /\ cqes[i].data \in Seq(Requests)
                                      /\ cqes[i].op \in {"accept", "data", "end"}
<1>1. cqes \in Seq(Completions)
  BY DEF TypeOK, KernelOK, Completions
<1>2. Len(cqes) \in Nat /\ \A i \in 1 .. Len(cqes) : cqes[i] \in Completions
  BY <1>1, LenProperties, ElementOfSeq
<1>. QED BY <1>1, <1>2 DEF Completions

LEMMA TaskFacts ==
  ASSUME TypeOK, NEW d \in deferred
  PROVE  d \in [fd : Fds, conn : Conns, request : Requests] /\ d.fd \in Fds /\ d.conn \in Conns /\ d.request \in Requests
<1>1. d \in [fd : Fds, conn : Conns, request : Requests]
  BY DEF TypeOK, ServerOK
<1>. QED BY <1>1

LEMMA OperationFacts ==
  ASSUME TypeOK, NEW o \in inflight
  PROVE  o \in [fd : Fds, conn : Conns] /\ o.fd \in Fds /\ o.conn \in Conns
<1>1. o \in [fd : Fds, conn : Conns]
  BY DEF TypeOK, KernelOK
<1>. QED BY <1>1

\* What is in the pool, with a handler or just accepted are different descriptors of
\* different connections.
LEMMA Different ==
  ASSUME TypeOK, Ownership, Bound
  PROVE  /\ \A i \in 1 .. Len(pool) : /\ pool[i].conn \in arrived \ backlog
                                      /\ file[pool[i].fd] = pool[i].conn /\ pool[i].conn # None
         /\ \A i, j \in 1 .. Len(pool) : pool[i].conn = pool[j].conn => i = j
         /\ \A d \in deferred : d.conn \in arrived \ backlog /\ file[d.fd] = d.conn /\ d.conn # None
         /\ \A d, e \in deferred : d.conn = e.conn => d = e
         /\ \A i \in 1 .. Len(pool), d \in deferred : pool[i].conn # d.conn /\ pool[i].fd # d.fd
         /\ \A i \in 1 .. Len(pool), j \in 1 .. Len(cqes) :
              Accepted(j) => pool[i].conn # cqes[j].conn /\ pool[i].fd # cqes[j].fd
         /\ \A d \in deferred, j \in 1 .. Len(cqes) :
              Accepted(j) => d.conn # cqes[j].conn /\ d.fd # cqes[j].fd
<1>1. None \notin Conns
  BY HttpServerAssumption
<1>2. \A i \in 1 .. Len(pool) : pool[i].fd \in PoolFds /\ pool[i].fd \in Fds /\ pool[i].conn \in Conns
  BY PoolFacts DEF PoolFds
<1>3. \A d \in deferred : d.fd \in TaskFds /\ d.fd \in Fds /\ d.conn \in Conns
  BY TaskFacts DEF TaskFds
<1>4. \A j \in 1 .. Len(cqes) : Accepted(j) => cqes[j].fd \in NewFds /\ cqes[j].fd \in Fds /\ cqes[j].conn \in Conns
  BY CompletionFacts DEF NewFds
<1>5. /\ PoolFds \cap TaskFds = {} /\ PoolFds \cap NewFds = {} /\ TaskFds \cap NewFds = {}
      /\ Single /\ Known
  BY DEF Ownership, Partition
<1>6. \A i \in 1 .. Len(pool) : file[pool[i].fd] = pool[i].conn /\ pool[i].conn # None
  BY <1>1, <1>2, <1>5 DEF Known
<1>7. \A d \in deferred : file[d.fd] = d.conn /\ d.conn # None
  BY <1>1, <1>3, <1>5 DEF Known
<1>8. \A j \in 1 .. Len(cqes) : Accepted(j) => file[cqes[j].fd] = cqes[j].conn /\ cqes[j].conn # None
  BY <1>1, <1>4, <1>5 DEF Known
<1>9. /\ \A f \in Fds : file[f] # None => file[f] \in arrived \ backlog
      /\ \A f, g \in Fds : file[f] = file[g] /\ file[f] # None => f = g
  BY DEF Bound
<1>10. \A i, j \in 1 .. Len(pool) : pool[i].conn = pool[j].conn => i = j
  BY <1>2, <1>5, <1>6, <1>9 DEF Single
<1>11. \A d, e \in deferred : d.conn = e.conn => d = e
  BY <1>3, <1>5, <1>7, <1>9 DEF Single
<1>12. \A i \in 1 .. Len(pool), d \in deferred : pool[i].conn # d.conn /\ pool[i].fd # d.fd
  BY <1>2, <1>3, <1>5, <1>6, <1>7, <1>9
<1>13. \A i \in 1 .. Len(pool), j \in 1 .. Len(cqes) :
         Accepted(j) => pool[i].conn # cqes[j].conn /\ pool[i].fd # cqes[j].fd
  BY <1>2, <1>4, <1>5, <1>6, <1>8, <1>9
<1>14. \A d \in deferred, j \in 1 .. Len(cqes) : Accepted(j) => d.conn # cqes[j].conn /\ d.fd # cqes[j].fd
  BY <1>3, <1>4, <1>5, <1>7, <1>8, <1>9
<1>15. \A i \in 1 .. Len(pool) : pool[i].conn \in arrived \ backlog
  BY <1>2, <1>6, <1>9
<1>16. \A d \in deferred : d.conn \in arrived \ backlog
  BY <1>3, <1>7, <1>9
<1>. QED BY <1>6, <1>7, <1>10, <1>11, <1>12, <1>13, <1>14, <1>15, <1>16

\* So each has been seen.
LEMMA AllSeen ==
  ASSUME TypeOK, Ownership, Bound
  PROVE  /\ \A i \in 1 .. Len(pool) : ~Unseen(pool[i].conn)
         /\ \A d \in deferred : ~Unseen(d.conn)
BY Different DEF Unseen

\* What pending_pool_remove() leaves.
LEMMA WithoutFacts ==
  ASSUME TypeOK, NEW i \in 1 .. Len(pool), pool' = Without(i)
  PROVE  /\ pool' \in Seq(Entries) /\ Len(pool') = Len(pool) - 1
         /\ \A j \in 1 .. Len(pool') : pool'[j] = (IF j = i THEN pool[Len(pool)] ELSE pool[j])
<1>1. /\ pool \in Seq(Entries) /\ Len(pool) \in Nat \ {0} /\ Len(pool) \in 1 .. Len(pool)
      /\ pool[Len(pool)] \in Entries
  BY PoolFacts
<1>. DEFINE p == [pool EXCEPT ![i] = pool[Len(pool)]]
            n == Len(pool) - 1
<1>2. /\ p \in Seq(Entries) /\ Len(p) = Len(pool)
      /\ \A j \in 1 .. Len(pool) : p[j] = IF j = i THEN pool[Len(pool)] ELSE pool[j]
  BY <1>1, ExceptSeq
<1>. HIDE DEF p
<1>3. \A j \in 1 .. n : p[j] \in Entries
  BY <1>1, <1>2, ElementOfSeq
<1>4. pool' = SubSeq(p, 1, n)
  BY DEF Without, p
<1>5. /\ pool' \in Seq(Entries) /\ Len(pool') = (IF 1 <= n THEN n - 1 + 1 ELSE 0)
      /\ \A j \in 1 .. n - 1 + 1 : pool'[j] = p[1 + j - 1]
  <2>1. n \in Int /\ 1 \in Int
    BY <1>1
  <2>. HIDE DEF n
  <2>. QED BY <1>3, <1>4, <2>1, SubSeqProperties
<1>6. Len(pool') = n /\ \A j \in 1 .. n : pool'[j] = p[j]
  <2>0. Len(pool) \in Nat \ {0}
    BY <1>1
  <2>1. n \in Nat
    BY <2>0
  <2>. HIDE DEF n
  <2>2. \A j \in 1 .. n : 1 + j - 1 = j
    BY <2>1
  <2>. QED BY <1>5, <2>1, <2>2
<1>. QED BY <1>1, <1>2, <1>5, <1>6

\* Those in the pool afterwards were in it before, and are others than number i.
LEMMA WithoutEntries ==
  ASSUME TypeOK, Single, NEW i \in 1 .. Len(pool), pool' = Without(i)
  PROVE  /\ \A j \in 1 .. Len(pool') : \E k \in 1 .. Len(pool) : k # i /\ pool'[j] = pool[k]
         /\ \A k \in 1 .. Len(pool) : k # i => \E j \in 1 .. Len(pool') : pool'[j] = pool[k]
         /\ \A j, k \in 1 .. Len(pool') : pool'[j].fd = pool'[k].fd => j = k
         /\ PoolFds' = PoolFds \ {pool[i].fd}
<1>1. Len(pool) \in Nat /\ Len(pool) \in 1 .. Len(pool)
  BY PoolFacts
<1>2. /\ Len(pool') = Len(pool) - 1
      /\ \A j \in 1 .. Len(pool') : pool'[j] = (IF j = i THEN pool[Len(pool)] ELSE pool[j])
  BY WithoutFacts
<1>3. ASSUME NEW j \in 1 .. Len(pool')
      PROVE  \E k \in 1 .. Len(pool) : k # i /\ pool'[j] = pool[k] /\ k = (IF j = i THEN Len(pool) ELSE j)
  <2>1. CASE j = i
    <3>1. Len(pool) # i
      BY <1>1, <1>2, <2>1
    <3>. QED BY <1>1, <1>2, <2>1, <3>1
  <2>2. CASE j # i
    <3>1. j \in 1 .. Len(pool)
      BY <1>1, <1>2
    <3>. QED BY <1>2, <2>2, <3>1
  <2>. QED BY <2>1, <2>2
<1>4. ASSUME NEW k \in 1 .. Len(pool), k # i
      PROVE  \E j \in 1 .. Len(pool') : pool'[j] = pool[k]
  <2>1. CASE k = Len(pool)
    <3>1. i \in 1 .. Len(pool')
      BY <1>1, <1>2, <1>4, <2>1
    <3>. QED BY <1>2, <2>1, <3>1
  <2>2. CASE k # Len(pool)
    <3>1. k \in 1 .. Len(pool')
      BY <1>1, <1>2, <2>2
    <3>. QED BY <1>2, <1>4, <3>1
  <2>. QED BY <2>1, <2>2
<1>5. ASSUME NEW j \in 1 .. Len(pool'), NEW k \in 1 .. Len(pool'), pool'[j].fd = pool'[k].fd
      PROVE  j = k
  <2>1. PICK l \in 1 .. Len(pool) : pool'[j] = pool[l] /\ l = (IF j = i THEN Len(pool) ELSE j)
    BY <1>3
  <2>2. PICK m \in 1 .. Len(pool) : pool'[k] = pool[m] /\ m = (IF k = i THEN Len(pool) ELSE k)
    BY <1>3
  <2>3. l = m
    BY <1>5, <2>1, <2>2 DEF Single
  <2>. QED BY <1>1, <1>2, <2>1, <2>2, <2>3
<1>6. PoolFds' = PoolFds \ {pool[i].fd}
  <2>1. \A j \in 1 .. Len(pool') : pool'[j].fd \in PoolFds \ {pool[i].fd}
    BY <1>3 DEF Single, PoolFds
  <2>2. \A k \in 1 .. Len(pool) : pool[k].fd # pool[i].fd => pool[k].fd \in PoolFds'
    BY <1>4 DEF PoolFds
  <2>3. PoolFds' \subseteq PoolFds \ {pool[i].fd}
    BY <2>1 DEF PoolFds
  <2>4. PoolFds \ {pool[i].fd} \subseteq PoolFds'
    BY <2>2 DEF PoolFds
  <2>. QED BY <2>3, <2>4
<1>. QED BY <1>3, <1>4, <1>5, <1>6

\* The completions when one comes,
LEMMA AppendedFacts ==
  ASSUME TypeOK, NEW q \in Completions, cqes' = Append(cqes, q)
  PROVE  /\ cqes' \in Seq(Completions) /\ Len(cqes') = Len(cqes) + 1 /\ cqes'[Len(cqes) + 1] = q
         /\ \A j \in 1 .. Len(cqes) : cqes'[j] = cqes[j]
         /\ NewFds' = NewFds \cup (IF q.op = "accept" THEN {q.fd} ELSE {})
<1>1. Len(cqes) \in Nat
  BY CompletionFacts
<1>2. /\ cqes' \in Seq(Completions) /\ Len(cqes') = Len(cqes) + 1 /\ cqes'[Len(cqes) + 1] = q
      /\ \A j \in 1 .. Len(cqes) : cqes'[j] = cqes[j]
  BY CompletionFacts, AppendProperties
<1>3. ASSUME NEW j \in 1 .. Len(cqes'), cqes'[j].op = "accept"
      PROVE  cqes'[j].fd \in NewFds \cup (IF q.op = "accept" THEN {q.fd} ELSE {})
  <2>1. CASE j \in 1 .. Len(cqes)
    BY <1>2, <1>3, <2>1 DEF NewFds, Accepted
  <2>2. CASE j = Len(cqes) + 1
    BY <1>2, <1>3, <2>2
  <2>. QED BY <1>1, <1>2, <2>1, <2>2
<1>4. \A j \in 1 .. Len(cqes) : Accepted(j) => cqes[j].fd \in NewFds'
  <2>1. \A j \in 1 .. Len(cqes) : j \in 1 .. Len(cqes')
    BY <1>1, <1>2
  <2>. QED BY <1>2, <2>1 DEF NewFds, Accepted
<1>5. q.op = "accept" => q.fd \in NewFds'
  <2>1. Len(cqes) + 1 \in 1 .. Len(cqes')
    BY <1>1, <1>2
  <2>. QED BY <1>2, <2>1 DEF NewFds, Accepted
<1>6. NewFds' \subseteq NewFds \cup (IF q.op = "accept" THEN {q.fd} ELSE {})
  BY <1>3 DEF NewFds, Accepted
<1>7. NewFds \subseteq NewFds'
  BY <1>4 DEF NewFds
<1>. QED BY <1>2, <1>5, <1>6, <1>7

\* and when one was seen.
LEMMA SeenFacts ==
  ASSUME TypeOK, Ownership, Bound, Operations, cqes # << >>, cqes' = Tail(cqes)
  PROVE  /\ Head(cqes) = cqes[1] /\ 1 \in 1 .. Len(cqes) /\ cqes' \in Seq(Completions)
         /\ \A j \in 1 .. Len(cqes') : j + 1 \in 1 .. Len(cqes) /\ j + 1 # 1 /\ cqes'[j] = cqes[j + 1]
         /\ \A k \in 1 .. Len(cqes) : k # 1 => k - 1 \in 1 .. Len(cqes') /\ cqes'[k - 1] = cqes[k]
         /\ NewFds' = NewFds \ (IF Accepted(1) THEN {cqes[1].fd} ELSE {})
<1>1. /\ cqes \in Seq(Completions) /\ Len(cqes) \in Nat \ {0} /\ Head(cqes) = cqes[1]
  BY CompletionFacts, EmptySeq
<1>2. /\ cqes' \in Seq(Completions) /\ Len(cqes') = Len(cqes) - 1
      /\ \A j \in 1 .. Len(cqes') : cqes'[j] = cqes[j + 1]
  BY <1>1, HeadTailProperties
<1>3. \A j \in 1 .. Len(cqes') : j + 1 \in 1 .. Len(cqes) /\ j + 1 # 1 /\ cqes'[j] = cqes[j + 1]
  BY <1>1, <1>2
<1>4. ASSUME NEW k \in 1 .. Len(cqes), k # 1 PROVE k - 1 \in 1 .. Len(cqes') /\ cqes'[k - 1] = cqes[k]
  <2>1. k - 1 \in 1 .. Len(cqes') /\ (k - 1) + 1 = k
    BY <1>1, <1>2, <1>4
  <2>. QED BY <1>2, <2>1
<1>5. \A k \in 1 .. Len(cqes) : Accepted(1) /\ Accepted(k) /\ k # 1 => cqes[k].fd # cqes[1].fd
  <2>1. 1 \in 1 .. Len(cqes)
    BY <1>1
  <2>. QED BY <2>1 DEF Ownership, Known, Operations
<1>6. NewFds' \subseteq NewFds \ (IF Accepted(1) THEN {cqes[1].fd} ELSE {})
  <2>. SUFFICES ASSUME NEW j \in 1 .. Len(cqes'), cqes'[j].op = "accept"
                PROVE  cqes'[j].fd \in NewFds /\ (Accepted(1) => cqes'[j].fd # cqes[1].fd)
    BY DEF NewFds, Accepted
  <2>. QED BY <1>3, <1>5 DEF NewFds, Accepted
<1>7. NewFds \ (IF Accepted(1) THEN {cqes[1].fd} ELSE {}) \subseteq NewFds'
  <2>. SUFFICES ASSUME NEW k \in 1 .. Len(cqes), Accepted(k), ~Accepted(1) \/ cqes[k].fd # cqes[1].fd
                PROVE  cqes[k].fd \in NewFds'
    BY DEF NewFds
  <2>1. k # 1
    OBVIOUS
  <2>. QED BY <1>4, <2>1 DEF NewFds, Accepted
<1>. QED BY <1>1, <1>2, <1>3, <1>4, <1>6, <1>7

-----------------------------------------------------------------------------
(* What keeps the parts of the invariant. *)

\* The pool afterwards has no other connections than before, the completions are
\* those from number d + 1.
PoolFrom == \A j \in 1 .. Len(pool') : \E k \in 1 .. Len(pool) :
              pool'[j].fd = pool[k].fd /\ pool'[j].conn = pool[k].conn
CqesFrom(d) == \A j \in 1 .. Len(cqes') : j + d \in 1 .. Len(cqes) /\ cqes'[j] = cqes[j + d]

LEMMA SameCqes == ASSUME TypeOK, cqes' = cqes PROVE CqesFrom(0) /\ NewFds' = NewFds
<1>1. \A j \in 1 .. Len(cqes) : j + 0 = j
  BY CompletionFacts
<1>2. NewFds' = NewFds
  BY DEF NewFds, Accepted
<1>. QED BY <1>1, <1>2 DEF CqesFrom

LEMMA FewerOperations ==
  ASSUME TypeOK, Operations, PoolFrom, NEW d \in {0, 1}, CqesFrom(d), inflight' \subseteq inflight,
         UNCHANGED <<arrived, backlog>>
  PROVE  Operations'
<1>1. /\ \A o \in inflight' : o.conn \in arrived \ backlog
      /\ \A o, p \in inflight' : o.conn = p.conn => o = p
  BY DEF Operations
<1>2. \A i \in 1 .. Len(cqes') : cqes'[i].conn \in arrived \ backlog
  BY DEF Operations, CqesFrom
<1>3. \A o \in inflight', i \in 1 .. Len(cqes') : o.conn # cqes'[i].conn
  BY DEF Operations, CqesFrom
<1>4. ASSUME NEW i \in 1 .. Len(cqes'), NEW j \in 1 .. Len(cqes'), cqes'[i].conn = cqes'[j].conn
      PROVE  i = j
  <2>0. /\ i + d \in 1 .. Len(cqes) /\ cqes'[i] = cqes[i + d]
        /\ j + d \in 1 .. Len(cqes) /\ cqes'[j] = cqes[j + d]
    BY DEF CqesFrom
  <2>1. i + d = j + d
    BY <1>4, <2>0 DEF Operations
  <2>. QED BY <2>1
<1>5. \A o \in inflight', i \in 1 .. Len(pool') : pool'[i].conn = o.conn => pool'[i].fd = o.fd
  BY DEF Operations, PoolFrom
<1>6. ASSUME NEW i \in 1 .. Len(pool'), NEW j \in 1 .. Len(cqes'), pool'[i].conn = cqes'[j].conn
      PROVE  pool'[i].fd = cqes'[j].fd
  <2>1. PICK k \in 1 .. Len(pool) : pool'[i].fd = pool[k].fd /\ pool'[i].conn = pool[k].conn
    BY DEF PoolFrom
  <2>2. j + d \in 1 .. Len(cqes) /\ cqes'[j] = cqes[j + d]
    BY DEF CqesFrom
  <2>3. pool[k].conn = cqes[j + d].conn
    BY <1>6, <2>1, <2>2
  <2>4. pool[k].fd = cqes[j + d].fd
    BY <2>2, <2>3 DEF Operations
  <2>. QED BY <2>1, <2>2, <2>4
<1>. QED BY <1>1, <1>2, <1>3, <1>4, <1>5, <1>6 DEF Operations

\* The parts of Ownership, where the pool has no other connections than before.
LEMMA KnownFrom ==
  ASSUME TypeOK, Known, PoolFrom, NEW d \in {0, 1}, CqesFrom(d), UNCHANGED deferred,
         \A i \in 1 .. Len(pool') : file'[pool'[i].fd] = file[pool'[i].fd],
         \A e \in deferred : file'[e.fd] = file[e.fd],
         \A i \in 1 .. Len(cqes') : cqes'[i].op = "accept" => file'[cqes'[i].fd] = file[cqes'[i].fd]
  PROVE  Known'
<1>1. ASSUME NEW i \in 1 .. Len(pool') PROVE file'[pool'[i].fd] = pool'[i].conn
  <2>1. PICK k \in 1 .. Len(pool) : pool'[i].fd = pool[k].fd /\ pool'[i].conn = pool[k].conn
    BY DEF PoolFrom
  <2>. QED BY <2>1 DEF Known
<1>2. \A i \in 1 .. Len(cqes') : cqes'[i].op = "accept" => file'[cqes'[i].fd] = cqes'[i].conn
  BY DEF Known, CqesFrom, Accepted
<1>. QED BY <1>1, <1>2 DEF Known, Accepted

LEMMA CloseFacts ==
  ASSUME TypeOK, NEW f \in Fds, Close(f)
  PROVE  /\ \A g \in Fds : file'[g] = IF g = f THEN None ELSE file[g]
         /\ OpenFds' = OpenFds \ {f}
         /\ Bound /\ UNCHANGED <<arrived, backlog>> => Bound'
         /\ file' \in [Fds -> Conns \cup {None}]
<1>1. file \in [Fds -> Conns \cup {None}]
  BY DEF TypeOK, KernelOK
<1>2. \A g \in Fds : file'[g] = IF g = f THEN None ELSE file[g]
  BY <1>1 DEF Close
<1>3. OpenFds' = OpenFds \ {f}
  BY <1>2 DEF OpenFds
<1>4. Bound /\ UNCHANGED <<arrived, backlog>> => Bound'
  BY <1>2 DEF Bound
<1>5. file' \in [Fds -> Conns \cup {None}]
  BY <1>1 DEF Close
<1>. QED BY <1>2, <1>3, <1>4, <1>5

LEMMA OpenFacts ==
  ASSUME TypeOK, NEW f \in Fds, NEW c \in Conns, file' = [file EXCEPT ![f] = c]
  PROVE  /\ \A g \in Fds : file'[g] = IF g = f THEN c ELSE file[g]
         /\ OpenFds' = OpenFds \cup {f}
         /\ file' \in [Fds -> Conns \cup {None}]
<1>1. file \in [Fds -> Conns \cup {None}] /\ c # None
  BY HttpServerAssumption DEF TypeOK, KernelOK
<1>2. \A g \in Fds : file'[g] = IF g = f THEN c ELSE file[g]
  BY <1>1
<1>3. OpenFds' = OpenFds \cup {f}
  BY <1>1, <1>2 DEF OpenFds
<1>. QED BY <1>1, <1>2, <1>3

\* Entries that no descriptor that closes belongs to.
LEMMA StillThere ==
  ASSUME TypeOK, Ownership
  PROVE  /\ \A i \in 1 .. Len(pool) : pool[i].fd \in PoolFds /\ pool[i].fd \in Fds
         /\ \A d \in deferred : d.fd \in TaskFds /\ d.fd \in Fds
         /\ \A i \in 1 .. Len(cqes) : Accepted(i) => cqes[i].fd \in NewFds /\ cqes[i].fd \in Fds
BY PoolFacts, TaskFacts, CompletionFacts DEF PoolFds, TaskFds, NewFds

\* A pending connection leaves the pool and is closed.
LEMMA EntryCloses ==
  ASSUME TypeOK, Ownership, Bound, NEW i \in 1 .. Len(pool), pool' = Without(i), Close(pool[i].fd),
         UNCHANGED <<deferred, handed>>, NEW d \in {0, 1}, CqesFrom(d), NewFds' = NewFds
  PROVE  Ownership' /\ PoolFrom
<1>. DEFINE f == pool[i].fd
<1>1. f \in Fds /\ f \in PoolFds /\ Single /\ Known /\ Partition
  BY StillThere DEF Ownership
<1>2. /\ \A g \in Fds : file'[g] = IF g = f THEN None ELSE file[g]
      /\ OpenFds' = OpenFds \ {f}
  BY <1>1, CloseFacts
<1>3. /\ \A j \in 1 .. Len(pool') : \E k \in 1 .. Len(pool) : k # i /\ pool'[j] = pool[k]
      /\ \A j, k \in 1 .. Len(pool') : pool'[j].fd = pool'[k].fd => j = k
      /\ PoolFds' = PoolFds \ {f}
  BY <1>1, WithoutEntries
<1>. HIDE DEF f
<1>4. TaskFds' = TaskFds
  BY DEF TaskFds
<1>5. Partition'
  BY <1>1, <1>2, <1>3, <1>4 DEF Partition
<1>6. Single'
  BY <1>1, <1>3 DEF Single
<1>7. PoolFrom
  BY <1>3 DEF PoolFrom
<1>8. \A j \in 1 .. Len(pool') : file'[pool'[j].fd] = file[pool'[j].fd]
  BY <1>1, <1>2, <1>3, StillThere DEF Single, f
<1>9. \A e \in deferred : file'[e.fd] = file[e.fd]
  BY <1>1, <1>2, StillThere DEF Partition
<1>10. \A j \in 1 .. Len(cqes') : cqes'[j].op = "accept" => file'[cqes'[j].fd] = file[cqes'[j].fd]
  <2>1. \A j \in 1 .. Len(cqes) : cqes[j].op = "accept" => cqes[j].fd \in Fds /\ cqes[j].fd # f
    BY <1>1, StillThere DEF Partition, Accepted
  <2>. QED BY <1>2, <2>1 DEF CqesFrom
<1>11. Known'
  BY <1>1, <1>7, <1>8, <1>9, <1>10, KnownFrom
<1>. QED BY <1>5, <1>6, <1>7, <1>11 DEF Ownership

\* Steps after which the connections of the pool are the same.
Links == /\ Len(pool') = Len(pool)
         /\ \A i \in 1 .. Len(pool) : pool'[i].fd = pool[i].fd /\ pool'[i].conn = pool[i].conn

LEMMA SameLinks ==
  ASSUME TypeOK, Ownership, Links, UNCHANGED <<file, deferred, handed>>,
         NEW d \in {0, 1}, CqesFrom(d), NewFds' = NewFds
  PROVE  Ownership' /\ PoolFrom /\ PoolFds' = PoolFds
<1>1. Single /\ Known /\ Partition /\ Len(pool) \in Nat
  BY PoolFacts DEF Ownership
<1>2. PoolFds' = PoolFds
  BY DEF Links, PoolFds
<1>3. PoolFrom
  BY DEF Links, PoolFrom
<1>4. TaskFds' = TaskFds /\ OpenFds' = OpenFds
  BY DEF TaskFds, OpenFds
<1>5. Partition'
  BY <1>1, <1>2, <1>4 DEF Partition
<1>6. Single'
  BY <1>1 DEF Single, Links
<1>7. Known'
  BY <1>1, <1>3, KnownFrom
<1>. QED BY <1>2, <1>3, <1>5, <1>6, <1>7 DEF Ownership

\* pending_pool_add().
LEMMA AddFacts ==
  ASSUME TypeOK, NEW f \in Fds, NEW c \in Conns, Add(f, c)
  PROVE  \/ /\ Len(pool) < cap /\ file' = [file EXCEPT ![f] = c]
            /\ pool' \in Seq(Entries) /\ Len(pool') = Len(pool) + 1
            /\ \A i \in 1 .. Len(pool) : pool'[i] = pool[i]
            /\ pool'[Len(pool) + 1] = Entry(f, c)
            /\ PoolFds' = PoolFds \cup {f}
         \/ pool' = pool /\ Close(f)
<1>1. pool \in Seq(Entries) /\ Len(pool) \in Nat
  BY PoolFacts
<1>2. Entry(f, c) \in Entries
  <2>1. << >> \in Seq(Requests) /\ 0 \in 0 .. MaxRequests
    BY HttpServerAssumption, EmptySeq
  <2>. QED BY <2>1 DEF Entry, Entries
<1>3. CASE Len(pool) < cap
  <2>1. pool' = Append(pool, Entry(f, c)) /\ file' = [file EXCEPT ![f] = c]
    BY <1>3 DEF Add
  <2>2. /\ pool' \in Seq(Entries) /\ Len(pool') = Len(pool) + 1
        /\ \A i \in 1 .. Len(pool) : pool'[i] = pool[i]
        /\ pool'[Len(pool) + 1] = Entry(f, c)
    BY <1>1, <1>2, <2>1, AppendProperties
  <2>3. Entry(f, c).fd = f
    BY DEF Entry
  <2>4. \A i \in 1 .. Len(pool') : pool'[i].fd \in PoolFds \cup {f}
    <3>. SUFFICES ASSUME NEW i \in 1 .. Len(pool') PROVE pool'[i].fd \in PoolFds \cup {f}
      OBVIOUS
    <3>1. i \in 1 .. Len(pool) \/ i = Len(pool) + 1
      BY <1>1, <2>2
    <3>. QED BY <2>2, <2>3, <3>1 DEF PoolFds
  <2>5. \A i \in 1 .. Len(pool) + 1 : pool'[i].fd \in PoolFds'
    BY <2>2 DEF PoolFds
  <2>6. \A i \in 1 .. Len(pool) : pool[i].fd \in PoolFds'
    <3>1. \A i \in 1 .. Len(pool) : i \in 1 .. Len(pool) + 1
      BY <1>1
    <3>. QED BY <2>2, <2>5, <3>1
  <2>7. f \in PoolFds'
    <3>1. Len(pool) + 1 \in 1 .. Len(pool) + 1
      BY <1>1
    <3>. QED BY <2>2, <2>3, <2>5, <3>1
  <2>8. PoolFds' \subseteq PoolFds \cup {f}
    BY <2>4 DEF PoolFds
  <2>9. PoolFds \subseteq PoolFds'
    BY <2>6 DEF PoolFds
  <2>. QED BY <1>3, <2>1, <2>2, <2>7, <2>8, <2>9
<1>4. CASE ~(Len(pool) < cap)
  BY <1>4 DEF Add, Close
<1>. QED BY <1>3, <1>4

LEMMA UntouchedKeeps ==
  ASSUME Untouched,
         \A c \in Conns : Unseen(c)' => Unseen(c) /\ taken'[c] = taken[c] /\ replies'[c] = replies[c]
  PROVE  Untouched'
BY DEF Untouched

LEMMA RepliesForm == ASSUME TypeOK PROVE RepliesInOrder <=> \A c \in Conns : InOrder(replies[c], c)
<1>1. \A c \in Conns : replies[c] \in Seq(Requests)
  BY DEF TypeOK, ClientsOK
<1>2. \A c \in Conns : DOMAIN replies[c] = 1 .. Len(replies[c])
  BY <1>1, LenProperties
<1>. QED BY <1>2 DEF RepliesInOrder, InOrder

LEMMA NoReplies ==
  ASSUME Order, UNCHANGED <<replies, deferred>>
  PROVE  Handling' /\ RepliesInOrder'
BY DEF Order, Handling, RepliesInOrder

LEMMA OneReply ==
  ASSUME TypeOK, replies' \in [Conns -> Seq(Requests)], Order, NEW c \in Conns, NEW r, replies' = [replies EXCEPT ![c] = Append(@, r)],
         InOrder(Append(replies[c], r), c), deferred' \subseteq deferred, \A d \in deferred' : d.conn # c
  PROVE  /\ Handling' /\ RepliesInOrder' /\ replies'[c] = Append(replies[c], r)
         /\ \A b \in Conns : b # c => replies'[b] = replies[b]
<1>1. replies'[c] = Append(replies[c], r) /\ \A b \in Conns : b # c => replies'[b] = replies[b]
  BY DEF TypeOK, ClientsOK
<1>2. \A b \in Conns : InOrder(replies[b], b)
  BY RepliesForm DEF Order
<1>3. \A b \in Conns : InOrder(replies'[b], b)
  BY <1>1, <1>2
<1>4. RepliesInOrder'
  <2>1. \A b \in Conns : replies'[b] \in Seq(Requests)
    OBVIOUS
  <2>2. \A b \in Conns : DOMAIN replies'[b] = 1 .. Len(replies'[b])
    BY <2>1, LenProperties
  <2>. QED BY <1>3, <2>2 DEF RepliesInOrder, InOrder
<1>5. ASSUME NEW d \in deferred' PROVE InOrder(Append(replies'[d.conn], d.request), d.conn)
  <2>1. d.conn \in Conns /\ d.conn # c
    BY TaskFacts
  <2>. QED BY <1>1, <2>1 DEF Order, Handling
<1>6. Handling'
  BY <1>5 DEF Handling
<1>. QED BY <1>1, <1>4, <1>6

\* What fits goes on to fit when no completion of its connection comes or goes.
SameFor(c) == /\ \A j \in 1 .. Len(cqes') : cqes'[j].conn = c => \E k \in 1 .. Len(cqes) : cqes[k] = cqes'[j]
              /\ \A k \in 1 .. Len(cqes) : cqes[k].conn = c => \E j \in 1 .. Len(cqes') : cqes'[j] = cqes[k]

LEMMA FitsKeeps ==
  ASSUME NEW s, NEW c, NEW t, Fits(s, c, t, cqes), SameFor(c)
  PROVE  Fits(s, c, t, cqes')
<1>1. InOrder(s, c)
  BY DEF Fits
<1>2. ASSUME Pure(s), \A j \in 1 .. Len(cqes') : cqes'[j].conn # c PROVE t = Len(s)
  BY <1>2 DEF Fits, SameFor
<1>3. ASSUME Pure(s), NEW j \in 1 .. Len(cqes'), cqes'[j].conn = c
      PROVE  InOrder(s \o cqes'[j].data, c) /\ t = Len(s \o cqes'[j].data)
  <2>1. PICK k \in 1 .. Len(cqes) : cqes[k] = cqes'[j]
    BY <1>3 DEF SameFor
  <2>2. InOrder(s \o cqes[k].data, c) /\ t = Len(s \o cqes[k].data)
    BY <1>3, <2>1 DEF Fits
  <2>. QED BY <2>1, <2>2
<1>. QED BY <1>1, <1>2, <1>3 DEF Fits

LEMMA BuffersKeep ==
  ASSUME Buffers,
         \A i \in 1 .. Len(pool') : \E k \in 1 .. Len(pool) :
           /\ pool'[i].conn = pool[k].conn /\ pool'[i].buf = pool[k].buf
           /\ replies'[pool[k].conn] = replies[pool[k].conn] /\ taken'[pool[k].conn] = taken[pool[k].conn]
           /\ SameFor(pool[k].conn)
  PROVE  Buffers'
<1>. SUFFICES ASSUME NEW i \in 1 .. Len(pool')
              PROVE  Fits(replies'[pool'[i].conn] \o pool'[i].buf, pool'[i].conn, taken'[pool'[i].conn], cqes')
  BY DEF Buffers, Stream
<1>1. PICK k \in 1 .. Len(pool) :
        /\ pool'[i].conn = pool[k].conn /\ pool'[i].buf = pool[k].buf
        /\ replies'[pool[k].conn] = replies[pool[k].conn] /\ taken'[pool[k].conn] = taken[pool[k].conn]
        /\ SameFor(pool[k].conn)
  OBVIOUS
<1>2. Fits(replies[pool[k].conn] \o pool[k].buf, pool[k].conn, taken[pool[k].conn], cqes)
  BY DEF Buffers, Stream
<1>3. Fits(replies[pool[k].conn] \o pool[k].buf, pool[k].conn, taken[pool[k].conn], cqes')
  BY <1>1, <1>2, FitsKeeps
<1>. QED BY <1>1, <1>3

LEMMA SameForAll == ASSUME cqes' = cqes PROVE \A c : SameFor(c)
BY DEF SameFor

\* Steps that leave the descriptors, the requests that were read and the answers alone.
SameEntries == /\ Len(pool') = Len(pool)
               /\ \A i \in 1 .. Len(pool) : /\ pool'[i].fd = pool[i].fd /\ pool'[i].conn = pool[i].conn
                                            /\ pool'[i].buf = pool[i].buf

LEMMA QuietStep ==
  ASSUME IInv, SameEntries, UNCHANGED <<uring, file, deferred, handed, backlog, arrived, inflight, cqes, replies, taken>>
  PROVE  Ownership' /\ Bound' /\ Operations' /\ Order'
<1>1. TypeOK /\ Ownership /\ Bound /\ Operations /\ Order /\ Links /\ CqesFrom(0) /\ NewFds' = NewFds
  BY SameCqes DEF IInv, SameEntries, Links
<1>2. Ownership' /\ PoolFrom
  BY <1>1, SameLinks
<1>3. Bound'
  BY <1>1 DEF Bound
<1>4. Operations'
  BY <1>1, <1>2, FewerOperations
<1>5. Untouched'
  BY <1>1, UntouchedKeeps DEF Unseen, Accepted, Order
<1>6. Buffers'
  <2>1. \A c : SameFor(c)
    BY SameForAll
  <2>2. Len(pool') = Len(pool) /\ \A i \in 1 .. Len(pool) : pool'[i].conn = pool[i].conn /\ pool'[i].buf = pool[i].buf
    BY DEF SameEntries
  <2>. QED BY <1>1, <2>1, <2>2, BuffersKeep DEF Order
<1>7. Handling' /\ RepliesInOrder'
  BY <1>1, NoReplies
<1>. QED BY <1>2, <1>3, <1>4, <1>5, <1>6, <1>7 DEF Order

-----------------------------------------------------------------------------
(* The steps that leave descriptors and requests alone, and those of the clients. *)

LEMMA InitInv == Init => IInv
<1>. SUFFICES ASSUME Init PROVE IInv
  OBVIOUS
<1>1. /\ uring \in BOOLEAN /\ cap \in Nat /\ stopping \in BOOLEAN /\ phase = "between" /\ index = 0 /\ ready = {}
      /\ pool = << >> /\ Len(pool) = 0 /\ deferred = {} /\ handed = {} /\ backlog = {} /\ inflight = {}
      /\ cqes = << >> /\ Len(cqes) = 0 /\ arrived = {} /\ gone = {} /\ todo = {}
  BY HttpServerAssumption, EmptySeq DEF Init
<1>2. ServerOK
  BY <1>1, EmptySeq DEF ServerOK
<1>3. KernelOK
  BY <1>1, EmptySeq DEF KernelOK, Init
<1>4. ClientsOK
  BY <1>1, EmptySeq DEF ClientsOK, Init
<1>5. TypeOK
  BY <1>2, <1>3, <1>4 DEF TypeOK
<1>6. Kinds
  BY <1>1 DEF Kinds
<1>7. PoolFds = {} /\ TaskFds = {} /\ NewFds = {} /\ OpenFds = {}
  BY <1>1 DEF PoolFds, TaskFds, NewFds, OpenFds, Init
<1>8. Ownership
  BY <1>1, <1>7 DEF Ownership, Partition, Single, Known
<1>9. Bound
  BY <1>1 DEF Bound, Init
<1>10. Operations
  BY <1>1 DEF Operations
<1>11. Untouched
  BY DEF Untouched, Init
<1>12. Buffers /\ Handling
  BY <1>1 DEF Buffers, Handling
<1>13. RepliesInOrder
  <2>1. \A c \in Conns : DOMAIN replies[c] = {}
    BY DEF Init
  <2>. QED BY <2>1 DEF RepliesInOrder
<1>14. EachPolledOnce
  BY <1>1 DEF EachPolledOnce
<1>. QED BY <1>5, <1>6, <1>8, <1>9, <1>10, <1>11, <1>12, <1>13, <1>14 DEF IInv, Order

\* The variables that are left alone keep their types.
LEMMA SameTypes ==
  ASSUME TypeOK
  PROVE  /\ UNCHANGED <<build, server, stopping>> => ServerOK'
         /\ UNCHANGED kernel => KernelOK'
         /\ UNCHANGED <<clients, taken, replies, todo>> => ClientsOK'
<1>1. UNCHANGED <<build, server, stopping>> => ServerOK'
  BY DEF TypeOK, ServerOK, build, server
<1>2. UNCHANGED kernel => KernelOK'
  BY DEF TypeOK, KernelOK, kernel
<1>3. UNCHANGED <<clients, taken, replies, todo>> => ClientsOK'
  BY DEF TypeOK, ClientsOK, clients
<1>. QED BY <1>1, <1>2, <1>3

\* Kinds and EachPolledOnce are of what these variables say.
LEMMA SamePhase ==
  ASSUME IInv
  PROVE  /\ UNCHANGED <<uring, phase, inflight, cqes>> => Kinds'
         /\ UNCHANGED <<phase, index, pool, todo>> => EachPolledOnce'
<1>1. UNCHANGED <<uring, phase, inflight, cqes>> => Kinds'
  BY DEF IInv, Kinds
<1>2. UNCHANGED <<phase, index, pool, todo>> => EachPolledOnce'
  BY DEF IInv, EachPolledOnce
<1>. QED BY <1>1, <1>2

LEMMA ClientsInv ==
  ASSUME IInv, NEW c \in Conns, SendRequest(c) \/ HangUp(c) PROVE IInv'
<1>. USE DEF IInv
<1>1. /\ UNCHANGED <<build, server, stopping, kernel, arrived, taken, replies, todo>>
      /\ (sent' = [sent EXCEPT ![c] = @ + 1] /\ gone' = gone) \/ (sent' = sent /\ gone' = gone \cup {c})
  BY DEF SendRequest, HangUp
<1>2. ServerOK' /\ KernelOK'
  BY <1>1, SameTypes
<1>3. ClientsOK'
  <2>1. /\ arrived \subseteq Conns /\ gone \subseteq Conns /\ todo \subseteq Conns
        /\ sent \in [Conns -> Nat] /\ taken \in [Conns -> Nat] /\ \A b \in Conns : taken[b] <= sent[b]
        /\ replies \in [Conns -> Seq(Requests)]
    BY DEF TypeOK, ClientsOK
  <2>2. sent' \in [Conns -> Nat] /\ \A b \in Conns : taken[b] <= sent'[b]
    <3>1. CASE sent' = sent
      BY <2>1, <3>1
    <3>2. CASE sent' = [sent EXCEPT ![c] = @ + 1]
      <4>1. sent' \in [Conns -> Nat] /\ \A b \in Conns : sent'[b] = IF b = c THEN sent[b] + 1 ELSE sent[b]
        BY <2>1, <3>2
      <4>2. \A b \in Conns : taken[b] \in Nat /\ sent[b] \in Nat
        BY <2>1
      <4>. QED BY <2>1, <4>1, <4>2
    <3>. QED BY <1>1, <3>1, <3>2
  <2>3. gone' \subseteq Conns
    BY <1>1, <2>1
  <2>. QED BY <1>1, <2>1, <2>2, <2>3 DEF ClientsOK
<1>4. Kinds' /\ EachPolledOnce'
  BY <1>1, SamePhase DEF build, server, kernel
<1>5. SameEntries /\ UNCHANGED <<uring, file, deferred, handed, backlog, arrived, inflight, cqes, replies, taken>>
  BY <1>1 DEF SameEntries, build, server, kernel
<1>6. Ownership' /\ Bound' /\ Operations' /\ Order'
  BY <1>5, QuietStep
<1>. QED BY <1>2, <1>3, <1>4, <1>6 DEF TypeOK

LEMMA SignalInv == ASSUME IInv, Signal PROVE IInv'
<1>. USE DEF IInv
<1>1. stopping' = TRUE /\ UNCHANGED <<build, server, kernel, clients, taken, replies, todo>>
  BY DEF Signal
<1>2. KernelOK' /\ ClientsOK'
  BY <1>1, SameTypes
<1>3. ServerOK'
  BY <1>1 DEF TypeOK, ServerOK, build, server
<1>4. Kinds' /\ EachPolledOnce'
  BY <1>1, SamePhase DEF build, server, kernel
<1>5. SameEntries /\ UNCHANGED <<uring, file, deferred, handed, backlog, arrived, inflight, cqes, replies, taken>>
  BY <1>1 DEF SameEntries, build, server, kernel, clients
<1>6. Ownership' /\ Bound' /\ Operations' /\ Order'
  BY <1>5, QuietStep
<1>. QED BY <1>2, <1>3, <1>4, <1>6 DEF TypeOK

LEMMA TimePassesInv == ASSUME IInv, NEW i \in DOMAIN pool, TimePasses(i) PROVE IInv'
<1>. USE DEF IInv
<1>1. /\ pool' = [pool EXCEPT ![i].quiet = TRUE] /\ phase = "between"
      /\ UNCHANGED <<build, phase, index, ready, deferred, handed, stopping, kernel, clients, taken, replies, todo>>
  BY DEF TimePasses
<1>2. i \in 1 .. Len(pool) /\ pool \in Seq(Entries) /\ pool[i] \in Entries
  BY PoolFacts
<1>. DEFINE e == [pool[i] EXCEPT !.quiet = TRUE]
<1>3. e \in Entries /\ e.fd = pool[i].fd /\ e.conn = pool[i].conn /\ e.buf = pool[i].buf
  BY <1>2 DEF Entries
<1>4. pool' = [pool EXCEPT ![i] = e]
  BY <1>1
<1>. HIDE DEF e
<1>5. /\ pool' \in Seq(Entries) /\ Len(pool') = Len(pool)
      /\ \A j \in 1 .. Len(pool) : pool'[j] = IF j = i THEN e ELSE pool[j]
  BY <1>2, <1>3, <1>4, ExceptSeq
<1>6. KernelOK' /\ ClientsOK'
  BY <1>1, SameTypes
<1>7. ServerOK'
  BY <1>1, <1>5 DEF TypeOK, ServerOK, build
<1>8. Kinds' /\ EachPolledOnce'
  BY <1>1, SamePhase DEF EachPolledOnce, build, kernel
<1>9. SameEntries /\ UNCHANGED <<uring, file, deferred, handed, backlog, arrived, inflight, cqes, replies, taken>>
  BY <1>1, <1>3, <1>5 DEF SameEntries, build, kernel, clients
<1>10. Ownership' /\ Bound' /\ Operations' /\ Order'
  BY <1>9, QuietStep
<1>. QED BY <1>6, <1>7, <1>8, <1>10 DEF TypeOK

LEMMA PhaseInv == ASSUME IInv, BeginTick \/ EndAccept \/ EndPoll PROVE IInv'
<1>. USE DEF IInv
<1>1. UNCHANGED <<build, pool, deferred, handed, stopping, kernel, clients, taken, replies>>
  BY DEF BeginTick, EndAccept, EndPoll
<1>2. KernelOK'
  BY <1>1, SameTypes
<1>3. /\ phase' \in {"between", "accept", "reap", "poll"} /\ index' \in Nat /\ ready' \subseteq Fds
      /\ todo' \subseteq Conns /\ (phase' = "poll" => index' = Len(pool))
      /\ (phase' = "reap" => uring) /\ (phase' = "accept" => ~uring) /\ EachPolledOnce'
  <2>1. CASE BeginTick
    BY <2>1 DEF BeginTick, TypeOK, ServerOK, ClientsOK, EachPolledOnce
  <2>2. CASE EndPoll
    <3>1. todo = {}
      BY <2>2 DEF EndPoll, EachPolledOnce
    <3>. QED BY <2>2, <3>1 DEF EndPoll, TypeOK, ServerOK, ClientsOK, EachPolledOnce
  <2>3. CASE EndAccept
    <3>1. PICK parts \in SUBSET {pool[i].fd : i \in DOMAIN pool} :
            /\ ready' = parts \cup {pool[i].fd : i \in {j \in DOMAIN pool : Readable(pool[j].conn)}}
            /\ BeginPoll
      BY <2>3 DEF EndAccept
    <3>2. phase' = "poll" /\ index' = Len(pool) /\ todo' = {pool[i].conn : i \in 1 .. Len(pool)}
      BY <3>1, PoolFacts DEF BeginPoll
    <3>3. ready' \subseteq Fds
      BY <3>1, PoolFacts
    <3>4. todo' \subseteq Conns /\ index' \in Nat
      BY <3>2, PoolFacts
    <3>5. EachPolledOnce'
      BY <1>1, <3>2 DEF EachPolledOnce
    <3>. QED BY <3>2, <3>3, <3>4, <3>5
  <2>. QED BY <2>1, <2>2, <2>3
<1>4. ServerOK'
  BY <1>1, <1>3 DEF TypeOK, ServerOK, build
<1>5. ClientsOK'
  BY <1>1, <1>3 DEF TypeOK, ClientsOK, clients
<1>6. Kinds'
  BY <1>1, <1>3 DEF Kinds, build, kernel
<1>7. SameEntries /\ UNCHANGED <<uring, file, deferred, handed, backlog, arrived, inflight, cqes, replies, taken>>
  BY <1>1 DEF SameEntries, build, kernel, clients
<1>8. Ownership' /\ Bound' /\ Operations' /\ Order'
  BY <1>7, QuietStep
<1>. QED BY <1>2, <1>3, <1>4, <1>5, <1>6, <1>8 DEF TypeOK

LEMMA ConnectInv == ASSUME IInv, NEW c \in Conns, Connect(c) PROVE IInv'
<1>. USE DEF IInv
<1>1. /\ c \notin arrived /\ arrived' = arrived \cup {c} /\ backlog' = backlog \cup {c}
      /\ UNCHANGED <<build, server, stopping, file, inflight, cqes, sent, gone, taken, replies, todo>>
  BY DEF Connect
<1>2. ServerOK'
  BY <1>1, SameTypes
<1>3. KernelOK' /\ ClientsOK'
  BY <1>1 DEF TypeOK, KernelOK, ClientsOK
<1>4. Kinds' /\ EachPolledOnce'
  BY <1>1, SamePhase DEF build, server
<1>5. Links /\ UNCHANGED <<file, deferred, handed>> /\ CqesFrom(0) /\ NewFds' = NewFds
  BY <1>1, SameCqes DEF Links, server
<1>6. Ownership' /\ PoolFrom
  BY <1>5, SameLinks
<1>7. arrived' \ backlog' = arrived \ backlog /\ backlog' \subseteq arrived'
  BY <1>1 DEF Bound
<1>8. Bound'
  BY <1>1, <1>7 DEF Bound
<1>9. Operations'
  BY <1>1, <1>7 DEF Operations, server
<1>10. Untouched'
  BY <1>1, <1>7, UntouchedKeeps DEF Unseen, Accepted, Order
<1>11. Buffers'
  <2>1. \A b : SameFor(b)
    BY <1>1, SameForAll
  <2>. QED BY <1>1, <2>1, BuffersKeep DEF Order, server
<1>12. Handling' /\ RepliesInOrder'
  BY <1>1, NoReplies DEF server
<1>. QED BY <1>2, <1>3, <1>4, <1>6, <1>8, <1>9, <1>10, <1>11, <1>12 DEF TypeOK, Order

-----------------------------------------------------------------------------
(* A round of the poll. *)

LEMMA RoundFacts ==
  ASSUME TypeOK, Kinds, Round \/ Read
  PROVE  /\ index \in 1 .. Len(pool) /\ phase \in {"poll", "frame"} /\ Polled = pool[index]
         /\ Polled \in Entries /\ Polled.fd \in Fds /\ Polled.conn \in Conns /\ Polled.buf \in Seq(Requests)
<1>1. phase \in {"poll", "frame"} /\ index > 0
  BY DEF Round, Read, TypeOK, ServerOK
<1>2. index \in 1 .. Len(pool)
  BY <1>1, PoolFacts DEF TypeOK, ServerOK
<1>. QED BY <1>1, <1>2, PoolFacts DEF Polled

LEMMA RoundPolls ==
  ASSUME IInv, index \in 1 .. Len(pool), phase \in {"poll", "frame"}, NextRound,
         \A j \in 1 .. Len(pool) : j < index => pool'[j].conn = pool[j].conn
  PROVE  EachPolledOnce' /\ todo' \subseteq Conns
<1>1. phase' = "poll" /\ index' = index - 1 /\ todo' = todo \ {pool[index].conn}
  BY DEF NextRound, Polled
<1>2. todo = {pool[i].conn : i \in 1 .. index}
  BY DEF IInv, EachPolledOnce
<1>3. Len(pool) \in Nat /\ \A i, j \in 1 .. Len(pool) : pool[i].conn = pool[j].conn => i = j
  BY PoolFacts, Different DEF IInv
<1>4. \A i \in 1 .. index - 1 : i \in 1 .. index /\ i \in 1 .. Len(pool) /\ i < index /\ i # index
  BY <1>3
<1>5. \A i \in 1 .. index : i # index => i \in 1 .. index - 1
  BY <1>3
<1>6. todo' = {pool[i].conn : i \in 1 .. index - 1}
  BY <1>1, <1>2, <1>3, <1>4, <1>5
<1>7. {pool[i].conn : i \in 1 .. index - 1} = {pool'[i].conn : i \in 1 .. index - 1}
  BY <1>4
<1>8. EachPolledOnce'
  BY <1>1, <1>6, <1>7 DEF EachPolledOnce
<1>9. todo' \subseteq Conns
  BY <1>1 DEF IInv, TypeOK, ClientsOK
<1>. QED BY <1>8, <1>9

\* What a round that ends keeps of the types.
LEMMA RoundTypes ==
  ASSUME IInv, index \in 1 .. Len(pool), phase \in {"poll", "frame"}, NextRound,
         pool' \in Seq(Entries), Len(pool') \in {Len(pool), Len(pool) - 1},
         UNCHANGED <<build, ready, stopping>>
  PROVE  /\ deferred' \subseteq [fd : Fds, conn : Conns, request : Requests] /\ handed' \subseteq Fds => ServerOK'
         /\ UNCHANGED <<inflight, cqes>> => Kinds'
<1>1. phase' = "poll" /\ index' = index - 1
  BY DEF NextRound
<1>2. Len(pool) \in Nat /\ Len(pool) <= cap /\ cap \in Nat /\ uring \in BOOLEAN /\ stopping \in BOOLEAN /\ ready \subseteq Fds
  BY PoolFacts DEF IInv, TypeOK, ServerOK
<1>3. index' \in Nat /\ index' <= Len(pool') /\ Len(pool') <= cap
  BY <1>1, <1>2
<1>4. deferred' \subseteq [fd : Fds, conn : Conns, request : Requests] /\ handed' \subseteq Fds => ServerOK'
  BY <1>1, <1>2, <1>3 DEF ServerOK, build
<1>5. UNCHANGED <<inflight, cqes>> => Kinds'
  BY <1>1 DEF IInv, Kinds, build
<1>. QED BY <1>4, <1>5

\* The connection that is polled leaves the pool.
LEMMA RemoveFacts ==
  ASSUME IInv, index \in 1 .. Len(pool), phase \in {"poll", "frame"}, Remove, UNCHANGED <<build, ready, stopping>>
  PROVE  /\ pool' = Without(index) /\ EachPolledOnce' /\ todo' \subseteq Conns
         /\ deferred' \subseteq [fd : Fds, conn : Conns, request : Requests] /\ handed' \subseteq Fds => ServerOK'
         /\ UNCHANGED <<inflight, cqes>> => Kinds'
<1>1. TypeOK /\ pool' = Without(index) /\ NextRound /\ Len(pool) \in Nat
  BY PoolFacts DEF IInv, Remove
<1>2. /\ pool' \in Seq(Entries) /\ Len(pool') = Len(pool) - 1
      /\ \A j \in 1 .. Len(pool') : pool'[j] = (IF j = index THEN pool[Len(pool)] ELSE pool[j])
  BY <1>1, WithoutFacts
<1>3. \A j \in 1 .. Len(pool) : j < index => pool'[j].conn = pool[j].conn
  BY <1>1, <1>2
<1>4. EachPolledOnce' /\ todo' \subseteq Conns
  BY <1>1, <1>3, RoundPolls
<1>. QED BY <1>1, <1>2, <1>4, RoundTypes

\* Those left are the others.
LEMMA RemoveEntries ==
  ASSUME IInv, NEW i \in 1 .. Len(pool), pool' = Without(i)
  PROVE  /\ PoolFrom
         /\ \A j \in 1 .. Len(pool') : \E k \in 1 .. Len(pool) :
              pool'[j] = pool[k] /\ pool[k].conn # pool[i].conn
<1>1. TypeOK /\ Single /\ Ownership /\ Bound
  BY DEF IInv, Ownership
<1>2. \A j \in 1 .. Len(pool') : \E k \in 1 .. Len(pool) : k # i /\ pool'[j] = pool[k]
  BY <1>1, WithoutEntries
<1>3. \A k \in 1 .. Len(pool) : k # i => pool[k].conn # pool[i].conn
  BY <1>1, Different
<1>. QED BY <1>2, <1>3 DEF PoolFrom

\* Nothing was read, nobody new is seen.
LEMMA SameUnseen ==
  ASSUME UNCHANGED <<arrived, backlog, cqes>>
  PROVE  \A c \in Conns : Unseen(c)' => Unseen(c)
<1>1. \A i \in 1 .. Len(cqes) : Accepted(i)' <=> Accepted(i)
  BY DEF Accepted
<1>. QED BY <1>1 DEF Unseen

\* The first request of connection i and what is left.
LEMMA FirstFacts ==
  ASSUME IInv, NEW i \in 1 .. Len(pool), pool[i].buf # << >>
  PROVE  LET c == pool[i].conn
             r == Head(pool[i].buf)
         IN  /\ c \in Conns /\ r \in Requests /\ Tail(pool[i].buf) \in Seq(Requests)
             /\ replies[c] \in Seq(Requests) /\ Append(replies[c], r) \in Seq(Requests)
             /\ Append(replies[c], r) \o Tail(pool[i].buf) = Stream(i)
             /\ InOrder(Append(replies[c], r), c)
<1>. DEFINE c == pool[i].conn
            r == Head(pool[i].buf)
<1>1. c \in Conns /\ pool[i].buf \in Seq(Requests) /\ replies[c] \in Seq(Requests)
  BY PoolFacts DEF IInv, TypeOK, ClientsOK
<1>2. /\ r \in Requests /\ Tail(pool[i].buf) \in Seq(Requests) /\ Append(replies[c], r) \in Seq(Requests)
      /\ Append(replies[c], r) \o Tail(pool[i].buf) = Stream(i)
  BY <1>1, Shift DEF Stream
<1>3. InOrder(Stream(i), c)
  BY DEF IInv, Order, Buffers, Fits
<1>. HIDE DEF c, r
<1>4. InOrder(Append(replies[c], r), c)
  BY <1>2, <1>3, OrderPrefix
<1>. QED BY <1>1, <1>2, <1>4 DEF c, r

\* An answer is the next of its connection's.
LEMMA ReplyFacts ==
  ASSUME IInv, NEW i \in 1 .. Len(pool), pool[i].buf # << >>, Reply(pool[i].fd, Head(pool[i].buf)),
         UNCHANGED <<clients, taken>>, todo' \subseteq Conns, deferred' = deferred
  PROVE  LET c == pool[i].conn IN
         /\ ClientsOK' /\ Handling' /\ RepliesInOrder'
         /\ replies'[c] = Append(replies[c], Head(pool[i].buf))
         /\ \A b \in Conns : b # c => replies'[b] = replies[b]
         /\ ~Unseen(c)
<1>. DEFINE c == pool[i].conn
            r == Head(pool[i].buf)
<1>1. TypeOK /\ Ownership /\ Bound /\ Order
  BY DEF IInv
<1>2. /\ c \in Conns /\ r \in Requests /\ Append(replies[c], r) \in Seq(Requests)
      /\ InOrder(Append(replies[c], r), c)
  BY FirstFacts
<1>3. replies' = [replies EXCEPT ![c] = Append(@, r)]
  BY <1>1, Different DEF Reply
<1>4. ~Unseen(c) /\ \A d \in deferred : d.conn # c
  BY <1>1, AllSeen, Different
<1>. HIDE DEF c, r
<1>5. replies' \in [Conns -> Seq(Requests)]
  BY <1>1, <1>2, <1>3 DEF TypeOK, ClientsOK
<1>6. ClientsOK'
  BY <1>1, <1>5 DEF TypeOK, ClientsOK, clients
<1>7. /\ Handling' /\ RepliesInOrder' /\ replies'[c] = Append(replies[c], r)
      /\ \A b \in Conns : b # c => replies'[b] = replies[b]
  BY <1>1, <1>2, <1>3, <1>4, <1>5, OneReply
<1>. QED BY <1>4, <1>6, <1>7 DEF c, r

LEMMA WaitInv == ASSUME IInv, Wait PROVE IInv'
<1>. USE DEF IInv
<1>1. NextRound /\ Read /\ UNCHANGED <<build, ready, pool, deferred, handed, stopping, kernel, clients, taken, replies>>
  BY DEF Wait
<1>2. index \in 1 .. Len(pool) /\ phase \in {"poll", "frame"} /\ pool \in Seq(Entries)
  BY <1>1, RoundFacts, PoolFacts
<1>3. EachPolledOnce' /\ todo' \subseteq Conns
  BY <1>1, <1>2, RoundPolls
<1>4. ServerOK' /\ Kinds'
  BY <1>1, <1>2, RoundTypes DEF TypeOK, ServerOK, kernel
<1>5. KernelOK'
  BY <1>1, SameTypes
<1>6. ClientsOK'
  BY <1>1, <1>3 DEF TypeOK, ClientsOK, clients
<1>7. SameEntries /\ UNCHANGED <<uring, file, deferred, handed, backlog, arrived, inflight, cqes, replies, taken>>
  BY <1>1 DEF SameEntries, build, kernel, clients
<1>8. Ownership' /\ Bound' /\ Operations' /\ Order'
  BY <1>7, QuietStep
<1>. QED BY <1>3, <1>4, <1>5, <1>6, <1>8 DEF TypeOK

\* A connection that leaves the pool unanswered and is closed.
LEMMA DropInv == ASSUME IInv, RecvEnd \/ Drop PROVE IInv'
<1>. USE DEF IInv
<1>1. /\ Round \/ Read
      /\ Remove /\ Close(pool[index].fd)
      /\ UNCHANGED <<build, ready, deferred, handed, stopping, backlog, inflight, cqes, clients, taken, replies>>
  BY DEF RecvEnd, Drop, Polled
<1>2. index \in 1 .. Len(pool) /\ phase \in {"poll", "frame"} /\ pool[index].fd \in Fds
  BY <1>1, RoundFacts, PoolFacts
<1>3. pool' = Without(index) /\ EachPolledOnce' /\ todo' \subseteq Conns /\ ServerOK' /\ Kinds'
  BY <1>1, <1>2, RemoveFacts DEF TypeOK, ServerOK
<1>4. Bound' /\ file' \in [Fds -> Conns \cup {None}]
  BY <1>1, <1>2, CloseFacts DEF clients
<1>5. KernelOK' /\ ClientsOK'
  BY <1>1, <1>3, <1>4 DEF TypeOK, KernelOK, ClientsOK, clients
<1>6. CqesFrom(0) /\ NewFds' = NewFds
  BY <1>1, SameCqes
<1>7. Ownership' /\ PoolFrom
  BY <1>1, <1>2, <1>3, <1>6, EntryCloses
<1>8. Operations'
  BY <1>1, <1>6, <1>7, FewerOperations DEF clients
<1>9. Untouched'
  BY <1>1, SameUnseen, UntouchedKeeps DEF Order, clients
<1>10. Buffers'
  <2>1. \A c : SameFor(c)
    BY <1>1, SameForAll
  <2>2. \A j \in 1 .. Len(pool') : \E k \in 1 .. Len(pool) : pool'[j] = pool[k] /\ pool[k].conn # pool[index].conn
    BY <1>2, <1>3, RemoveEntries
  <2>. QED BY <1>1, <2>1, <2>2, BuffersKeep DEF Order
<1>11. Handling' /\ RepliesInOrder'
  BY <1>1, NoReplies
<1>. QED BY <1>3, <1>4, <1>5, <1>7, <1>8, <1>9, <1>10, <1>11 DEF TypeOK, Order

\* The rest of what a connection that was answered and leaves the pool takes.
LEMMA AnsweredLeaves ==
  ASSUME IInv, NEW i \in 1 .. Len(pool), pool[i].buf # << >>, Reply(pool[i].fd, Head(pool[i].buf)),
         pool' = Without(i), UNCHANGED <<deferred, backlog, inflight, cqes, clients, taken>>, todo' \subseteq Conns
  PROVE  ClientsOK' /\ Operations' /\ Order'
<1>. USE DEF IInv
<1>. DEFINE c == pool[i].conn
<1>1. /\ ClientsOK' /\ Handling' /\ RepliesInOrder' /\ ~Unseen(c)
      /\ \A b \in Conns : b # c => replies'[b] = replies[b]
  BY ReplyFacts
<1>2. /\ PoolFrom
      /\ \A j \in 1 .. Len(pool') : \E k \in 1 .. Len(pool) : pool'[j] = pool[k] /\ pool[k].conn # c
  BY RemoveEntries
<1>. HIDE DEF c
<1>3. CqesFrom(0)
  BY SameCqes
<1>4. Operations'
  BY <1>2, <1>3, FewerOperations DEF clients
<1>5. \A b \in Conns : Unseen(b)' => Unseen(b)
  BY SameUnseen DEF clients
<1>6. Untouched'
  BY <1>1, <1>5, UntouchedKeeps DEF Order
<1>7. Buffers'
  <2>1. \A b : SameFor(b)
    BY SameForAll
  <2>2. \A k \in 1 .. Len(pool) : pool[k].conn \in Conns
    BY PoolFacts
  <2>. QED BY <1>1, <1>2, <2>1, <2>2, BuffersKeep DEF Order
<1>. QED BY <1>1, <1>4, <1>6, <1>7 DEF Order

LEMMA AnswerAndCloseInv == ASSUME IInv, AnswerAndClose PROVE IInv'
<1>. USE DEF IInv
<1>1. /\ Read /\ pool[index].buf # << >> /\ Reply(pool[index].fd, Head(pool[index].buf))
      /\ Close(pool[index].fd) /\ Remove
      /\ UNCHANGED <<build, ready, deferred, handed, stopping, backlog, inflight, cqes, clients, taken>>
  BY DEF AnswerAndClose, Framed, Polled
<1>2. index \in 1 .. Len(pool) /\ phase \in {"poll", "frame"} /\ pool[index].fd \in Fds
  BY <1>1, RoundFacts, PoolFacts
<1>3. pool' = Without(index) /\ EachPolledOnce' /\ todo' \subseteq Conns /\ ServerOK' /\ Kinds'
  BY <1>1, <1>2, RemoveFacts DEF TypeOK, ServerOK
<1>4. Bound' /\ file' \in [Fds -> Conns \cup {None}]
  BY <1>1, <1>2, CloseFacts DEF clients
<1>5. KernelOK'
  BY <1>1, <1>4 DEF TypeOK, KernelOK
<1>6. CqesFrom(0) /\ NewFds' = NewFds
  BY <1>1, SameCqes
<1>7. Ownership'
  BY <1>1, <1>2, <1>3, <1>6, EntryCloses
<1>8. ClientsOK' /\ Operations' /\ Order'
  BY <1>1, <1>2, <1>3, AnsweredLeaves
<1>. QED BY <1>3, <1>4, <1>5, <1>7, <1>8 DEF TypeOK

LEMMA KeepOpenInv == ASSUME IInv, KeepOpen PROVE IInv'
<1>. USE DEF IInv
<1>. DEFINE f == pool[index].fd
<1>1. /\ Read /\ pool[index].buf # << >> /\ Reply(f, Head(pool[index].buf))
      /\ Remove /\ handed' = handed \cup {f}
      /\ UNCHANGED <<build, ready, deferred, stopping, kernel, clients, taken>>
  BY DEF KeepOpen, Framed, Polled
<1>2. index \in 1 .. Len(pool) /\ phase \in {"poll", "frame"} /\ f \in Fds /\ f \in PoolFds
  BY <1>1, RoundFacts, StillThere
<1>3. pool' = Without(index) /\ EachPolledOnce' /\ todo' \subseteq Conns /\ ServerOK' /\ Kinds'
  <2>1. handed' \subseteq Fds
    BY <1>1, <1>2 DEF TypeOK, ServerOK
  <2>. HIDE DEF f
  <2>. QED BY <1>1, <1>2, <2>1, RemoveFacts DEF TypeOK, ServerOK, kernel
<1>4. Bound' /\ KernelOK'
  BY <1>1, SameTypes DEF Bound, kernel, clients
<1>5. /\ \A j \in 1 .. Len(pool') : \E k \in 1 .. Len(pool) : k # index /\ pool'[j] = pool[k]
      /\ \A j, k \in 1 .. Len(pool') : pool'[j].fd = pool'[k].fd => j = k
      /\ PoolFds' = PoolFds \ {f}
  BY <1>2, <1>3, WithoutEntries DEF Ownership
<1>6. CqesFrom(0) /\ NewFds' = NewFds /\ PoolFrom
  BY <1>1, <1>5, SameCqes DEF PoolFrom, kernel
<1>7. Ownership'
  <2>. HIDE DEF f
  <2>1. TaskFds' = TaskFds /\ OpenFds' = OpenFds
    BY <1>1 DEF TaskFds, OpenFds, kernel
  <2>2. Partition'
    BY <1>1, <1>2, <1>5, <1>6, <2>1 DEF Ownership, Partition
  <2>3. Single'
    BY <1>1, <1>5 DEF Ownership, Single
  <2>4. Known'
    BY <1>1, <1>6, KnownFrom DEF Ownership, kernel
  <2>. QED BY <2>2, <2>3, <2>4 DEF Ownership
<1>8. ClientsOK' /\ Operations' /\ Order'
  BY <1>1, <1>2, <1>3, AnsweredLeaves DEF kernel
<1>. QED BY <1>3, <1>4, <1>7, <1>8 DEF TypeOK

\* The handler becomes a task and takes the connection with it.
LEMMA DeferInv == ASSUME IInv, Defer PROVE IInv'
<1>. USE DEF IInv
<1>. DEFINE f == pool[index].fd
            c == pool[index].conn
            r == Head(pool[index].buf)
            d == [fd |-> f, conn |-> c, request |-> r]
<1>1. /\ Read /\ pool[index].buf # << >> /\ Remove /\ deferred' = deferred \cup {d}
      /\ UNCHANGED <<build, ready, handed, stopping, kernel, clients, taken, replies>>
  BY DEF Defer, Framed, Polled, Task
<1>2. index \in 1 .. Len(pool) /\ phase \in {"poll", "frame"} /\ f \in Fds /\ f \in PoolFds
  BY <1>1, RoundFacts, StillThere
<1>3. /\ c \in Conns /\ r \in Requests /\ InOrder(Append(replies[c], r), c) /\ file[f] = c
      /\ \A e \in deferred : e.fd # f
  BY <1>1, <1>2, FirstFacts, Different
<1>4. d \in [fd : Fds, conn : Conns, request : Requests] /\ d.fd = f /\ d.conn = c /\ d.request = r
  BY <1>2, <1>3
<1>. HIDE DEF f, c, r, d
<1>5. pool' = Without(index) /\ EachPolledOnce' /\ todo' \subseteq Conns /\ ServerOK' /\ Kinds'
  <2>1. deferred' \subseteq [fd : Fds, conn : Conns, request : Requests] /\ handed' \subseteq Fds
    BY <1>1, <1>4 DEF TypeOK, ServerOK
  <2>. QED BY <1>1, <1>2, <2>1, RemoveFacts DEF kernel
<1>6. Bound' /\ KernelOK' /\ ClientsOK'
  BY <1>1, <1>5, SameTypes DEF Bound, TypeOK, ClientsOK, kernel, clients
<1>7. /\ \A j \in 1 .. Len(pool') : \E k \in 1 .. Len(pool) : k # index /\ pool'[j] = pool[k]
      /\ \A j, k \in 1 .. Len(pool') : pool'[j].fd = pool'[k].fd => j = k
      /\ PoolFds' = PoolFds \ {f}
  BY <1>2, <1>5, WithoutEntries DEF Ownership, f
<1>8. CqesFrom(0) /\ NewFds' = NewFds /\ PoolFrom
  BY <1>1, <1>7, SameCqes DEF PoolFrom, kernel
<1>9. Ownership'
  <2>1. TaskFds' = TaskFds \cup {f}
    BY <1>1, <1>4 DEF TaskFds
  <2>2. OpenFds' = OpenFds
    BY <1>1 DEF OpenFds, kernel
  <2>3. Partition'
    BY <1>1, <1>2, <1>7, <1>8, <2>1, <2>2 DEF Ownership, Partition
  <2>4. Single'
    BY <1>1, <1>3, <1>4, <1>7 DEF Ownership, Single
  <2>5. \A i \in 1 .. Len(pool') : file'[pool'[i].fd] = pool'[i].conn
    BY <1>1, <1>7 DEF Ownership, Known, kernel
  <2>6. \A e \in deferred' : file'[e.fd] = e.conn
    BY <1>1, <1>3, <1>4 DEF Ownership, Known, kernel
  <2>7. \A i \in 1 .. Len(cqes') : cqes'[i].op = "accept" => file'[cqes'[i].fd] = cqes'[i].conn
    BY <1>1 DEF Ownership, Known, Accepted, kernel
  <2>8. Known'
    BY <2>5, <2>6, <2>7 DEF Known, Accepted
  <2>. QED BY <2>3, <2>4, <2>8 DEF Ownership
<1>10. Operations'
  BY <1>1, <1>8, FewerOperations DEF kernel, clients
<1>11. Untouched'
  BY <1>1, SameUnseen, UntouchedKeeps DEF Order, kernel, clients
<1>12. Buffers'
  <2>1. \A b : SameFor(b)
    BY <1>1, SameForAll DEF kernel
  <2>. QED BY <1>1, <1>7, <2>1, BuffersKeep DEF Order
<1>13. Handling' /\ RepliesInOrder'
  BY <1>1, <1>3, <1>4 DEF Order, Handling, RepliesInOrder
<1>. QED BY <1>5, <1>6, <1>9, <1>10, <1>11, <1>12, <1>13 DEF TypeOK, Order

\* The entry that is polled is another one with the same connection.
LEMMA EntryChanges ==
  ASSUME TypeOK, NEW i \in 1 .. Len(pool), NEW e \in Entries, pool' = [pool EXCEPT ![i] = e],
         e.fd = pool[i].fd, e.conn = pool[i].conn
  PROVE  /\ pool' \in Seq(Entries) /\ Len(pool') = Len(pool) /\ pool'[i] = e /\ Links
         /\ \A j \in 1 .. Len(pool) : j # i => pool'[j] = pool[j]
<1>1. /\ pool' \in Seq(Entries) /\ Len(pool') = Len(pool)
      /\ \A j \in 1 .. Len(pool) : pool'[j] = IF j = i THEN e ELSE pool[j]
  BY PoolFacts, ExceptSeq
<1>. QED BY <1>1 DEF Links

LEMMA AnswerInv == ASSUME IInv, Answer PROVE IInv'
<1>. USE DEF IInv
<1>. DEFINE f == pool[index].fd
            c == pool[index].conn
            b == pool[index].buf
            e == [pool[index] EXCEPT !.buf = Tail(@), !.count = @ + 1, !.quiet = FALSE]
<1>1. /\ Read /\ b # << >> /\ Reply(f, Head(b)) /\ pool[index].count + 1 < MaxRequests
      /\ pool' = [pool EXCEPT ![index] = e] /\ NextRound
      /\ UNCHANGED <<build, ready, deferred, handed, stopping, kernel, clients, taken>>
  BY DEF Answer, Framed, Polled
<1>2. index \in 1 .. Len(pool) /\ phase \in {"poll", "frame"} /\ pool[index] \in Entries
  BY <1>1, RoundFacts, PoolFacts
<1>3. /\ Tail(b) \in Seq(Requests) /\ replies[c] \in Seq(Requests)
      /\ Append(replies[c], Head(b)) \o Tail(b) = Stream(index)
  BY <1>1, <1>2, FirstFacts
<1>4. e \in Entries /\ e.fd = f /\ e.conn = c /\ e.buf = Tail(b)
  <2>1. pool[index].count + 1 \in 0 .. MaxRequests
    BY <1>1, <1>2, HttpServerAssumption DEF Entries
  <2>. QED BY <1>2, <1>3, <2>1 DEF Entries
<1>. HIDE DEF e
<1>5. /\ pool' \in Seq(Entries) /\ Len(pool') = Len(pool) /\ pool'[index] = e /\ Links
      /\ \A j \in 1 .. Len(pool) : j # index => pool'[j] = pool[j]
  BY <1>1, <1>2, <1>4, EntryChanges
<1>6. EachPolledOnce' /\ todo' \subseteq Conns
  BY <1>1, <1>2, <1>5, RoundPolls DEF Links
<1>7. ServerOK' /\ Kinds' /\ KernelOK' /\ Bound'
  BY <1>1, <1>2, <1>5, RoundTypes, SameTypes DEF TypeOK, ServerOK, Bound, kernel, clients
<1>8. /\ ClientsOK' /\ Handling' /\ RepliesInOrder' /\ ~Unseen(c)
      /\ replies'[c] = Append(replies[c], Head(b))
      /\ \A a \in Conns : a # c => replies'[a] = replies[a]
  BY <1>1, <1>2, <1>6, ReplyFacts
<1>. HIDE DEF c, b, f
<1>9. CqesFrom(0) /\ NewFds' = NewFds
  BY <1>1, SameCqes DEF kernel
<1>10. Ownership' /\ PoolFrom
  BY <1>1, <1>5, <1>9, SameLinks DEF kernel
<1>11. Operations'
  BY <1>1, <1>9, <1>10, FewerOperations DEF kernel, clients
<1>12. Untouched'
  <2>1. \A a \in Conns : Unseen(a)' => Unseen(a)
    BY <1>1, SameUnseen DEF kernel, clients
  <2>. QED BY <1>1, <1>8, <2>1, UntouchedKeeps DEF Order
<1>13. Buffers'
  <2>. SUFFICES ASSUME NEW i \in 1 .. Len(pool')
                PROVE  Fits(replies'[pool'[i].conn] \o pool'[i].buf, pool'[i].conn, taken'[pool'[i].conn], cqes')
    BY DEF Buffers, Stream
  <2>1. i \in 1 .. Len(pool) /\ cqes' = cqes /\ taken' = taken
    BY <1>1, <1>5 DEF kernel
  <2>2. Fits(Stream(i), pool[i].conn, taken[pool[i].conn], cqes)
    BY <2>1 DEF Order, Buffers
  <2>3. CASE i = index
    <3>1. pool'[i].conn = pool[i].conn /\ pool'[i].conn = c
          /\ replies'[pool'[i].conn] \o pool'[i].buf = Stream(i)
      BY <1>3, <1>4, <1>5, <1>8, <2>3 DEF c
    <3>2. Fits(Stream(i), pool[i].conn, taken'[pool[i].conn], cqes')
      BY ONLY <2>1, <2>2
    <3>. HIDE DEF Stream
    <3>. QED BY ONLY <3>1, <3>2
  <2>4. CASE i # index
    <3>1. pool'[i] = pool[i] /\ pool[i].conn \in Conns /\ pool[i].conn # c
      BY <1>2, <1>5, <2>1, <2>4, PoolFacts, Different DEF c
    <3>. QED BY <1>8, <2>1, <2>2, <3>1 DEF Stream
  <2>. QED BY <2>3, <2>4
<1>. QED BY <1>6, <1>7, <1>8, <1>10, <1>11, <1>12, <1>13 DEF TypeOK, Order

\* More of the connection that is polled was read.
LEMMA RecvInv == ASSUME IInv, Recv PROVE IInv'
<1>. USE DEF IInv
<1>. DEFINE c == pool[index].conn
            b == pool[index].buf
<1>1. PICK m \in taken[c] .. sent[c] :
        /\ Round /\ ~uring
        /\ pool' = [pool EXCEPT ![index] = [pool[index] EXCEPT !.buf = b \o Sent(c, m), !.quiet = FALSE]]
        /\ taken' = [taken EXCEPT ![c] = m] /\ phase' = "frame"
        /\ UNCHANGED <<build, index, ready, deferred, handed, stopping, kernel, clients, replies, todo>>
  BY DEF Recv, Polled
<1>2. /\ index \in 1 .. Len(pool) /\ phase \in {"poll", "frame"} /\ pool[index] \in Entries
      /\ c \in Conns /\ b \in Seq(Requests) /\ cqes = << >> /\ inflight = {}
  BY <1>1, RoundFacts, PoolFacts DEF Kinds
<1>3. /\ taken \in [Conns -> Nat] /\ sent \in [Conns -> Nat] /\ \A a \in Conns : taken[a] <= sent[a]
      /\ replies[c] \in Seq(Requests) /\ Stream(index) \in Seq(Requests)
      /\ Stream(index) = replies[c] \o b
  BY <1>2, ConcatProperties DEF TypeOK, ClientsOK, Stream
<1>4. InOrder(Stream(index), c) /\ (Pure(Stream(index)) => taken[c] = Len(Stream(index)))
  <2>1. Fits(Stream(index), c, taken[c], cqes)
    BY <1>2 DEF Order, Buffers
  <2>2. Len(cqes) = 0
    BY <1>2, EmptySeq
  <2>. QED BY <2>1, <2>2 DEF Fits
<1>. DEFINE t == Sent(c, m)
            e == [pool[index] EXCEPT !.buf = b \o t, !.quiet = FALSE]
<1>5. /\ t \in Seq(Requests) /\ InOrder(Stream(index) \o t, c)
      /\ Pure(Stream(index)) => m = Len(Stream(index) \o t)
  BY <1>2, <1>3, <1>4, SentFacts, SentFollows
<1>. HIDE DEF t
<1>6. b \o t \in Seq(Requests) /\ replies[c] \o (b \o t) = Stream(index) \o t
  <2>. HIDE DEF b, c
  <2>1. b \o t \in Seq(Requests)
    BY <1>2, <1>5, ConcatProperties
  <2>2. (replies[c] \o b) \o t = replies[c] \o (b \o t)
    BY <1>2, <1>3, <1>5, Reassociate
  <2>. QED BY <1>3, <2>1, <2>2
<1>7. e \in Entries /\ e.fd = pool[index].fd /\ e.conn = c /\ e.buf = b \o t
  BY <1>2, <1>6 DEF Entries
<1>8. pool' = [pool EXCEPT ![index] = e]
  BY <1>1 DEF t
<1>. HIDE DEF e
<1>9. /\ pool' \in Seq(Entries) /\ Len(pool') = Len(pool) /\ pool'[index] = e /\ Links
      /\ \A j \in 1 .. Len(pool) : j # index => pool'[j] = pool[j]
  BY <1>2, <1>7, <1>8, EntryChanges
<1>. HIDE DEF c, b
<1>10. /\ taken'[c] = m /\ \A a \in Conns : a # c => taken'[a] = taken[a]
       /\ taken' \in [Conns -> Nat] /\ \A a \in Conns : taken'[a] <= sent[a]
  <2>1. m \in Nat /\ m <= sent[c]
    BY <1>2, <1>3
  <2>2. taken' \in [Conns -> Nat] /\ \A a \in Conns : taken'[a] = IF a = c THEN m ELSE taken[a]
    BY <1>1, <1>2, <1>3, <2>1
  <2>. QED BY <1>2, <1>3, <2>1, <2>2
<1>11. ServerOK'
  BY <1>1, <1>2, <1>9 DEF TypeOK, ServerOK, build
<1>12. KernelOK' /\ ClientsOK'
  <2>1. KernelOK'
    BY <1>1, SameTypes
  <2>2. ClientsOK'
    BY <1>1, <1>10 DEF TypeOK, ClientsOK, clients
  <2>. QED BY <2>1, <2>2
<1>13. Kinds' /\ Bound'
  BY <1>1, <1>2 DEF Kinds, Bound, build, kernel, clients
<1>14. EachPolledOnce'
  <2>1. todo' = {pool[i].conn : i \in 1 .. index}
    BY <1>1, <1>2 DEF EachPolledOnce
  <2>2. \A i \in 1 .. index : pool'[i].conn = pool[i].conn
    BY <1>2, <1>9, PoolFacts DEF Links
  <2>3. {pool[i].conn : i \in 1 .. index} = {pool'[i].conn : i \in 1 .. index}
    BY <2>2
  <2>. QED BY <1>1, <2>1, <2>3 DEF EachPolledOnce
<1>15. CqesFrom(0) /\ NewFds' = NewFds
  BY <1>1, SameCqes DEF kernel
<1>16. Ownership' /\ PoolFrom
  BY <1>1, <1>9, <1>15, SameLinks DEF kernel
<1>17. Operations'
  BY <1>1, <1>15, <1>16, FewerOperations DEF kernel, clients
<1>18. Untouched'
  <2>1. \A a \in Conns : Unseen(a)' => Unseen(a)
    BY <1>1, SameUnseen DEF kernel, clients
  <2>2. ~Unseen(c)
    BY <1>2, AllSeen DEF c
  <2>. QED BY <1>1, <1>10, <2>1, <2>2, UntouchedKeeps DEF Order
<1>19. Buffers'
  <2>. SUFFICES ASSUME NEW i \in 1 .. Len(pool')
                PROVE  Fits(replies'[pool'[i].conn] \o pool'[i].buf, pool'[i].conn, taken'[pool'[i].conn], cqes')
    BY DEF Buffers, Stream
  <2>1. i \in 1 .. Len(pool) /\ cqes' = cqes /\ replies' = replies /\ Len(cqes') = 0
    BY <1>1, <1>2, <1>9, EmptySeq DEF kernel
  <2>2. CASE i = index
    <3>1. pool'[i].conn = c /\ taken'[pool'[i].conn] = m
          /\ replies'[pool'[i].conn] \o pool'[i].buf = Stream(index) \o t
      BY <1>6, <1>7, <1>9, <1>10, <2>1, <2>2
    <3>2. Pure(Stream(index) \o t) => Pure(Stream(index))
      BY <1>3, <1>5, PureConcat
    <3>. QED BY <1>5, <2>1, <3>1, <3>2 DEF Fits
  <2>3. CASE i # index
    <3>1. pool'[i] = pool[i] /\ pool[i].conn \in Conns /\ pool[i].conn # c
      BY <1>2, <1>9, <2>1, <2>3, PoolFacts, Different DEF c
    <3>2. Fits(Stream(i), pool[i].conn, taken[pool[i].conn], cqes)
      BY <2>1 DEF Order, Buffers
    <3>. QED BY <1>10, <2>1, <3>1, <3>2 DEF Stream
  <2>. QED BY <2>2, <2>3
<1>20. Handling' /\ RepliesInOrder'
  BY <1>1, NoReplies
<1>. QED BY <1>11, <1>12, <1>13, <1>14, <1>16, <1>17, <1>18, <1>19, <1>20 DEF TypeOK, Order

-----------------------------------------------------------------------------
(* Accepting connections, shutting down. *)

LEMMA DownInv == ASSUME IInv, Down PROVE IInv'
<1>. USE DEF IInv
<1>1. /\ phase' = "down" /\ pool' = << >> /\ backlog' = {} /\ inflight' = {}
      /\ file' = [f \in Fds |-> IF \E i \in DOMAIN pool : pool[i].fd = f THEN None ELSE file[f]]
      /\ UNCHANGED <<build, index, ready, deferred, handed, stopping, cqes, clients, taken, replies, todo>>
  BY DEF Down
<1>2. Len(pool') = 0 /\ pool' \in Seq(Entries)
  BY <1>1, EmptySeq
<1>3. \A f \in Fds : file'[f] = IF f \in PoolFds THEN None ELSE file[f]
  BY <1>1, PoolFacts DEF PoolFds
<1>4. ServerOK'
  BY <1>1, <1>2 DEF TypeOK, ServerOK, build
<1>5. KernelOK' /\ ClientsOK'
  <2>1. file' \in [Fds -> Conns \cup {None}]
    BY <1>1 DEF TypeOK, KernelOK
  <2>. QED BY <1>1, <2>1 DEF TypeOK, KernelOK, ClientsOK, clients
<1>6. Kinds' /\ EachPolledOnce'
  BY <1>1 DEF Kinds, EachPolledOnce, build
<1>7. CqesFrom(0) /\ NewFds' = NewFds /\ PoolFrom
  BY <1>1, <1>2, SameCqes DEF PoolFrom
<1>8. Ownership'
  <2>1. PoolFds' = {} /\ TaskFds' = TaskFds /\ OpenFds' = OpenFds \ PoolFds
    BY <1>1, <1>2, <1>3 DEF PoolFds, TaskFds, OpenFds
  <2>2. Partition'
    BY <1>1, <1>7, <2>1 DEF Ownership, Partition
  <2>3. Single'
    BY <1>1, <1>2 DEF Ownership, Single
  <2>4. \A e \in deferred : file'[e.fd] = file[e.fd]
    BY <1>3, StillThere DEF Ownership, Partition
  <2>5. \A i \in 1 .. Len(cqes') : cqes'[i].op = "accept" => file'[cqes'[i].fd] = file[cqes'[i].fd]
    <3>1. cqes' = cqes
      BY <1>1
    <3>. QED BY <1>3, <3>1, StillThere DEF Ownership, Partition, Accepted
  <2>6. Known'
    BY <1>1, <1>2, <1>7, <2>4, <2>5, KnownFrom DEF Ownership
  <2>. QED BY <2>2, <2>3, <2>6 DEF Ownership
<1>9. Bound'
  BY <1>1, <1>3 DEF Bound, clients
<1>10. Operations'
  BY <1>1, <1>2 DEF Operations, clients
<1>11. Untouched'
  <2>1. \A c \in Conns : Unseen(c)' => Unseen(c)
    BY <1>1 DEF Unseen, Accepted, clients
  <2>. QED BY <1>1, <2>1, UntouchedKeeps DEF Order
<1>12. Buffers'
  BY <1>2 DEF Buffers
<1>13. Handling' /\ RepliesInOrder'
  BY <1>1, NoReplies
<1>. QED BY <1>4, <1>5, <1>6, <1>8, <1>9, <1>10, <1>11, <1>12, <1>13 DEF TypeOK, Order

\* A connection that comes into the pool has nothing to its name yet.
Added(f, c) == /\ pool' \in Seq(Entries) /\ Len(pool') = Len(pool) + 1
               /\ \A i \in 1 .. Len(pool) : pool'[i] = pool[i]
               /\ pool'[Len(pool) + 1] = Entry(f, c)

LEMMA AddedFacts ==
  ASSUME TypeOK, NEW f \in Fds, NEW c \in Conns, Added(f, c)
  PROVE  \A i \in 1 .. Len(pool') : \/ i \in 1 .. Len(pool) /\ pool'[i] = pool[i]
                                    \/ /\ i = Len(pool) + 1
                                       /\ pool'[i].fd = f /\ pool'[i].conn = c /\ pool'[i].buf = << >>
<1>1. Len(pool) \in Nat
  BY PoolFacts
<1>2. Entry(f, c).fd = f /\ Entry(f, c).conn = c /\ Entry(f, c).buf = << >>
  BY DEF Entry
<1>. QED BY <1>1, <1>2 DEF Added

LEMMA AddedSingle ==
  ASSUME TypeOK, Single, NEW f \in Fds, NEW c \in Conns, Added(f, c), f \notin PoolFds,
         deferred' = deferred
  PROVE  Single'
<1>1. ASSUME NEW i \in 1 .. Len(pool'), NEW j \in 1 .. Len(pool'), pool'[i].fd = pool'[j].fd PROVE i = j
  <2>1. \A k \in 1 .. Len(pool) : pool[k].fd # f
    BY DEF PoolFds
  <2>. QED BY <1>1, <2>1, AddedFacts DEF Single
<1>. QED BY <1>1 DEF Single

LEMMA AddedBuffers ==
  ASSUME TypeOK, Buffers, Untouched, NEW f \in Fds, NEW c \in Conns, Added(f, c), Unseen(c),
         UNCHANGED <<taken, replies>>, \A i \in 1 .. Len(pool) : SameFor(pool[i].conn),
         \A j \in 1 .. Len(cqes') : cqes'[j].conn # c
  PROVE  Buffers'
<1>1. taken[c] = 0 /\ replies[c] = << >>
  BY DEF Untouched
<1>2. Fits(<< >> \o << >>, c, 0, cqes')
  <2>1. << >> \o << >> = << >> /\ Len(<< >>) = 0
    BY EmptySeq, ConcatEmptySeq
  <2>. QED BY <2>1 DEF Fits, InOrder
<1>. SUFFICES ASSUME NEW i \in 1 .. Len(pool')
              PROVE  Fits(replies'[pool'[i].conn] \o pool'[i].buf, pool'[i].conn, taken'[pool'[i].conn], cqes')
  BY DEF Buffers, Stream
<1>3. CASE i \in 1 .. Len(pool) /\ pool'[i] = pool[i]
  <2>1. Fits(replies[pool[i].conn] \o pool[i].buf, pool[i].conn, taken[pool[i].conn], cqes)
    BY <1>3 DEF Buffers, Stream
  <2>2. Fits(replies[pool[i].conn] \o pool[i].buf, pool[i].conn, taken[pool[i].conn], cqes')
    BY <1>3, <2>1, FitsKeeps
  <2>. QED BY <1>3, <2>2
<1>4. CASE pool'[i].conn = c /\ pool'[i].buf = << >>
  BY <1>1, <1>2, <1>4
<1>. QED BY <1>3, <1>4, AddedFacts

\* The connection that is accepted is nobody's yet, and so is its descriptor.
LEMMA NewFacts ==
  ASSUME IInv, NEW c \in backlog, NEW f \in Fds, Lowest(f)
  PROVE  /\ c \in Conns /\ file[f] = None /\ Unseen(c) /\ c \in arrived
         /\ f \notin OpenFds /\ f \notin PoolFds /\ f \notin TaskFds /\ f \notin NewFds /\ f \notin handed
         /\ \A i \in 1 .. Len(pool) : pool[i].conn # c
         /\ \A d \in deferred : d.conn # c
         /\ \A i \in 1 .. Len(cqes) : cqes[i].conn # c
         /\ \A o \in inflight : o.conn # c
<1>. USE DEF IInv
<1>1. c \in Conns /\ file[f] = None /\ c \in arrived /\ c \notin arrived \ backlog
  BY DEF TypeOK, KernelOK, Lowest, Bound
<1>2. f \notin OpenFds
  BY <1>1 DEF OpenFds
<1>3. Unseen(c)
  BY <1>1 DEF Unseen
<1>4. f \notin PoolFds /\ f \notin TaskFds /\ f \notin NewFds /\ f \notin handed
  BY <1>2 DEF Ownership, Partition
<1>5. (\A i \in 1 .. Len(pool) : pool[i].conn # c) /\ (\A d \in deferred : d.conn # c)
  BY <1>1, Different
<1>6. (\A i \in 1 .. Len(cqes) : cqes[i].conn # c) /\ (\A o \in inflight : o.conn # c)
  BY <1>1 DEF Operations
<1>. QED BY <1>1, <1>2, <1>3, <1>4, <1>5, <1>6

LEMMA NewBound ==
  ASSUME IInv, NEW c \in backlog, NEW f \in Fds, Lowest(f), file' = [file EXCEPT ![f] = c],
         backlog' = backlog \ {c}, arrived' = arrived
  PROVE  Bound'
<1>. USE DEF IInv
<1>1. c \in Conns /\ c \in arrived /\ \A g \in Fds : file[g] # c
  <2>1. c \in Conns /\ c \in arrived /\ c # None
    BY NewFacts, HttpServerAssumption
  <2>. QED BY <2>1 DEF Bound
<1>2. \A g \in Fds : file'[g] = IF g = f THEN c ELSE file[g]
  BY <1>1, OpenFacts
<1>. QED BY <1>1, <1>2 DEF Bound

LEMMA AcceptInv == ASSUME IInv, Accept PROVE IInv'
<1>. USE DEF IInv
<1>1. PICK c \in backlog, f \in Fds :
        /\ phase = "accept" /\ Lowest(f) /\ Add(f, c) /\ backlog' = backlog \ {c}
        /\ UNCHANGED <<build, phase, index, ready, deferred, handed, stopping, inflight, cqes, clients,
                       taken, replies, todo>>
  BY DEF Accept
<1>2. /\ c \in Conns /\ file[f] = None /\ Unseen(c) /\ c \in arrived
      /\ f \notin OpenFds /\ f \notin PoolFds /\ f \notin TaskFds /\ f \notin NewFds /\ f \notin handed
      /\ \A i \in 1 .. Len(pool) : pool[i].conn # c
      /\ \A i \in 1 .. Len(cqes) : cqes[i].conn # c
  BY <1>1, NewFacts
<1>3. cqes = << >> /\ Len(cqes) = 0 /\ inflight = {} /\ cqes' = cqes /\ inflight' = inflight
  BY <1>1, EmptySeq DEF Kinds
<1>4. Kinds' /\ EachPolledOnce'
  BY <1>1, SamePhase DEF EachPolledOnce, build
<1>5. ClientsOK'
  BY <1>1, SameTypes
<1>6. Handling' /\ RepliesInOrder'
  BY <1>1, NoReplies
<1>7. Operations'
  BY <1>3 DEF Operations
<1>8. CqesFrom(0) /\ NewFds' = NewFds /\ TaskFds' = TaskFds
  BY <1>1, SameCqes DEF TaskFds
<1>9. Untouched'
  <2>1. \A b \in Conns : Unseen(b)' => Unseen(b)
    BY <1>1 DEF Unseen, Accepted, clients
  <2>. QED BY <1>1, <2>1, UntouchedKeeps DEF Order
<1>10. CASE /\ Len(pool) < cap /\ file' = [file EXCEPT ![f] = c] /\ Added(f, c)
            /\ PoolFds' = PoolFds \cup {f}
  <2>1. /\ \A g \in Fds : file'[g] = IF g = f THEN c ELSE file[g]
        /\ OpenFds' = OpenFds \cup {f} /\ file' \in [Fds -> Conns \cup {None}]
    BY <1>2, <1>10, OpenFacts
  <2>2. ServerOK' /\ KernelOK'
    <3>1. Len(pool) \in Nat /\ cap \in Nat
      BY PoolFacts DEF TypeOK, ServerOK
    <3>2. Len(pool') <= cap
      BY <1>10, <3>1 DEF Added
    <3>. QED BY <1>1, <1>10, <2>1, <3>2 DEF TypeOK, ServerOK, KernelOK, Added, build
  <2>3. Bound'
    BY <1>1, <1>10, NewBound DEF clients
  <2>4. Partition'
    BY <1>1, <1>2, <1>8, <1>10, <2>1 DEF Ownership, Partition
  <2>5. Single'
    BY <1>1, <1>2, <1>10, AddedSingle DEF Ownership
  <2>6. Known'
    <3>1. ASSUME NEW i \in 1 .. Len(pool') PROVE file'[pool'[i].fd] = pool'[i].conn
      BY <1>2, <1>10, <2>1, AddedFacts, StillThere DEF Ownership, Known
    <3>2. ASSUME NEW d \in deferred' PROVE file'[d.fd] = d.conn
      BY <1>1, <1>2, <2>1, StillThere DEF Ownership, Known
    <3>. QED BY <1>3, <3>1, <3>2 DEF Known
  <2>7. Buffers'
    BY <1>1, <1>2, <1>3, <1>10, AddedBuffers, SameForAll DEF Order
  <2>. QED BY <1>4, <1>5, <1>6, <1>7, <1>9, <2>2, <2>3, <2>4, <2>5, <2>6, <2>7 DEF TypeOK, Ownership, Order
<1>11. CASE pool' = pool /\ Close(f)
  <2>1. file' = file
    BY <1>2, <1>11 DEF Close, TypeOK, KernelOK
  <2>2. ServerOK' /\ KernelOK'
    BY <1>1, <1>11, <2>1 DEF TypeOK, ServerOK, KernelOK, build
  <2>3. Bound'
    BY <1>1, <2>1 DEF Bound, clients
  <2>4. Ownership'
    BY <1>1, <1>8, <1>11, <2>1, SameLinks DEF Links
  <2>5. Buffers'
    BY <1>1, <1>3, <1>11, BuffersKeep, SameForAll DEF Order
  <2>. QED BY <1>4, <1>5, <1>6, <1>7, <1>9, <2>2, <2>3, <2>4, <2>5 DEF TypeOK, Order
<1>12. \/ /\ Len(pool) < cap /\ file' = [file EXCEPT ![f] = c] /\ Added(f, c)
          /\ PoolFds' = PoolFds \cup {f}
       \/ pool' = pool /\ Close(f)
  BY <1>1, <1>2, AddFacts DEF Added
<1>. QED BY <1>10, <1>11, <1>12

LEMMA KernelAcceptInv == ASSUME IInv, NEW c \in Conns, KernelAccept(c) PROVE IInv'
<1>. USE DEF IInv
<1>. DEFINE q(f) == Completion("accept", f, c, << >>)
<1>1. PICK f \in Fds :
        /\ uring /\ c \in backlog /\ Lowest(f)
        /\ file' = [file EXCEPT ![f] = c] /\ backlog' = backlog \ {c} /\ cqes' = Append(cqes, q(f))
        /\ UNCHANGED <<build, server, stopping, inflight, clients, taken, replies, todo>>
  BY DEF KernelAccept
<1>2. /\ c \in Conns /\ file[f] = None /\ Unseen(c) /\ c \in arrived
      /\ f \notin OpenFds /\ f \notin PoolFds /\ f \notin TaskFds /\ f \notin NewFds /\ f \notin handed
      /\ \A i \in 1 .. Len(pool) : pool[i].conn # c
      /\ \A d \in deferred : d.conn # c
      /\ \A i \in 1 .. Len(cqes) : cqes[i].conn # c
      /\ \A o \in inflight : o.conn # c
  BY <1>1, NewFacts
<1>3. /\ q(f) \in Completions /\ q(f).op = "accept" /\ q(f).fd = f /\ q(f).conn = c
  BY EmptySeq DEF Completion, Completions
<1>. HIDE DEF q
<1>4. /\ cqes' \in Seq(Completions) /\ Len(cqes') = Len(cqes) + 1 /\ cqes'[Len(cqes) + 1] = q(f)
      /\ \A j \in 1 .. Len(cqes) : cqes'[j] = cqes[j]
      /\ NewFds' = NewFds \cup {f}
  BY <1>1, <1>3, AppendedFacts
<1>5. \A j \in 1 .. Len(cqes') : \/ j \in 1 .. Len(cqes) /\ cqes'[j] = cqes[j]
                                 \/ j = Len(cqes) + 1 /\ cqes'[j] = q(f)
  BY <1>4, CompletionFacts
<1>6. /\ \A g \in Fds : file'[g] = IF g = f THEN c ELSE file[g]
      /\ OpenFds' = OpenFds \cup {f} /\ file' \in [Fds -> Conns \cup {None}]
  BY <1>1, OpenFacts
<1>7. ServerOK' /\ ClientsOK'
  BY <1>1, SameTypes
<1>8. KernelOK'
  BY <1>1, <1>4, <1>6 DEF TypeOK, KernelOK, Completions
<1>9. Kinds' /\ EachPolledOnce'
  BY <1>1, SamePhase DEF Kinds, build, server
<1>10. Bound'
  BY <1>1, NewBound DEF clients
<1>11. Ownership'
  <2>1. PoolFds' = PoolFds /\ TaskFds' = TaskFds /\ handed' = handed /\ deferred' = deferred /\ pool' = pool
    BY <1>1 DEF PoolFds, TaskFds, server
  <2>2. Partition'
    BY <1>2, <1>4, <1>6, <2>1 DEF Ownership, Partition
  <2>3. Single'
    BY <2>1 DEF Ownership, Single
  <2>4. \A i \in 1 .. Len(pool') : file'[pool'[i].fd] = pool'[i].conn
    BY <1>2, <1>6, <2>1, StillThere DEF Ownership, Known
  <2>5. \A d \in deferred' : file'[d.fd] = d.conn
    BY <1>2, <1>6, <2>1, StillThere DEF Ownership, Known
  <2>6. ASSUME NEW i \in 1 .. Len(cqes'), cqes'[i].op = "accept" PROVE file'[cqes'[i].fd] = cqes'[i].conn
    BY <1>2, <1>3, <1>5, <1>6, <2>6, StillThere DEF Ownership, Known, Accepted
  <2>7. Known'
    BY <2>4, <2>5, <2>6 DEF Known, Accepted
  <2>. QED BY <2>2, <2>3, <2>7 DEF Ownership
<1>12. Operations'
  <2>1. /\ inflight' = inflight /\ pool' = pool /\ arrived' = arrived /\ arrived \ backlog \subseteq arrived' \ backlog'
        /\ c \in arrived' \ backlog'
    BY <1>1, <1>2 DEF server, clients
  <2>2. \A i \in 1 .. Len(cqes') : cqes'[i].conn \in arrived' \ backlog'
    BY <1>3, <1>5, <2>1 DEF Operations
  <2>3. \A o \in inflight', i \in 1 .. Len(cqes') : o.conn # cqes'[i].conn
    BY <1>2, <1>3, <1>5, <2>1 DEF Operations
  <2>4. \A i, j \in 1 .. Len(cqes') : cqes'[i].conn = cqes'[j].conn => i = j
    BY <1>2, <1>3, <1>5 DEF Operations
  <2>5. \A i \in 1 .. Len(pool'), j \in 1 .. Len(cqes') : pool'[i].conn = cqes'[j].conn => pool'[i].fd = cqes'[j].fd
    BY <1>2, <1>3, <1>5, <2>1 DEF Operations
  <2>. QED BY <2>1, <2>2, <2>3, <2>4, <2>5 DEF Operations
<1>13. Untouched'
  <2>1. ASSUME NEW b \in Conns, Unseen(b)' PROVE Unseen(b)
    <3>1. CASE b \notin arrived' \ backlog'
      BY <1>1, <1>2, <3>1 DEF Unseen, clients
    <3>2. CASE \E i \in 1 .. Len(cqes') : cqes'[i].op = "accept" /\ cqes'[i].conn = b
      BY <1>2, <1>3, <1>5, <3>2 DEF Unseen, Accepted
    <3>. QED BY <2>1, <3>1, <3>2 DEF Unseen, Accepted
  <2>. QED BY <1>1, <2>1, UntouchedKeeps DEF Order
<1>14. Buffers'
  <2>1. ASSUME NEW b, b # c PROVE SameFor(b)
    <3>1. \A k \in 1 .. Len(cqes) : k \in 1 .. Len(cqes')
      BY <1>4, CompletionFacts
    <3>. QED BY <1>3, <1>4, <1>5, <2>1, <3>1 DEF SameFor
  <2>. QED BY <1>1, <1>2, <2>1, BuffersKeep DEF Order, server
<1>15. Handling' /\ RepliesInOrder'
  BY <1>1, NoReplies DEF server
<1>. QED BY <1>7, <1>8, <1>9, <1>10, <1>11, <1>12, <1>13, <1>14, <1>15 DEF TypeOK, Order

-----------------------------------------------------------------------------
(* Completions. *)

\* The one that is seen, and those that are left.
LEMMA ReapFacts ==
  ASSUME IInv, NEW op, Seen(op)
  PROVE  /\ phase = "reap" /\ uring /\ 1 \in 1 .. Len(cqes) /\ Head(cqes) = cqes[1] /\ cqes[1].op = op
         /\ cqes[1] \in Completions /\ cqes[1].fd \in Fds /\ cqes[1].conn \in Conns /\ cqes[1].data \in Seq(Requests)
         /\ cqes' \in Seq(Completions) /\ CqesFrom(1)
         /\ op = "accept" => NewFds' = NewFds \ {cqes[1].fd}
         /\ op # "accept" => NewFds' = NewFds
         /\ \A j \in 1 .. Len(cqes') : cqes'[j].conn # cqes[1].conn /\ \E k \in 1 .. Len(cqes) : cqes'[j] = cqes[k]
         /\ \A b : b # cqes[1].conn => SameFor(b)
         /\ UNCHANGED <<arrived, backlog>> => \A b \in Conns : Unseen(b)' => Unseen(b)
         /\ UNCHANGED <<uring, phase, inflight>> => Kinds' /\ EachPolledOnce'
<1>. USE DEF IInv
<1>1. phase = "reap" /\ uring /\ cqes # << >> /\ Head(cqes).op = op /\ cqes' = Tail(cqes)
  BY DEF Seen, Kinds
<1>2. /\ Head(cqes) = cqes[1] /\ 1 \in 1 .. Len(cqes) /\ cqes' \in Seq(Completions)
      /\ \A j \in 1 .. Len(cqes') : j + 1 \in 1 .. Len(cqes) /\ j + 1 # 1 /\ cqes'[j] = cqes[j + 1]
      /\ \A k \in 1 .. Len(cqes) : k # 1 => k - 1 \in 1 .. Len(cqes') /\ cqes'[k - 1] = cqes[k]
      /\ NewFds' = NewFds \ (IF Accepted(1) THEN {cqes[1].fd} ELSE {})
  BY <1>1, SeenFacts
<1>3. /\ cqes[1] \in Completions /\ cqes[1].fd \in Fds /\ cqes[1].conn \in Conns /\ cqes[1].data \in Seq(Requests)
  BY <1>2, CompletionFacts
<1>4. CqesFrom(1)
  BY <1>2 DEF CqesFrom
<1>5. \A j \in 1 .. Len(cqes') : cqes'[j].conn # cqes[1].conn /\ \E k \in 1 .. Len(cqes) : cqes'[j] = cqes[k]
  BY <1>2 DEF Operations
<1>6. ASSUME NEW b, b # cqes[1].conn PROVE SameFor(b)
  <2>1. ASSUME NEW k \in 1 .. Len(cqes), cqes[k].conn = b PROVE \E j \in 1 .. Len(cqes') : cqes'[j] = cqes[k]
    <3>1. k # 1
      BY <1>6, <2>1
    <3>. QED BY <1>2, <3>1
  <2>. QED BY <1>5, <2>1 DEF SameFor
<1>7. UNCHANGED <<arrived, backlog>> => \A b \in Conns : Unseen(b)' => Unseen(b)
  BY <1>5 DEF Unseen, Accepted
<1>8. UNCHANGED <<uring, phase, inflight>> => Kinds' /\ EachPolledOnce'
  BY <1>1 DEF Kinds, EachPolledOnce
<1>9. (op = "accept" => NewFds' = NewFds \ {cqes[1].fd}) /\ (op # "accept" => NewFds' = NewFds)
  BY <1>1, <1>2 DEF Accepted
<1>. QED BY <1>1, <1>2, <1>3, <1>4, <1>5, <1>6, <1>7, <1>8, <1>9

LEMMA ReapAcceptInv == ASSUME IInv, ReapAccept PROVE IInv'
<1>. USE DEF IInv
<1>. DEFINE f == cqes[1].fd
            c == cqes[1].conn
<1>1. /\ Seen("accept") /\ Add(Head(cqes).fd, Head(cqes).conn)
      /\ UNCHANGED <<build, phase, index, ready, deferred, handed, stopping, backlog, inflight, clients,
                     taken, replies, todo>>
  BY DEF ReapAccept
<1>2. /\ 1 \in 1 .. Len(cqes) /\ Head(cqes) = cqes[1] /\ cqes[1].op = "accept"
      /\ f \in Fds /\ c \in Conns /\ cqes' \in Seq(Completions) /\ CqesFrom(1) /\ NewFds' = NewFds \ {f}
      /\ \A j \in 1 .. Len(cqes') : cqes'[j].conn # c /\ \E k \in 1 .. Len(cqes) : cqes'[j] = cqes[k]
      /\ \A b : b # c => SameFor(b)
      /\ \A b \in Conns : Unseen(b)' => Unseen(b)
      /\ Kinds' /\ EachPolledOnce' /\ phase = "reap"
  BY <1>1, ReapFacts DEF build, clients
<1>3. /\ f \in NewFds /\ file[f] = c /\ Unseen(c)
      /\ f \in OpenFds /\ f \notin PoolFds /\ f \notin TaskFds /\ f \notin handed
      /\ \A i \in 1 .. Len(pool) : pool[i].conn # c
  <2>1. f \in NewFds /\ Unseen(c) /\ file[f] = c
    BY <1>2 DEF NewFds, Accepted, Unseen, Ownership, Known
  <2>2. \A i \in 1 .. Len(pool) : pool[i].conn # c
    BY <1>2, Different DEF Accepted
  <2>. QED BY <2>1, <2>2 DEF Ownership, Partition
<1>. HIDE DEF f, c
<1>4. ClientsOK'
  BY <1>1, SameTypes
<1>5. Untouched'
  BY <1>1, <1>2, UntouchedKeeps DEF Order
<1>6. Handling' /\ RepliesInOrder'
  BY <1>1, NoReplies
<1>7. TaskFds' = TaskFds
  BY <1>1 DEF TaskFds
<1>8. \A j \in 1 .. Len(cqes') : cqes'[j].op = "accept" => cqes'[j].fd \in Fds /\ file[cqes'[j].fd] = cqes'[j].conn
                                                          /\ cqes'[j].fd # f
  <2>1. \A j \in 1 .. Len(cqes') : cqes'[j].op = "accept" => cqes'[j].fd \in Fds /\ file[cqes'[j].fd] = cqes'[j].conn
    BY <1>2, StillThere DEF Ownership, Known, Accepted
  <2>. QED BY <1>2, <1>3, <2>1
<1>9. CASE /\ Len(pool) < cap /\ file' = [file EXCEPT ![f] = c] /\ Added(f, c)
           /\ PoolFds' = PoolFds \cup {f}
  <2>1. file' = file
    BY <1>2, <1>3, <1>9 DEF TypeOK, KernelOK
  <2>10. \A i \in 1 .. Len(pool') : \/ i \in 1 .. Len(pool) /\ pool'[i] = pool[i]
                                    \/ pool'[i].fd = f /\ pool'[i].conn = c
    BY <1>2, <1>9, AddedFacts
  <2>2. ServerOK' /\ KernelOK'
    <3>1. Len(pool) \in Nat /\ cap \in Nat
      BY PoolFacts DEF TypeOK, ServerOK
    <3>2. Len(pool') <= cap
      BY <1>9, <3>1 DEF Added
    <3>3. ServerOK'
      BY <1>1, <1>2, <1>9, <3>2 DEF TypeOK, ServerOK, Added, build
    <3>4. KernelOK'
      BY <1>1, <1>2, <2>1 DEF TypeOK, KernelOK, Completions
    <3>. QED BY <3>3, <3>4
  <2>3. Bound'
    BY <1>1, <2>1 DEF Bound, clients
  <2>4. OpenFds' = OpenFds
    BY <2>1 DEF OpenFds
  <2>5. Partition'
    BY <1>1, <1>2, <1>3, <1>7, <1>9, <2>4 DEF Ownership, Partition
  <2>6. Single'
    BY <1>1, <1>2, <1>3, <1>9, AddedSingle DEF Ownership
  <2>7. Known'
    <3>1. ASSUME NEW i \in 1 .. Len(pool') PROVE file'[pool'[i].fd] = pool'[i].conn
      BY <1>3, <2>1, <2>10 DEF Ownership, Known
    <3>2. ASSUME NEW d \in deferred' PROVE file'[d.fd] = d.conn
      BY <1>1, <2>1 DEF Ownership, Known
    <3>. QED BY <1>8, <2>1, <3>1, <3>2 DEF Known, Accepted
  <2>8. Operations'
    <3>1. inflight' = inflight /\ arrived' = arrived /\ backlog' = backlog
      BY <1>1 DEF clients
    <3>2. \A o \in inflight : o.conn # c
      BY <1>2 DEF Operations, c
    <3>3. \A o \in inflight', i \in 1 .. Len(pool') : pool'[i].conn = o.conn => pool'[i].fd = o.fd
      BY <2>10, <3>1, <3>2 DEF Operations
    <3>4. ASSUME NEW i \in 1 .. Len(pool'), NEW j \in 1 .. Len(cqes'), pool'[i].conn = cqes'[j].conn
          PROVE  pool'[i].fd = cqes'[j].fd
      <4>1. PICK k \in 1 .. Len(cqes) : cqes'[j] = cqes[k]
        BY <1>2
      <4>2. cqes'[j].conn # c
        BY <1>2
      <4>3. i \in 1 .. Len(pool) /\ pool'[i] = pool[i]
        BY <2>10, <3>4, <4>2
      <4>. QED BY <3>4, <4>1, <4>3 DEF Operations
    <3>5. \A i \in 1 .. Len(cqes') : cqes'[i].conn \in arrived \ backlog
      BY <1>2 DEF Operations
    <3>6. \A o \in inflight, i \in 1 .. Len(cqes') : o.conn # cqes'[i].conn
      BY <1>2 DEF Operations
    <3>7. ASSUME NEW i \in 1 .. Len(cqes'), NEW j \in 1 .. Len(cqes'), cqes'[i].conn = cqes'[j].conn PROVE i = j
      <4>1. /\ i + 1 \in 1 .. Len(cqes) /\ cqes'[i] = cqes[i + 1]
            /\ j + 1 \in 1 .. Len(cqes) /\ cqes'[j] = cqes[j + 1]
        BY <1>2 DEF CqesFrom
      <4>2. i + 1 = j + 1
        BY <3>7, <4>1 DEF Operations
      <4>. QED BY <4>2
    <3>8. \A o, p \in inflight : o.conn = p.conn => o = p
      BY DEF Operations
    <3>9. \A o \in inflight : o.conn \in arrived \ backlog
      BY DEF Operations
    <3>. QED BY <3>1, <3>3, <3>4, <3>5, <3>6, <3>7, <3>8, <3>9 DEF Operations
  <2>9. Buffers'
    BY <1>1, <1>2, <1>3, <1>9, AddedBuffers DEF Order
  <2>. QED BY <1>2, <1>4, <1>5, <1>6, <2>2, <2>3, <2>5, <2>6, <2>7, <2>8, <2>9 DEF TypeOK, Ownership, Order
<1>10. CASE pool' = pool /\ Close(f)
  <2>1. /\ \A g \in Fds : file'[g] = IF g = f THEN None ELSE file[g]
        /\ OpenFds' = OpenFds \ {f} /\ file' \in [Fds -> Conns \cup {None}] /\ Bound'
    BY <1>1, <1>2, <1>10, CloseFacts DEF clients
  <2>2. ServerOK' /\ KernelOK'
    BY <1>1, <1>2, <1>10, <2>1 DEF TypeOK, ServerOK, KernelOK, Completions, build
  <2>3. PoolFrom /\ PoolFds' = PoolFds
    BY <1>10 DEF PoolFrom, PoolFds
  <2>4. Partition'
    BY <1>1, <1>2, <1>3, <1>7, <2>1, <2>3 DEF Ownership, Partition
  <2>5. Single'
    BY <1>1, <1>10 DEF Ownership, Single
  <2>6. Known'
    <3>1. \A i \in 1 .. Len(pool') : file'[pool'[i].fd] = file[pool'[i].fd]
      BY <1>3, <1>10, <2>1, StillThere
    <3>2. \A d \in deferred : file'[d.fd] = file[d.fd]
      BY <1>3, <2>1, StillThere
    <3>3. \A i \in 1 .. Len(cqes') : cqes'[i].op = "accept" => file'[cqes'[i].fd] = file[cqes'[i].fd]
      BY <1>8, <2>1
    <3>. QED BY <1>1, <1>2, <2>3, <3>1, <3>2, <3>3, KnownFrom DEF Ownership
  <2>7. Operations'
    BY <1>1, <1>2, <2>3, FewerOperations DEF clients
  <2>8. Buffers'
    BY <1>1, <1>2, <1>3, <1>10, BuffersKeep DEF Order
  <2>. QED BY <1>2, <1>4, <1>5, <1>6, <2>1, <2>2, <2>4, <2>5, <2>6, <2>7, <2>8 DEF TypeOK, Ownership, Order
<1>11. \/ /\ Len(pool) < cap /\ file' = [file EXCEPT ![f] = c] /\ Added(f, c)
          /\ PoolFds' = PoolFds \cup {f}
       \/ pool' = pool /\ Close(f)
  <2>1. Add(f, c)
    BY <1>1, <1>2 DEF f, c
  <2>. QED BY <1>2, <2>1, AddFacts DEF Added
<1>. QED BY <1>9, <1>10, <1>11

\* A recv completes: its bytes are the next of its connection.
LEMMA CompletesInv ==
  ASSUME IInv, NEW o \in inflight, NEW m \in taken[o.conn] .. sent[o.conn], NEW op \in {"data", "end"},
         taken' = [taken EXCEPT ![o.conn] = m], inflight' = inflight \ {o},
         cqes' = Append(cqes, Completion(op, o.fd, o.conn, Sent(o.conn, m))),
         UNCHANGED <<build, server, stopping, file, backlog, clients, replies, todo>>
  PROVE  IInv'
<1>. USE DEF IInv
<1>. DEFINE c == o.conn
            t == Sent(c, m)
            q == Completion(op, o.fd, c, t)
<1>1. /\ c \in Conns /\ o.fd \in Fds /\ c \in arrived \ backlog /\ o \in [fd : Fds, conn : Conns]
      /\ \A i \in 1 .. Len(cqes) : cqes[i].conn # c
      /\ \A p \in inflight : p.conn = c => p = o
      /\ \A i \in 1 .. Len(pool) : pool[i].conn = c => pool[i].fd = o.fd
  BY OperationFacts DEF Operations
<1>2. taken[c] \in Nat /\ m \in Nat /\ m <= sent[c] /\ t \in Seq(Requests)
  BY <1>1, SentFacts
<1>3. cqes' = Append(cqes, q) /\ taken' = [taken EXCEPT ![c] = m] /\ m \in taken[c] .. sent[c]
  OBVIOUS
<1>. HIDE DEF t
<1>4. q \in Completions /\ q.op # "accept" /\ q.fd = o.fd /\ q.conn = c /\ q.data = t
  BY <1>1, <1>2 DEF Completion, Completions
<1>. HIDE DEF c, q
<1>5. /\ cqes' \in Seq(Completions) /\ Len(cqes') = Len(cqes) + 1 /\ cqes'[Len(cqes) + 1] = q
      /\ \A j \in 1 .. Len(cqes) : cqes'[j] = cqes[j]
      /\ NewFds' = NewFds
  BY <1>3, <1>4, AppendedFacts
<1>6. /\ Len(cqes) + 1 \in 1 .. Len(cqes') /\ \A j \in 1 .. Len(cqes) : j \in 1 .. Len(cqes')
      /\ \A j \in 1 .. Len(cqes') : \/ j \in 1 .. Len(cqes) /\ cqes'[j] = cqes[j]
                                    \/ j = Len(cqes) + 1 /\ cqes'[j] = q
  BY <1>5, CompletionFacts
<1>7. /\ taken' \in [Conns -> Nat] /\ taken'[c] = m /\ \A b \in Conns : b # c => taken'[b] = taken[b]
      /\ \A b \in Conns : taken'[b] <= sent[b]
  BY <1>1, <1>2, <1>3 DEF TypeOK, ClientsOK
<1>8. ServerOK'
  BY SameTypes
<1>9. KernelOK'
  BY <1>5 DEF TypeOK, KernelOK, Completions
<1>10. ClientsOK'
  BY <1>7 DEF TypeOK, ClientsOK, clients
<1>11. Kinds' /\ EachPolledOnce'
  BY SamePhase DEF Kinds, build, server
<1>12. Bound'
  BY DEF Bound, clients
<1>13. Ownership'
  <2>1. PoolFds' = PoolFds /\ TaskFds' = TaskFds /\ OpenFds' = OpenFds /\ handed' = handed
    BY DEF PoolFds, TaskFds, OpenFds, server
  <2>2. Partition'
    BY <1>5, <2>1 DEF Ownership, Partition
  <2>3. Single'
    BY DEF Ownership, Single, server
  <2>4. Known'
    BY <1>4, <1>6 DEF Ownership, Known, Accepted, server
  <2>. QED BY <2>2, <2>3, <2>4 DEF Ownership
<1>14. Operations'
  <2>1. pool' = pool /\ arrived' \ backlog' = arrived \ backlog /\ inflight' \subseteq inflight /\ o \notin inflight'
    BY DEF server, clients
  <2>2. \A i \in 1 .. Len(cqes') : cqes'[i].conn \in arrived' \ backlog'
    BY <1>1, <1>4, <1>6, <2>1 DEF Operations
  <2>3. \A p \in inflight', i \in 1 .. Len(cqes') : p.conn # cqes'[i].conn
    BY <1>1, <1>4, <1>6, <2>1 DEF Operations
  <2>4. \A i, j \in 1 .. Len(cqes') : cqes'[i].conn = cqes'[j].conn => i = j
    BY <1>1, <1>4, <1>6 DEF Operations
  <2>5. \A i \in 1 .. Len(pool'), j \in 1 .. Len(cqes') : pool'[i].conn = cqes'[j].conn => pool'[i].fd = cqes'[j].fd
    BY <1>1, <1>4, <1>6, <2>1 DEF Operations
  <2>. QED BY <2>1, <2>2, <2>3, <2>4, <2>5 DEF Operations
<1>15. Untouched'
  <2>1. ~Unseen(c)
    BY <1>1 DEF Unseen
  <2>2. \A b \in Conns : Unseen(b)' => Unseen(b)
    BY <1>4, <1>6 DEF Unseen, Accepted, clients
  <2>. QED BY <1>7, <2>1, <2>2, UntouchedKeeps DEF Order
<1>16. Buffers'
  <2>. SUFFICES ASSUME NEW i \in 1 .. Len(pool)
                PROVE  Fits(Stream(i), pool[i].conn, taken'[pool[i].conn], cqes')
    BY DEF Buffers, Stream, server
  <2>1. Fits(Stream(i), pool[i].conn, taken[pool[i].conn], cqes) /\ pool[i].conn \in Conns
    BY PoolFacts DEF Order, Buffers
  <2>2. CASE pool[i].conn = c
    <3>1. Stream(i) \in Seq(Requests)
      <4>1. pool[i].buf \in Seq(Requests) /\ replies[pool[i].conn] \in Seq(Requests)
        BY <2>1, PoolFacts DEF TypeOK, ClientsOK
      <4>. QED BY <4>1, ConcatProperties DEF Stream
    <3>2. InOrder(Stream(i), c) /\ (Pure(Stream(i)) => taken[c] = Len(Stream(i)))
      BY <1>1, <2>1, <2>2 DEF Fits
    <3>3. InOrder(Stream(i) \o t, c) /\ (Pure(Stream(i)) => m = Len(Stream(i) \o t))
      BY <1>1, <1>3, <3>1, <3>2, SentFollows DEF t
    <3>4. \A j \in 1 .. Len(cqes') : cqes'[j].conn = c => cqes'[j] = q
      BY <1>1, <1>6
    <3>5. \A j \in 1 .. Len(cqes') : cqes'[j].conn = c => /\ cqes'[j].data = t
                                                        /\ InOrder(Stream(i) \o t, c)
      BY <1>4, <3>3, <3>4
    <3>6. ~ \A j \in 1 .. Len(cqes') : cqes'[j].conn # c
      BY <1>4, <1>5, <1>6
    <3>7. Fits(Stream(i), c, m, cqes')
      BY ONLY <3>2, <3>3, <3>5, <3>6 DEF Fits
    <3>. QED BY <1>7, <2>2, <3>7
  <2>3. CASE pool[i].conn # c
    <3>1. SameFor(pool[i].conn)
      BY <1>4, <1>5, <1>6, <2>3 DEF SameFor
    <3>. QED BY <1>7, <2>1, <2>3, <3>1, FitsKeeps
  <2>. QED BY <2>2, <2>3
<1>17. Handling' /\ RepliesInOrder'
  BY NoReplies DEF server
<1>. QED BY <1>8, <1>9, <1>10, <1>11, <1>12, <1>13, <1>14, <1>15, <1>16, <1>17 DEF TypeOK, Order

LEMMA KernelRecvInv == ASSUME IInv, NEW o \in inflight, KernelRecv(o) PROVE IInv'
<1>1. PICK m \in taken[o.conn] .. sent[o.conn] :
        /\ taken' = [taken EXCEPT ![o.conn] = m] /\ inflight' = inflight \ {o}
        /\ cqes' = Append(cqes, Completion("data", o.fd, o.conn, Sent(o.conn, m)))
        /\ UNCHANGED <<build, server, stopping, file, backlog, clients, replies, todo>>
  BY DEF KernelRecv
<1>. QED BY <1>1, CompletesInv

LEMMA KernelEndInv == ASSUME IInv, NEW o \in inflight, KernelEnd(o) PROVE IInv'
<1>. DEFINE c == o.conn
            m == taken[c]
<1>1. /\ inflight' = inflight \ {o} /\ cqes' = Append(cqes, Completion("end", o.fd, c, << >>))
      /\ UNCHANGED <<build, server, stopping, file, backlog, clients, taken, replies, todo>>
      /\ taken[c] = sent[c]
  BY DEF KernelEnd
<1>2. TypeOK /\ c \in Conns
  BY OperationFacts DEF IInv
<1>3. taken \in [Conns -> Nat] /\ m \in Nat /\ m \in taken[c] .. sent[c]
  BY <1>1, <1>2 DEF TypeOK, ClientsOK
<1>4. taken' = [taken EXCEPT ![c] = m]
  BY <1>1, <1>3
<1>5. Sent(c, m) = << >>
  <2>1. Sent(c, m) \in Seq(Requests) /\ Len(Sent(c, m)) = m - taken[c]
    BY <1>2, <1>3, SentFacts
  <2>2. m - taken[c] = 0
    BY <1>3
  <2>. QED BY <2>1, <2>2, EmptySeq
<1>. QED BY <1>1, <1>3, <1>4, <1>5, CompletesInv

\* Bytes of another connection end what is known of a buffer.
LEMMA JunkFollows ==
  ASSUME NEW s \in Seq(Requests), NEW c, InOrder(s, c)
  PROVE  InOrder(s \o <<Junk>>, c) /\ ~Pure(s \o <<Junk>>)
<1>. DEFINE t == <<Junk>>
<1>1. t \in Seq(Requests) /\ Len(t) = 1 /\ t[1] = Junk
  BY JustRequests
<1>. HIDE DEF t
<1>2. ~Pure(t)
  BY <1>1 DEF Pure
<1>3. \A n \in 1 .. Len(t) : ~ \A m \in 1 .. n : t[m] # Junk
  BY <1>1
<1>4. InOrder(s \o t, c)
  BY <1>1, <1>3, OrderConcat
<1>5. ~Pure(s \o t)
  BY <1>1, <1>2, PureConcat
<1>. QED BY <1>4, <1>5 DEF t

LEMMA ReapDataInv == ASSUME IInv, ReapData PROVE IInv'
<1>. USE DEF IInv
<1>. DEFINE q == cqes[1]
            c == q.conn
            t(i) == IF pool[i].conn = c THEN q.data ELSE <<Junk>>
            e(i) == IF pool[i].fd = q.fd THEN [pool[i] EXCEPT !.buf = @ \o t(i), !.quiet = FALSE, !.pending = FALSE]
                                         ELSE pool[i]
<1>1. /\ Seen("data")
      /\ pool' = [i \in DOMAIN pool |->
                    IF Owner(i) THEN [pool[i] EXCEPT !.buf = @ \o Bytes(i), !.quiet = FALSE, !.pending = FALSE]
                                ELSE pool[i]]
      /\ UNCHANGED <<build, phase, index, ready, deferred, handed, stopping, file, backlog, inflight, clients,
                     taken, replies, todo>>
  BY DEF ReapData
<1>2. /\ 1 \in 1 .. Len(cqes) /\ Head(cqes) = q /\ q.op = "data" /\ c \in Conns /\ q.data \in Seq(Requests)
      /\ cqes' \in Seq(Completions) /\ CqesFrom(1) /\ NewFds' = NewFds
      /\ \A j \in 1 .. Len(cqes') : cqes'[j].conn # c
      /\ \A b : b # c => SameFor(b)
      /\ \A b \in Conns : Unseen(b)' => Unseen(b)
      /\ Kinds' /\ EachPolledOnce'
  <2>1. "data" # "accept" /\ UNCHANGED <<uring, phase, inflight, arrived, backlog>>
    BY <1>1 DEF build, clients
  <2>2. /\ 1 \in 1 .. Len(cqes) /\ Head(cqes) = q /\ q.op = "data" /\ c \in Conns /\ q.data \in Seq(Requests)
        /\ cqes' \in Seq(Completions) /\ CqesFrom(1)
    BY <1>1, ReapFacts
  <2>5. NewFds' = NewFds
    BY <1>1, <2>1, ReapFacts
  <2>3. /\ \A j \in 1 .. Len(cqes') : cqes'[j].conn # c
        /\ \A b : b # c => SameFor(b)
    BY <1>1, ReapFacts
  <2>4. (\A b \in Conns : Unseen(b)' => Unseen(b)) /\ Kinds' /\ EachPolledOnce'
    BY <1>1, <2>1, ReapFacts
  <2>. QED BY <2>2, <2>3, <2>4, <2>5
<1>3. pool' = [i \in DOMAIN pool |-> e(i)]
  BY <1>1, <1>2 DEF Owner, Bytes
<1>4. \A i \in 1 .. Len(pool) : pool[i] \in Entries /\ pool[i].conn \in Conns /\ pool[i].buf \in Seq(Requests)
                                /\ t(i) \in Seq(Requests) /\ pool[i].buf \o t(i) \in Seq(Requests)
  <2>1. \A i \in 1 .. Len(pool) : pool[i] \in Entries /\ pool[i].conn \in Conns /\ pool[i].buf \in Seq(Requests)
    BY PoolFacts
  <2>2. <<Junk>> \in Seq(Requests)
    BY JustRequests
  <2>3. \A i \in 1 .. Len(pool) : t(i) \in Seq(Requests)
    BY <1>2, <2>2
  <2>. HIDE DEF t
  <2>. QED BY <2>1, <2>3, ConcatProperties
<1>5. ASSUME NEW i \in 1 .. Len(pool)
      PROVE  /\ e(i) \in Entries /\ e(i).fd = pool[i].fd /\ e(i).conn = pool[i].conn
             /\ e(i).buf = IF pool[i].fd = q.fd THEN pool[i].buf \o t(i) ELSE pool[i].buf
  <2>. HIDE DEF t
  <2>. QED BY <1>4 DEF Entries
<1>. HIDE DEF e
<1>6. /\ pool' \in Seq(Entries) /\ Len(pool') = Len(pool)
      /\ \A i \in 1 .. Len(pool) : pool'[i] = e(i)
  <2>1. Len(pool) \in Nat /\ DOMAIN pool = 1 .. Len(pool)
    BY PoolFacts
  <2>2. pool' \in [1 .. Len(pool) -> Entries] /\ \A i \in 1 .. Len(pool) : pool'[i] = e(i)
    BY <1>3, <1>5, <2>1
  <2>3. pool' \in Seq(Entries)
    BY <2>1, <2>2, SeqDef
  <2>. QED BY <2>1, <2>2, <2>3, LenProperties
<1>7. Links
  BY <1>5, <1>6 DEF Links
<1>8. ServerOK' /\ KernelOK' /\ ClientsOK'
  <2>1. ServerOK'
    BY <1>1, <1>6 DEF TypeOK, ServerOK, build
  <2>2. KernelOK'
    BY <1>1, <1>2 DEF TypeOK, KernelOK, Completions
  <2>3. ClientsOK'
    BY <1>1, SameTypes
  <2>. QED BY <2>1, <2>2, <2>3
<1>9. Ownership' /\ PoolFrom
  BY <1>1, <1>2, <1>7, SameLinks
<1>10. Bound'
  BY <1>1 DEF Bound, clients
<1>11. Operations'
  BY <1>1, <1>2, <1>9, FewerOperations DEF clients
<1>12. Untouched'
  BY <1>1, <1>2, UntouchedKeeps DEF Order
<1>13. Handling' /\ RepliesInOrder'
  BY <1>1, NoReplies
<1>14. \A i \in 1 .. Len(pool) : pool[i].conn = c => pool[i].fd = q.fd
  BY <1>2 DEF Operations
<1>15. Buffers'
  <2>. SUFFICES ASSUME NEW i \in 1 .. Len(pool)
                PROVE  Fits(replies[pool[i].conn] \o e(i).buf, pool[i].conn, taken[pool[i].conn], cqes')
    <3>1. \A i \in 1 .. Len(pool) : pool'[i].conn = pool[i].conn /\ pool'[i].buf = e(i).buf
      BY <1>5, <1>6
    <3>. QED BY <1>1, <1>6, <3>1 DEF Buffers, Stream
  <2>. DEFINE s == Stream(i)
              u == replies[pool[i].conn] \o e(i).buf
  <2>1. Fits(s, pool[i].conn, taken[pool[i].conn], cqes) /\ InOrder(s, pool[i].conn)
    BY DEF Order, Buffers, Fits
  <2>2. s \in Seq(Requests) /\ replies[pool[i].conn] \in Seq(Requests)
    <3>1. replies[pool[i].conn] \in Seq(Requests)
      BY <1>4 DEF TypeOK, ClientsOK
    <3>. QED BY <1>4, <3>1, ConcatProperties DEF Stream
  <2>3. CASE pool[i].fd = q.fd
    <3>1. u = s \o t(i)
      <4>1. e(i).buf = pool[i].buf \o t(i)
        BY <1>5, <2>3
      <4>. HIDE DEF t
      <4>2. (replies[pool[i].conn] \o pool[i].buf) \o t(i) = replies[pool[i].conn] \o (pool[i].buf \o t(i))
        BY <1>4, <2>2, Reassociate
      <4>. QED BY <4>1, <4>2 DEF Stream
    <3>. HIDE DEF s, u
    <3>2. CASE pool[i].conn = c
      <4>1. t(i) = q.data
        BY <3>2
      <4>2. Pure(s) => InOrder(s \o q.data, c) /\ taken[c] = Len(s \o q.data)
        BY <1>2, <2>1, <3>2 DEF Fits
      <4>3. ~Pure(s) => InOrder(s \o q.data, c)
        <5>1. InOrder(s, c)
          BY <2>1, <3>2
        <5>. QED BY <1>2, <2>2, <5>1, OrderConcat
      <4>4. Pure(s \o q.data) => Pure(s)
        BY <1>2, <2>2, PureConcat
      <4>5. Fits(s \o q.data, c, taken[c], cqes')
        BY <1>2, <4>2, <4>3, <4>4 DEF Fits
      <4>. QED BY <3>1, <3>2, <4>1, <4>5 DEF u
    <3>3. CASE pool[i].conn # c
      <4>1. t(i) = <<Junk>>
        BY <3>3
      <4>2. InOrder(s \o <<Junk>>, pool[i].conn) /\ ~Pure(s \o <<Junk>>)
        BY <2>1, <2>2, JunkFollows
      <4>3. Fits(s \o <<Junk>>, pool[i].conn, taken[pool[i].conn], cqes')
        BY <4>2 DEF Fits
      <4>. QED BY ONLY <3>1, <4>1, <4>3 DEF u
    <3>. QED BY <3>2, <3>3
  <2>4. CASE pool[i].fd # q.fd
    <3>1. SameFor(pool[i].conn) /\ u = s
      BY <1>2, <1>5, <1>14, <2>4 DEF Stream
    <3>2. Fits(s, pool[i].conn, taken[pool[i].conn], cqes')
      BY <2>1, <3>1, FitsKeeps
    <3>. QED BY <3>1, <3>2
  <2>. QED BY <2>3, <2>4
<1>. QED BY <1>2, <1>8, <1>9, <1>10, <1>11, <1>12, <1>13, <1>15 DEF TypeOK, Order

\* The client has closed the connection, or a connection that had its descriptor.
LEMMA ReapEndInv == ASSUME IInv, ReapEnd PROVE IInv'
<1>. USE DEF IInv
<1>. DEFINE q == cqes[1]
            c == q.conn
            f == q.fd
<1>1. /\ Seen("end")
      /\ IF \E i \in DOMAIN pool : Owner(i)
           THEN \E i \in DOMAIN pool : Owner(i) /\ pool' = Without(i) /\ Close(pool[i].fd)
           ELSE UNCHANGED <<pool, file>>
      /\ UNCHANGED <<build, phase, index, ready, deferred, handed, stopping, backlog, inflight, clients,
                     taken, replies, todo>>
  BY DEF ReapEnd
<1>2. /\ 1 \in 1 .. Len(cqes) /\ Head(cqes) = q /\ c \in Conns /\ f \in Fds
      /\ cqes' \in Seq(Completions) /\ CqesFrom(1) /\ NewFds' = NewFds
      /\ \A b : b # c => SameFor(b)
      /\ \A b \in Conns : Unseen(b)' => Unseen(b)
      /\ Kinds' /\ EachPolledOnce' /\ phase = "reap"
  <2>1. "end" # "accept" /\ UNCHANGED <<uring, phase, inflight, arrived, backlog>>
    BY <1>1 DEF build, clients
  <2>. QED BY <1>1, <2>1, ReapFacts
<1>3. \A i \in 1 .. Len(pool) : pool[i].conn = c => pool[i].fd = f
  BY <1>2 DEF Operations
<1>. HIDE DEF q, c, f
<1>4. ClientsOK'
  BY <1>1, SameTypes
<1>5. Untouched'
  BY <1>1, <1>2, UntouchedKeeps DEF Order
<1>6. Handling' /\ RepliesInOrder'
  BY <1>1, NoReplies
<1>7. CASE \E i \in DOMAIN pool : Owner(i)
  <2>1. PICK i \in 1 .. Len(pool) : pool[i].fd = f /\ pool' = Without(i) /\ Close(pool[i].fd)
    <3>1. DOMAIN pool = 1 .. Len(pool)
      BY PoolFacts
    <3>. QED BY <1>1, <1>2, <1>7, <3>1 DEF Owner, f
  <2>2. pool' \in Seq(Entries) /\ Len(pool') = Len(pool) - 1 /\ Len(pool) \in Nat
    <3>1. pool' \in Seq(Entries) /\ Len(pool') = Len(pool) - 1
      BY <2>1, WithoutFacts
    <3>. QED BY <3>1, PoolFacts
  <2>3. Bound' /\ file' \in [Fds -> Conns \cup {None}]
    BY <1>1, <1>2, <2>1, CloseFacts DEF clients
  <2>4. ServerOK' /\ KernelOK'
    BY <1>1, <1>2, <2>2, <2>3 DEF TypeOK, ServerOK, KernelOK, Completions, build
  <2>5. Ownership' /\ PoolFrom
    BY <1>1, <1>2, <2>1, EntryCloses
  <2>6. Operations'
    BY <1>1, <1>2, <2>5, FewerOperations DEF clients
  <2>7. Buffers'
    <3>1. \A j \in 1 .. Len(pool') : \E k \in 1 .. Len(pool) : k # i /\ pool'[j] = pool[k]
      BY <2>1, WithoutEntries DEF Ownership
    <3>2. \A k \in 1 .. Len(pool) : k # i => pool[k].conn # c
      BY <1>3, <2>1 DEF Ownership, Single
    <3>. QED BY <1>1, <1>2, <3>1, <3>2, BuffersKeep DEF Order
  <2>. QED BY <1>2, <1>4, <1>5, <1>6, <2>3, <2>4, <2>5, <2>6, <2>7 DEF TypeOK, Order
<1>8. CASE ~ \E i \in DOMAIN pool : Owner(i)
  <2>1. pool' = pool /\ file' = file
    BY <1>1, <1>8
  <2>2. \A i \in 1 .. Len(pool) : pool[i].conn # c
    BY <1>2, <1>3, <1>8, PoolFacts DEF Owner, f
  <2>3. ServerOK' /\ KernelOK'
    BY <1>1, <1>2, <2>1 DEF TypeOK, ServerOK, KernelOK, Completions, build
  <2>4. Bound'
    BY <1>1, <2>1 DEF Bound, clients
  <2>5. Ownership' /\ PoolFrom
    BY <1>1, <1>2, <2>1, SameLinks DEF Links
  <2>6. Operations'
    BY <1>1, <1>2, <2>5, FewerOperations DEF clients
  <2>7. Buffers'
    BY <1>1, <1>2, <2>1, <2>2, BuffersKeep DEF Order
  <2>. QED BY <1>2, <1>4, <1>5, <1>6, <2>3, <2>4, <2>5, <2>6, <2>7 DEF TypeOK, Order
<1>. QED BY <1>7, <1>8

\* Every connection has its recv in flight when the poll begins.
LEMMA SubmitInv == ASSUME IInv, Submit PROVE IInv'
<1>. USE DEF IInv
<1>. DEFINE new == {[fd |-> pool[i].fd, conn |-> pool[i].conn] : i \in {j \in DOMAIN pool : ~pool[j].pending}}
            e(i) == [pool[i] EXCEPT !.pending = TRUE]
<1>1. /\ phase = "reap" /\ uring /\ cqes = << >> /\ inflight' = inflight \cup new
      /\ pool' = [i \in DOMAIN pool |-> e(i)] /\ BeginPoll
      /\ UNCHANGED <<build, ready, deferred, handed, stopping, file, backlog, cqes, clients, taken, replies>>
  BY DEF Submit, Kinds
<1>2. Len(pool) \in Nat /\ DOMAIN pool = 1 .. Len(pool)
  BY PoolFacts
<1>3. ASSUME NEW i \in 1 .. Len(pool)
      PROVE  e(i) \in Entries /\ e(i).fd = pool[i].fd /\ e(i).conn = pool[i].conn /\ e(i).buf = pool[i].buf
  <2>1. pool[i] \in Entries
    BY PoolFacts
  <2>. QED BY <2>1 DEF Entries
<1>. HIDE DEF e
<1>4. /\ pool' \in Seq(Entries) /\ Len(pool') = Len(pool)
      /\ \A i \in 1 .. Len(pool) : pool'[i] = e(i)
  <2>1. pool' \in [1 .. Len(pool) -> Entries] /\ \A i \in 1 .. Len(pool) : pool'[i] = e(i)
    BY <1>1, <1>2, <1>3
  <2>2. pool' \in Seq(Entries)
    BY <1>2, <2>1, SeqDef
  <2>. QED BY <1>2, <2>1, <2>2, LenProperties
<1>5. SameEntries /\ Links
  BY <1>3, <1>4 DEF SameEntries, Links
<1>6. phase' = "poll" /\ index' = Len(pool) /\ todo' = {pool[i].conn : i \in 1 .. Len(pool)}
  BY <1>1, <1>2 DEF BeginPoll
<1>7. \A o \in new : \E i \in 1 .. Len(pool) : o = [fd |-> pool[i].fd, conn |-> pool[i].conn]
  BY <1>2
<1>. HIDE DEF new
<1>8. ServerOK'
  BY <1>1, <1>2, <1>4, <1>6 DEF TypeOK, ServerOK, build
<1>9. KernelOK'
  <2>1. new \subseteq [fd : Fds, conn : Conns]
    BY <1>7, PoolFacts
  <2>. QED BY <1>1, <2>1 DEF TypeOK, KernelOK
<1>10. ClientsOK'
  <2>1. todo' \subseteq Conns
    BY <1>6, PoolFacts
  <2>. QED BY <1>1, <2>1 DEF TypeOK, ClientsOK, clients
<1>11. Kinds'
  BY <1>1, <1>6 DEF Kinds, build
<1>12. EachPolledOnce'
  <2>1. {pool[i].conn : i \in 1 .. Len(pool)} = {pool'[i].conn : i \in 1 .. Len(pool)}
    BY <1>5 DEF Links
  <2>. QED BY <1>6, <2>1 DEF EachPolledOnce
<1>13. CqesFrom(0) /\ NewFds' = NewFds
  BY <1>1, SameCqes
<1>14. Ownership' /\ PoolFrom
  BY <1>1, <1>5, <1>13, SameLinks
<1>15. Bound'
  BY <1>1 DEF Bound, clients
<1>16. Operations'
  <2>1. Len(cqes') = 0 /\ arrived' \ backlog' = arrived \ backlog
    BY <1>1, EmptySeq DEF clients
  <2>2. \A o \in new : o.conn \in arrived \ backlog /\ \E i \in 1 .. Len(pool) : o.fd = pool[i].fd /\ o.conn = pool[i].conn
    BY <1>7, Different
  <2>3. \A o \in inflight' : o.conn \in arrived' \ backlog' /\ o = [fd |-> o.fd, conn |-> o.conn]
    BY <1>1, <1>7, <2>1, <2>2, OperationFacts DEF Operations
  <2>4. ASSUME NEW o \in inflight', NEW i \in 1 .. Len(pool), pool[i].conn = o.conn PROVE pool[i].fd = o.fd
    <3>1. CASE o \in inflight
      BY <2>4, <3>1 DEF Operations
    <3>2. CASE o \in new
      BY <2>2, <2>4, <3>2, Different
    <3>. QED BY <1>1, <3>1, <3>2
  <2>5. ASSUME NEW o \in inflight', NEW p \in inflight', o.conn = p.conn PROVE o = p
    <3>1. CASE o \in new
      <4>1. o.fd = p.fd
        BY <2>2, <2>4, <2>5, <3>1
      <4>. QED BY <2>3, <2>5, <4>1
    <3>2. CASE p \in new
      <4>1. o.fd = p.fd
        BY <2>2, <2>4, <2>5, <3>2
      <4>. QED BY <2>3, <2>5, <4>1
    <3>3. CASE o \in inflight /\ p \in inflight
      BY <2>5, <3>3 DEF Operations
    <3>. QED BY <1>1, <3>1, <3>2, <3>3
  <2>6. \A o \in inflight', i \in 1 .. Len(pool') : pool'[i].conn = o.conn => pool'[i].fd = o.fd
    BY <1>5, <2>4 DEF Links
  <2>. QED BY <2>1, <2>3, <2>5, <2>6 DEF Operations
<1>17. Untouched'
  BY <1>1, SameUnseen, UntouchedKeeps DEF Order, clients
<1>18. Buffers'
  BY <1>1, <1>5, BuffersKeep, SameForAll DEF Order, SameEntries
<1>19. Handling' /\ RepliesInOrder'
  BY <1>1, NoReplies
<1>. QED BY <1>8, <1>9, <1>10, <1>11, <1>12, <1>14, <1>15, <1>16, <1>17, <1>18, <1>19 DEF TypeOK, Order

-----------------------------------------------------------------------------
(* Handlers that are tasks, and scripts. *)

LEMMA HandlerReadsInv == ASSUME IInv, NEW d \in deferred, HandlerReads(d) PROVE IInv'
<1>. USE DEF IInv
<1>. DEFINE c == d.conn
<1>1. c \in Conns /\ file[d.fd] = c /\ ~Unseen(c) /\ \A i \in 1 .. Len(pool) : pool[i].conn # c
  BY TaskFacts, AllSeen, Different
<1>. HIDE DEF c
<1>2. /\ taken[c] < sent[c] /\ taken' = [taken EXCEPT ![c] = @ + 1]
      /\ UNCHANGED <<build, server, stopping, kernel, clients, replies, todo>>
  BY <1>1 DEF HandlerReads
<1>3. /\ taken' \in [Conns -> Nat] /\ \A b \in Conns : b # c => taken'[b] = taken[b]
      /\ \A b \in Conns : taken'[b] <= sent[b]
  <2>1. taken \in [Conns -> Nat] /\ sent \in [Conns -> Nat] /\ \A b \in Conns : taken[b] <= sent[b]
    BY DEF TypeOK, ClientsOK
  <2>. DEFINE m == taken[c] + 1
  <2>2. taken' = [taken EXCEPT ![c] = m]
    BY <1>2
  <2>3. m \in Nat /\ m <= sent[c]
    BY <1>1, <1>2, <2>1
  <2>. HIDE DEF m
  <2>4. taken' \in [Conns -> Nat] /\ \A b \in Conns : taken'[b] = IF b = c THEN m ELSE taken[b]
    BY <2>1, <2>2, <2>3
  <2>. QED BY <2>1, <2>3, <2>4
<1>4. ServerOK' /\ KernelOK'
  BY <1>2, SameTypes
<1>5. ClientsOK'
  BY <1>2, <1>3 DEF TypeOK, ClientsOK, clients
<1>6. Kinds' /\ EachPolledOnce'
  BY <1>2, SamePhase DEF build, server, kernel
<1>7. CqesFrom(0) /\ NewFds' = NewFds /\ Links
  BY <1>2, SameCqes DEF Links, server, kernel
<1>8. Ownership' /\ PoolFrom
  BY <1>2, <1>7, SameLinks DEF server, kernel
<1>9. Bound'
  BY <1>2 DEF Bound, kernel, clients
<1>10. Operations'
  BY <1>2, <1>7, <1>8, FewerOperations DEF kernel, clients
<1>11. Untouched'
  <2>1. \A b \in Conns : Unseen(b)' => Unseen(b)
    BY <1>2, SameUnseen DEF kernel, clients
  <2>. QED BY <1>1, <1>2, <1>3, <2>1, UntouchedKeeps DEF Order
<1>12. Buffers'
  <2>1. \A b : SameFor(b)
    BY <1>2, SameForAll DEF kernel
  <2>2. \A i \in 1 .. Len(pool) : pool[i].conn \in Conns
    BY PoolFacts
  <2>. QED BY <1>1, <1>2, <1>3, <2>1, <2>2, BuffersKeep DEF Order, server
<1>13. Handling' /\ RepliesInOrder'
  BY <1>2, NoReplies DEF server
<1>. QED BY <1>4, <1>5, <1>6, <1>8, <1>9, <1>10, <1>11, <1>12, <1>13 DEF TypeOK, Order

LEMMA ScriptClosesInv == ASSUME ~WsCloses, IInv, NEW f \in Fds, ScriptCloses(f) PROVE IInv'
<1>. USE DEF IInv
<1>1. /\ f \in handed /\ Close(f) /\ handed' = handed \ {f}
      /\ UNCHANGED <<build, phase, index, ready, pool, deferred, stopping, backlog, inflight, cqes, clients,
                     taken, replies, todo>>
  BY DEF ScriptCloses
<1>2. /\ \A g \in Fds : file'[g] = IF g = f THEN None ELSE file[g]
      /\ OpenFds' = OpenFds \ {f} /\ file' \in [Fds -> Conns \cup {None}] /\ Bound'
  BY <1>1, CloseFacts DEF clients
<1>3. f \notin PoolFds /\ f \notin TaskFds /\ f \notin NewFds
  BY <1>1 DEF Ownership, Partition
<1>4. ServerOK' /\ KernelOK' /\ ClientsOK'
  <2>1. ServerOK'
    BY <1>1 DEF TypeOK, ServerOK, build
  <2>2. KernelOK'
    BY <1>1, <1>2 DEF TypeOK, KernelOK
  <2>3. ClientsOK'
    BY <1>1, SameTypes
  <2>. QED BY <2>1, <2>2, <2>3
<1>5. Kinds' /\ EachPolledOnce'
  BY <1>1, SamePhase DEF build
<1>6. CqesFrom(0) /\ NewFds' = NewFds /\ PoolFrom
  BY <1>1, SameCqes DEF PoolFrom
<1>7. Ownership'
  <2>1. PoolFds' = PoolFds /\ TaskFds' = TaskFds
    BY <1>1 DEF PoolFds, TaskFds
  <2>2. Partition'
    BY <1>1, <1>2, <1>3, <1>6, <2>1 DEF Ownership, Partition
  <2>3. Single'
    BY <1>1 DEF Ownership, Single
  <2>4. \A i \in 1 .. Len(pool') : file'[pool'[i].fd] = file[pool'[i].fd]
    BY <1>1, <1>2, <1>3, StillThere
  <2>5. \A d \in deferred : file'[d.fd] = file[d.fd]
    BY <1>2, <1>3, StillThere
  <2>6. \A i \in 1 .. Len(cqes') : cqes'[i].op = "accept" => file'[cqes'[i].fd] = file[cqes'[i].fd]
    BY <1>1, <1>2, <1>3, StillThere DEF Accepted
  <2>7. Known'
    BY <1>1, <1>6, <2>4, <2>5, <2>6, KnownFrom DEF Ownership
  <2>. QED BY <2>2, <2>3, <2>7 DEF Ownership
<1>8. Operations'
  BY <1>1, <1>6, FewerOperations DEF clients
<1>9. Untouched'
  BY <1>1, SameUnseen, UntouchedKeeps DEF Order, clients
<1>10. Buffers'
  BY <1>1, BuffersKeep, SameForAll DEF Order
<1>11. Handling' /\ RepliesInOrder'
  BY <1>1, NoReplies
<1>. QED BY <1>2, <1>4, <1>5, <1>7, <1>8, <1>9, <1>10, <1>11 DEF TypeOK, Order

LEMMA HandlerEndsInv == ASSUME IInv, NEW d \in deferred, HandlerEnds(d) PROVE IInv'
<1>. USE DEF IInv
<1>. DEFINE f == d.fd
            c == d.conn
            r == d.request
<1>1. /\ f \in Fds /\ c \in Conns /\ r \in Requests /\ file[f] = c /\ f \in TaskFds
      /\ ~Unseen(c) /\ InOrder(Append(replies[c], r), c)
      /\ \A i \in 1 .. Len(pool) : pool[i].conn # c
      /\ \A e \in deferred : e # d => e.conn # c /\ e.fd # f
  <2>1. f \in TaskFds
    BY DEF TaskFds
  <2>2. \A e \in deferred : e # d => e.conn # c /\ e.fd # f
    BY Different DEF Ownership, Single
  <2>. QED BY <2>1, <2>2, TaskFacts, AllSeen, Different DEF Order, Handling
<1>2. /\ deferred' = deferred \ {d} /\ replies' = [replies EXCEPT ![c] = Append(@, r)] /\ Close(f)
      /\ UNCHANGED <<build, phase, index, ready, pool, handed, stopping, backlog, inflight, cqes, clients,
                     taken, todo>>
  BY <1>1 DEF HandlerEnds, Reply
<1>3. f \notin PoolFds /\ f \notin NewFds /\ f \notin handed
  BY <1>1 DEF Ownership, Partition
<1>4. TaskFds' = TaskFds \ {f}
  <2>1. TaskFds' \subseteq TaskFds \ {f}
    BY <1>1, <1>2 DEF TaskFds
  <2>2. TaskFds \ {f} \subseteq TaskFds'
    BY <1>2 DEF TaskFds
  <2>. QED BY <2>1, <2>2
<1>. HIDE DEF f, c, r
<1>5. /\ \A g \in Fds : file'[g] = IF g = f THEN None ELSE file[g]
      /\ OpenFds' = OpenFds \ {f} /\ file' \in [Fds -> Conns \cup {None}] /\ Bound'
  BY <1>1, <1>2, CloseFacts DEF clients
<1>6. replies' \in [Conns -> Seq(Requests)]
  <2>1. replies \in [Conns -> Seq(Requests)]
    BY DEF TypeOK, ClientsOK
  <2>2. Append(replies[c], r) \in Seq(Requests)
    BY <1>1, <2>1, AppendProperties
  <2>. QED BY <1>2, <2>1, <2>2
<1>7. ServerOK' /\ KernelOK' /\ ClientsOK'
  <2>1. ServerOK'
    BY <1>2 DEF TypeOK, ServerOK, build
  <2>2. KernelOK'
    BY <1>2, <1>5 DEF TypeOK, KernelOK
  <2>3. ClientsOK'
    BY <1>2, <1>6 DEF TypeOK, ClientsOK, clients
  <2>. QED BY <2>1, <2>2, <2>3
<1>8. Kinds' /\ EachPolledOnce'
  BY <1>2, SamePhase DEF build
<1>9. CqesFrom(0) /\ NewFds' = NewFds /\ PoolFrom
  BY <1>2, SameCqes DEF PoolFrom
<1>10. Ownership'
  <2>1. PoolFds' = PoolFds
    BY <1>2 DEF PoolFds
  <2>2. Partition'
    BY <1>2, <1>3, <1>4, <1>5, <1>9, <2>1 DEF Ownership, Partition
  <2>3. Single'
    BY <1>2 DEF Ownership, Single
  <2>4. \A i \in 1 .. Len(pool') : file'[pool'[i].fd] = pool'[i].conn
    BY <1>2, <1>3, <1>5, StillThere DEF Ownership, Known
  <2>5. \A e \in deferred' : file'[e.fd] = e.conn
    BY <1>1, <1>2, <1>5, StillThere DEF Ownership, Known
  <2>6. \A i \in 1 .. Len(cqes') : Accepted(i)' => file'[cqes'[i].fd] = cqes'[i].conn
    BY <1>2, <1>3, <1>5, StillThere DEF Ownership, Known, Accepted
  <2>. QED BY <2>2, <2>3, <2>4, <2>5, <2>6 DEF Ownership, Known
<1>11. Operations'
  BY <1>2, <1>9, FewerOperations DEF clients
<1>12. /\ Handling' /\ RepliesInOrder' /\ replies'[c] = Append(replies[c], r)
       /\ \A b \in Conns : b # c => replies'[b] = replies[b]
  <2>1. \A e \in deferred' : e.conn # c
    BY <1>1, <1>2
  <2>. QED BY <1>1, <1>2, <1>6, <2>1, OneReply
<1>13. Untouched'
  <2>1. \A b \in Conns : Unseen(b)' => Unseen(b)
    BY <1>2, SameUnseen DEF clients
  <2>. QED BY <1>1, <1>2, <1>12, <2>1, UntouchedKeeps DEF Order
<1>14. Buffers'
  <2>1. \A b : SameFor(b)
    BY <1>2, SameForAll
  <2>2. \A i \in 1 .. Len(pool) : pool[i].conn \in Conns
    BY PoolFacts
  <2>. QED BY <1>1, <1>2, <1>12, <2>1, <2>2, BuffersKeep DEF Order
<1>. QED BY <1>5, <1>7, <1>8, <1>10, <1>11, <1>12, <1>13, <1>14 DEF TypeOK, Order

-----------------------------------------------------------------------------
(* The theorems. *)

LEMMA NextInv == ASSUME ~WsCloses, IInv, Next PROVE IInv'
<1>1. CASE Environment
  BY <1>1, ConnectInv, ClientsInv, SignalInv, TimePassesInv DEF Environment
<1>2. CASE Kernel
  BY <1>2, KernelAcceptInv, KernelRecvInv, KernelEndInv DEF Kernel
<1>3. CASE Serve
  <2>1. CASE Shutdown \/ AcceptFails
    BY <2>1, DownInv DEF Shutdown, AcceptFails
  <2>2. CASE BeginTick \/ EndAccept \/ EndPoll
    BY <2>2, PhaseInv
  <2>3. CASE Accept \/ ReapAccept \/ ReapData \/ ReapEnd \/ Submit
    BY <2>3, AcceptInv, ReapAcceptInv, ReapDataInv, ReapEndInv, SubmitInv
  <2>4. CASE Recv \/ RecvEnd \/ Wait \/ Drop
    BY <2>4, RecvInv, WaitInv, DropInv
  <2>5. CASE AnswerAndClose \/ Answer \/ Defer \/ KeepOpen
    BY <2>5, AnswerAndCloseInv, AnswerInv, DeferInv, KeepOpenInv
  <2>. QED BY <1>3, <2>1, <2>2, <2>3, <2>4, <2>5 DEF Serve
<1>4. CASE Handlers
  BY <1>4, HandlerReadsInv, ScriptClosesInv, HandlerEndsInv DEF Handlers
<1>. QED BY <1>1, <1>2, <1>3, <1>4 DEF Next

LEMMA SpecInv == ASSUME ~WsCloses PROVE Spec => []IInv
<1>1. IInv /\ UNCHANGED vars => IInv'
  <2>. SUFFICES ASSUME IInv, UNCHANGED vars PROVE IInv'
    OBVIOUS
  <2>1. TypeOK'
    BY SameTypes DEF IInv, TypeOK, vars, build, server, kernel, clients
  <2>2. Kinds' /\ EachPolledOnce'
    BY SamePhase DEF vars, build, server, kernel, clients
  <2>3. SameEntries /\ UNCHANGED <<uring, file, deferred, handed, backlog, arrived, inflight, cqes, replies, taken>>
    BY DEF SameEntries, vars, build, server, kernel, clients
  <2>4. Ownership' /\ Bound' /\ Operations' /\ Order'
    BY <2>3, QuietStep
  <2>. QED BY <2>1, <2>2, <2>4 DEF IInv
<1>2. IInv /\ [Next]_vars => IInv'
  BY <1>1, NextInv
<1>. QED BY <1>2, InitInv, PTL DEF Spec

\* Who has a descriptor is told by where it is.
LEMMA OwnersFacts ==
  ASSUME IInv, NEW f \in Fds
  PROVE  Cardinality(Owners(f)) = IF file[f] = None THEN 0 ELSE 1
<1>. DEFINE P == {<<"pool", i>> : i \in {j \in DOMAIN pool : pool[j].fd = f}}
            T == {<<"handler", d>> : d \in {e \in deferred : e.fd = f}}
            S == {<<"script", g>> : g \in handed \cap {f}}
            N == {<<"accepted", i>> : i \in {j \in DOMAIN cqes : cqes[j].op = "accept" /\ cqes[j].fd = f}}
<1>. USE DEF IInv
<1>1. Owners(f) = P \cup T \cup S \cup N
  BY DEF Owners
<1>2. DOMAIN pool = 1 .. Len(pool) /\ DOMAIN cqes = 1 .. Len(cqes)
  BY PoolFacts, CompletionFacts, LenProperties
<1>3. (f \notin PoolFds => P = {}) /\ (f \in PoolFds => \E x : P = {x})
  <2>1. f \notin PoolFds => P = {}
    BY <1>2 DEF PoolFds
  <2>2. ASSUME f \in PoolFds PROVE \E x : P = {x}
    <3>1. PICK i \in 1 .. Len(pool) : pool[i].fd = f
      BY <2>2 DEF PoolFds
    <3>2. {j \in DOMAIN pool : pool[j].fd = f} = {i}
      BY <1>2, <3>1 DEF Ownership, Single
    <3>3. P = {<<"pool", i>>}
      BY <3>2
    <3>. QED BY <3>3
  <2>. QED BY <2>1, <2>2
<1>4. (f \notin TaskFds => T = {}) /\ (f \in TaskFds => \E x : T = {x})
  <2>1. f \notin TaskFds => T = {}
    BY DEF TaskFds
  <2>2. ASSUME f \in TaskFds PROVE \E x : T = {x}
    <3>1. PICK d \in deferred : d.fd = f
      BY <2>2 DEF TaskFds
    <3>2. {e \in deferred : e.fd = f} = {d}
      BY <3>1 DEF Ownership, Single
    <3>3. T = {<<"handler", d>>}
      BY <3>2
    <3>. QED BY <3>3
  <2>. QED BY <2>1, <2>2
<1>5. (f \notin handed => S = {}) /\ (f \in handed => \E x : S = {x})
  <2>1. f \in handed => S = {<<"script", f>>}
    OBVIOUS
  <2>. QED BY <2>1
<1>6. (f \notin NewFds => N = {}) /\ (f \in NewFds => \E x : N = {x})
  <2>1. f \notin NewFds => N = {}
    BY <1>2 DEF NewFds, Accepted
  <2>2. ASSUME f \in NewFds PROVE \E x : N = {x}
    <3>1. PICK i \in 1 .. Len(cqes) : Accepted(i) /\ cqes[i].fd = f
      BY <2>2 DEF NewFds
    <3>2. \A j \in 1 .. Len(cqes) : Accepted(j) /\ cqes[j].fd = f => j = i
      BY <3>1 DEF Ownership, Known, Operations
    <3>3. {j \in DOMAIN cqes : cqes[j].op = "accept" /\ cqes[j].fd = f} = {i}
      BY <1>2, <3>1, <3>2 DEF Accepted
    <3>4. N = {<<"accepted", i>>}
      BY <3>3
    <3>. QED BY <3>4
  <2>. QED BY <2>1, <2>2
<1>. HIDE DEF P, T, S, N
<1>7. CASE file[f] = None
  <2>1. f \notin OpenFds
    BY <1>7 DEF OpenFds
  <2>2. Owners(f) = {}
    BY <1>1, <1>3, <1>4, <1>5, <1>6, <2>1 DEF Ownership, Partition
  <2>. QED BY <1>7, <2>2, FS_EmptySet
<1>8. CASE file[f] # None
  <2>1. f \in OpenFds
    BY <1>8 DEF OpenFds
  <2>2. \/ f \in PoolFds /\ f \notin TaskFds /\ f \notin handed /\ f \notin NewFds
        \/ f \notin PoolFds /\ f \in TaskFds /\ f \notin handed /\ f \notin NewFds
        \/ f \notin PoolFds /\ f \notin TaskFds /\ f \in handed /\ f \notin NewFds
        \/ f \notin PoolFds /\ f \notin TaskFds /\ f \notin handed /\ f \in NewFds
    BY <2>1 DEF Ownership, Partition
  <2>3. \E x : Owners(f) = {x}
    BY <1>1, <1>3, <1>4, <1>5, <1>6, <2>2
  <2>. QED BY <1>8, <2>3, FS_Singleton
<1>. QED BY <1>7, <1>8

\* In every behaviour in which handlers leave their sockets to the server, a descriptor
\* that is open has one owner and one that is closed none, the requests of a connection
\* are answered once each and in their order, and a pass polls every connection once:
\* pending_pool_add(), pending_pool_remove(), poll_pending_connections(), call_handler()
\* and http_finalize_deferred_response(), for any connections and descriptors.
THEOREM ConnectionsAreSound == ~WsCloses => (Spec => []HttpInv)
<1>. SUFFICES ASSUME ~WsCloses PROVE Spec => []HttpInv
  OBVIOUS
<1>1. IInv => HttpInv
  <2>1. IInv => OneOwner
    BY OwnersFacts DEF OneOwner
  <2>. QED BY <2>1 DEF IInv, Order, HttpInv
<1>. QED BY <1>1, SpecInv, PTL

\* A step that closes no descriptor of another's takes none from a pending connection.
LEMMA OthersClose ==
  ASSUME IInv, NEW i \in 1 .. Len(pool), NEW f \in Fds, Close(f), pool[i].fd # f
  PROVE  file'[pool[i].fd] = pool[i].conn
<1>1. pool[i].fd \in Fds /\ file[pool[i].fd] = pool[i].conn
  BY StillThere DEF IInv, Ownership, Known
<1>. QED BY <1>1, CloseFacts DEF IInv

\* Why connection number i is closed.
Cause(i) == \/ pool[i].conn \in gone \/ pool[i].quiet
            \/ replies'[pool[i].conn] # replies[pool[i].conn] \/ phase' = "down"

\* The connection that is polled is the one that is closed.
LEMMA PolledCloses ==
  ASSUME IInv, Round \/ Read, Close(Polled.fd), NEW i \in 1 .. Len(pool), file'[pool[i].fd] # pool[i].conn
  PROVE  i = index /\ pool[i] = Polled /\ pool[i].conn \in Conns
<1>1. index \in 1 .. Len(pool) /\ Polled = pool[index] /\ Polled.fd \in Fds /\ pool[i].conn \in Conns
  BY RoundFacts, PoolFacts DEF IInv
<1>2. pool[i].fd = Polled.fd
  BY <1>1, OthersClose
<1>. QED BY <1>1, <1>2 DEF IInv, Ownership, Single

LEMMA CloseCause ==
  ASSUME ~WsCloses, IInv, Next, ~uring, NEW i \in 1 .. Len(pool), file'[pool[i].fd] # pool[i].conn
  PROVE  Cause(i)
<1>. USE DEF IInv
<1>1. /\ pool[i].fd \in Fds /\ pool[i].fd \in PoolFds /\ file[pool[i].fd] = pool[i].conn /\ pool[i].conn \in Conns
      /\ pool[i].conn # None
  BY StillThere, PoolFacts, Different DEF Ownership, Known
<1>2. file' # file
  BY <1>1
<1>3. phase # "reap"
  BY DEF Kinds
<1>4. CASE Environment
  BY <1>2, <1>4 DEF Environment, Connect, SendRequest, HangUp, Signal, TimePasses, kernel
<1>5. CASE Kernel
  BY <1>2, <1>5 DEF Kernel, KernelAccept, KernelRecv, KernelEnd
<1>6. CASE Handlers
  <2>1. CASE \E d \in deferred : HandlerReads(d)
    BY <1>2, <2>1 DEF HandlerReads, kernel
  <2>2. CASE \E d \in deferred : HandlerEnds(d)
    <3>1. PICK d \in deferred : Close(d.fd)
      BY <2>2 DEF HandlerEnds
    <3>2. d.fd \in Fds /\ pool[i].fd # d.fd
      BY TaskFacts, Different
    <3>. QED BY <3>1, <3>2, OthersClose
  <2>3. CASE \E f \in Fds : ScriptCloses(f)
    <3>1. PICK f \in Fds : f \in handed /\ Close(f)
      BY <2>3 DEF ScriptCloses
    <3>2. pool[i].fd # f
      BY <1>1, <3>1 DEF Ownership, Partition
    <3>. QED BY <3>1, <3>2, OthersClose
  <2>. QED BY <1>6, <2>1, <2>2, <2>3 DEF Handlers
<1>7. CASE Serve
  <2>1. CASE Shutdown \/ AcceptFails
    BY <2>1 DEF Shutdown, AcceptFails, Down, Cause
  <2>2. CASE Accept
    <3>1. PICK c \in backlog, f \in Fds : Lowest(f) /\ Add(f, c)
      BY <2>2 DEF Accept
    <3>2. c \in Conns /\ f \notin PoolFds /\ pool[i].fd # f
      BY <1>1, <3>1, NewFacts
    <3>3. \/ file' = [file EXCEPT ![f] = c]
          \/ file' = [file EXCEPT ![f] = None]
      BY <3>1 DEF Add
    <3>4. file'[pool[i].fd] = file[pool[i].fd]
      BY <1>1, <3>2, <3>3 DEF TypeOK, KernelOK
    <3>. QED BY <1>1, <3>4
  <2>3. CASE RecvEnd
    <3>1. (Round \/ Read) /\ Close(Polled.fd) /\ Polled.conn \in gone
      BY <2>3 DEF RecvEnd
    <3>. QED BY <3>1, PolledCloses DEF Cause
  <2>4. CASE Drop
    <3>1. (Round \/ Read) /\ Close(Polled.fd) /\ Polled.quiet
      BY <2>4 DEF Drop
    <3>. QED BY <3>1, PolledCloses DEF Cause
  <2>5. CASE AnswerAndClose
    <3>1. /\ (Round \/ Read) /\ Close(Polled.fd) /\ Polled.buf # << >>
          /\ Reply(Polled.fd, Head(Polled.buf))
      BY <2>5 DEF AnswerAndClose, Framed
    <3>2. pool[i] = Polled
      BY <3>1, PolledCloses
    <3>3. replies' = [replies EXCEPT ![pool[i].conn] = Append(@, Head(pool[i].buf))]
      BY <1>1, <3>1, <3>2 DEF Reply
    <3>4. /\ replies[pool[i].conn] \in Seq(Requests) /\ Head(pool[i].buf) \in Requests
      BY <3>1, <3>2, FirstFacts
    <3>5. Append(replies[pool[i].conn], Head(pool[i].buf)) # replies[pool[i].conn]
      BY <3>4, AppendProperties, LenProperties
    <3>6. replies'[pool[i].conn] = Append(replies[pool[i].conn], Head(pool[i].buf))
      BY <1>1, <3>3 DEF TypeOK, ClientsOK
    <3>7. replies'[pool[i].conn] # replies[pool[i].conn]
      BY ONLY <3>5, <3>6
    <3>. QED BY <3>7 DEF Cause
  <2>6. CASE ReapAccept \/ ReapData \/ ReapEnd \/ Submit
    BY <1>3, <2>6 DEF ReapAccept, ReapData, ReapEnd, Submit, Seen
  <2>7. CASE BeginTick \/ EndAccept \/ Recv \/ Wait \/ Answer \/ Defer \/ KeepOpen \/ EndPoll
    BY <1>2, <2>7 DEF BeginTick, EndAccept, Recv, Wait, Answer, Defer, KeepOpen, EndPoll, kernel
  <2>. QED BY <1>7, <2>1, <2>2, <2>3, <2>4, <2>5, <2>6, <2>7 DEF Serve
<1>. QED BY <1>4, <1>5, <1>6, <1>7 DEF Next

\* Without io_uring, http_serve_tick() and the handlers close a pending connection only
\* when its client has closed it or was silent for too long, behind an answer to it, or
\* with the server, for any connections and descriptors.
THEOREM NoneClosedForAnother == ~WsCloses => (Spec => ClosedForCause)
<1>. SUFFICES ASSUME ~WsCloses PROVE Spec => ClosedForCause
  OBVIOUS
<1>. DEFINE Closing ==
       ~uring => \A i \in DOMAIN pool :
         LET c == pool[i].conn
         IN  file'[pool[i].fd] # c => \/ c \in gone \/ pool[i].quiet
                                      \/ replies'[c] # replies[c] \/ phase' = "down"
<1>1. IInv /\ [Next]_vars => [Closing]_vars
  <2>. SUFFICES ASSUME IInv, Next, ~uring, NEW i \in 1 .. Len(pool), file'[pool[i].fd] # pool[i].conn
                PROVE  Cause(i)
    BY PoolFacts DEF IInv, Cause
  <2>. QED BY CloseCause
<1>. QED BY <1>1, SpecInv, PTL DEF Spec, ClosedForCause
=============================================================================
