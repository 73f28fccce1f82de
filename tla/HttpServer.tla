----------------------------- MODULE HttpServer -----------------------------
(***************************************************************************)
(* The server loop of src/src/lib_http.c: the pool of pending connections, *)
(* which each tick of http.serve() polls once, from the last to the first; *)
(* the handlers, which run within the poll, and those that give way, which *)
(* become tasks that own their connection (call_handler(),                 *)
(* http_finalize_deferred_response()).                                     *)
(*                                                                         *)
(* Connections without TLS are read through io_uring where the kernel has  *)
(* it: a recv of the next bytes is always in flight, and its completion    *)
(* says for which descriptor it was, not for which connection.  Otherwise  *)
(* epoll says which descriptors to read.                                   *)
(*                                                                         *)
(* A tick runs in the server's task and no other task runs in it, but the  *)
(* clients and the kernel do.  Requests are numbered; one counts as sent   *)
(* when the next recv can take all that is left of it, and a part of one   *)
(* is received as no request.                                              *)
(***************************************************************************)
EXTENDS Integers, Sequences, FiniteSets

CONSTANTS Conns,       \* the connections that clients make
          Fds,         \* the numbers of descriptors
          Caps,        \* what MAX_PENDING_CONNS may be: {1024} in the code
          MaxRequests, \* CONN_MAX_REQUESTS: 1000 in the code
          MaxSent,     \* bound on the requests of each connection
          Modes,       \* whether io_uring may be there: a set of Booleans
          WsCloses,    \* whether handlers that are tasks call ws_close()
          Junk,        \* bytes that nobody sent
          None

ASSUME HttpServerAssumption ==
  /\ Fds \subseteq Nat
  /\ Caps \subseteq Nat /\ MaxRequests \in Nat /\ MaxSent \in [Conns -> Nat]
  /\ Modes \subseteq BOOLEAN /\ WsCloses \in BOOLEAN
  /\ None \notin Conns
  /\ Junk \notin [conn : Conns, n : Nat]

VARIABLES uring,    \* use_io_uring
          cap,      \* MAX_PENDING_CONNS
          phase,    \* where the server's task is
          index,    \* the connection that is polled
          ready,    \* the descriptors that epoll reported
          pool,     \* the pending connections
          deferred, \* the handlers that are tasks: http_response_fd
          handed,   \* the descriptors left to scripts: _keep_open
          stopping, \* g_shutdown_flag
          file,     \* file[f]: the connection that descriptor f is open on, or None
          backlog,  \* the connections to be accepted
          inflight, \* the recv operations of io_uring
          cqes,     \* its completions that were not seen yet
          arrived,  \* the connections that were made
          sent,     \* how many requests the client sent
          taken,    \* how many of them were read from the socket
          gone,     \* the connections that their client closed
          replies,  \* history: the requests that were answered
          todo      \* history: the connections that this pass still has to poll

build == <<uring, cap>>
server == <<phase, index, ready, pool, deferred, handed>>
kernel == <<file, backlog, inflight, cqes>>
clients == <<arrived, sent, gone>>
vars == <<build, server, stopping, kernel, clients, taken, replies, todo>>

Request(c, n) == [conn |-> c, n |-> n]

Init == /\ uring \in Modes
        /\ cap \in Caps
        /\ phase = "between"
        /\ index = 0
        /\ ready = {}
        /\ pool = << >>
        /\ deferred = {}
        /\ handed = {}
        /\ stopping = FALSE
        /\ file = [f \in Fds |-> None]
        /\ backlog = {}
        /\ inflight = {}
        /\ cqes = << >>
        /\ arrived = {}
        /\ sent = [c \in Conns |-> 0]
        /\ taken = [c \in Conns |-> 0]
        /\ gone = {}
        /\ replies = [c \in Conns |-> << >>]
        /\ todo = {}

-----------------------------------------------------------------------------
(* The clients, and what else may happen at any time. *)

Connect(c) == /\ c \notin arrived
              /\ phase # "down"
              /\ arrived' = arrived \cup {c}
              /\ backlog' = backlog \cup {c}
              /\ UNCHANGED <<build, server, stopping, file, inflight, cqes, sent, gone, taken,
                             replies, todo>>

SendRequest(c) == /\ c \in arrived \ gone
                  /\ sent[c] < MaxSent[c]
                  /\ sent' = [sent EXCEPT ![c] = @ + 1]
                  /\ UNCHANGED <<build, server, stopping, kernel, arrived, gone, taken, replies,
                                 todo>>

HangUp(c) == /\ c \in arrived \ gone
             /\ gone' = gone \cup {c}
             /\ UNCHANGED <<build, server, stopping, kernel, arrived, sent, taken, replies, todo>>

\* SIGINT or SIGTERM; the flag is read when a tick begins.
Signal == /\ phase = "between"
          /\ ~stopping
          /\ stopping' = TRUE
          /\ UNCHANGED <<build, server, kernel, clients, taken, replies, todo>>

\* CONN_IDLE_TIMEOUT_SEC pass without a byte from connection i: it matters to one
\* that has no whole request, and the time is read when a poll begins.
TimePasses(i) == /\ phase = "between"
                 /\ ~pool[i].quiet /\ pool[i].buf = << >>
                 /\ pool' = [pool EXCEPT ![i].quiet = TRUE]
                 /\ UNCHANGED <<build, phase, index, ready, deferred, handed, stopping, kernel, clients,
                                taken, replies, todo>>

-----------------------------------------------------------------------------
(* The pool. *)

\* The number that accept() gives.
Lowest(f) == file[f] = None /\ \A g \in Fds : file[g] = None => f <= g

Entry(f, c) == [fd |-> f, conn |-> c, buf |-> << >>, count |-> 0,
                quiet |-> FALSE, pending |-> FALSE]

\* pending_pool_add(): descriptor f, just opened on c, is closed if the pool is full.
Add(f, c) == IF Len(pool) < cap
               THEN /\ pool' = Append(pool, Entry(f, c))
                    /\ file' = [file EXCEPT ![f] = c]
               ELSE /\ file' = [file EXCEPT ![f] = None]
                    /\ UNCHANGED pool

\* pending_pool_remove(): the last one takes the place of number i.
Without(i) == SubSeq([pool EXCEPT ![i] = pool[Len(pool)]], 1, Len(pool) - 1)

Close(f) == file' = [file EXCEPT ![f] = None]

\* http_cleanup_pending_conns(), by a shutdown or when the server's task is reaped.
\* The handlers that are tasks go on.
Down == /\ phase' = "down"
        /\ pool' = << >>
        /\ file' = [f \in Fds |-> IF \E i \in DOMAIN pool : pool[i].fd = f THEN None ELSE file[f]]
        /\ backlog' = {}
        /\ inflight' = {}
        /\ UNCHANGED <<build, index, ready, deferred, handed, stopping, cqes, clients, taken, replies, todo>>

-----------------------------------------------------------------------------
(* http_serve_tick(): shutting down, accepting. *)

Shutdown == phase = "between" /\ stopping /\ Down

BeginTick == /\ phase = "between"
             /\ ~stopping
             /\ phase' = IF uring THEN "reap" ELSE "accept"
             /\ UNCHANGED <<build, index, ready, pool, deferred, handed, stopping, kernel, clients, taken,
                            replies, todo>>

Accept == \E c \in backlog, f \in Fds :
  /\ phase = "accept"
  /\ Lowest(f)
  /\ Add(f, c)
  /\ backlog' = backlog \ {c}
  /\ UNCHANGED <<build, phase, index, ready, deferred, handed, stopping, inflight, cqes, clients, taken,
                 replies, todo>>

\* An error other than EAGAIN, when the process has no descriptor left for one: the
\* server's task dies.
AcceptFails == phase = "accept" /\ backlog # {} /\ Down

\* What recv gives of c when it reads as far as request m.
Sent(c, m) == [k \in 1 .. m - taken[c] |-> Request(c, taken[c] + k)]

\* epoll_wait(): all that can be read, parts of requests included.
Readable(c) == taken[c] < sent[c] \/ c \in gone

BeginPoll == /\ phase' = "poll"
             /\ index' = Len(pool)
             /\ todo' = {pool[i].conn : i \in DOMAIN pool}

EndAccept == \E parts \in SUBSET {pool[i].fd : i \in DOMAIN pool} :
  /\ phase = "accept"
  /\ backlog = {}
  /\ ready' = parts \cup {pool[i].fd : i \in {j \in DOMAIN pool : Readable(pool[j].conn)}}
  /\ BeginPoll
  /\ UNCHANGED <<build, pool, deferred, handed, stopping, kernel, clients, taken, replies>>

-----------------------------------------------------------------------------
(* io_uring.  Accepts are always in flight. *)

Completion(op, f, c, data) == [op |-> op, fd |-> f, conn |-> c, data |-> data]

KernelAccept(c) == \E f \in Fds :
  /\ uring /\ phase # "down"
  /\ c \in backlog
  /\ Lowest(f)
  /\ file' = [file EXCEPT ![f] = c]
  /\ backlog' = backlog \ {c}
  /\ cqes' = Append(cqes, Completion("accept", f, c, << >>))
  /\ UNCHANGED <<build, server, stopping, inflight, clients, taken, replies, todo>>

\* A recv in flight keeps the socket, whatever becomes of its descriptor.
KernelRecv(o) == \E m \in taken[o.conn] .. sent[o.conn] :
  /\ o \in inflight
  /\ m > taken[o.conn] \/ (m = sent[o.conn] /\ o.conn \notin gone)
  /\ taken' = [taken EXCEPT ![o.conn] = m]
  /\ inflight' = inflight \ {o}
  /\ cqes' = Append(cqes, Completion("data", o.fd, o.conn, Sent(o.conn, m)))
  /\ UNCHANGED <<build, server, stopping, file, backlog, clients, replies, todo>>

KernelEnd(o) == /\ o \in inflight
                /\ o.conn \in gone /\ taken[o.conn] = sent[o.conn]
                /\ inflight' = inflight \ {o}
                /\ cqes' = Append(cqes, Completion("end", o.fd, o.conn, << >>))
                /\ UNCHANGED <<build, server, stopping, file, backlog, clients, taken, replies, todo>>

Seen(op) == phase = "reap" /\ cqes # << >> /\ Head(cqes).op = op /\ cqes' = Tail(cqes)

ReapAccept == /\ Seen("accept")
              /\ Add(Head(cqes).fd, Head(cqes).conn)
              /\ UNCHANGED <<build, phase, index, ready, deferred, handed, stopping, backlog, inflight,
                             clients, taken, replies, todo>>

\* The pending connection that has the descriptor of the completion.
Owner(i) == i \in DOMAIN pool /\ pool[i].fd = Head(cqes).fd

\* What the completion adds to the buffer of i: the bytes were written to the buffer
\* that the recv was submitted with.
Bytes(i) == IF pool[i].conn = Head(cqes).conn THEN Head(cqes).data ELSE <<Junk>>

\* Mutant of ReapData: io_uring_pending is not reset.
ReapDataPending == /\ Seen("data")
                   /\ pool' = [i \in DOMAIN pool |->
                                 IF Owner(i) THEN [pool[i] EXCEPT !.buf = @ \o Bytes(i),
                                                                  !.quiet = FALSE]
                                             ELSE pool[i]]
                   /\ UNCHANGED <<build, phase, index, ready, deferred, handed, stopping, file, backlog,
                                  inflight, clients, taken, replies, todo>>

ReapData == /\ Seen("data")
            /\ pool' = [i \in DOMAIN pool |->
                          IF Owner(i) THEN [pool[i] EXCEPT !.buf = @ \o Bytes(i),
                                                           !.quiet = FALSE, !.pending = FALSE]
                                      ELSE pool[i]]
            /\ UNCHANGED <<build, phase, index, ready, deferred, handed, stopping, file, backlog, inflight,
                           clients, taken, replies, todo>>

ReapEnd == /\ Seen("end")
           /\ IF \E i \in DOMAIN pool : Owner(i)
                THEN \E i \in DOMAIN pool : Owner(i) /\ pool' = Without(i) /\ Close(pool[i].fd)
                ELSE UNCHANGED <<pool, file>>
           /\ UNCHANGED <<build, phase, index, ready, deferred, handed, stopping, backlog, inflight,
                          clients, taken, replies, todo>>

\* No completion is left: a recv for every connection that has none.
Submit == /\ phase = "reap"
          /\ cqes = << >>
          /\ inflight' = inflight \cup {[fd |-> pool[i].fd, conn |-> pool[i].conn] :
                                          i \in {j \in DOMAIN pool : ~pool[j].pending}}
          /\ pool' = [i \in DOMAIN pool |-> [pool[i] EXCEPT !.pending = TRUE]]
          /\ BeginPoll
          /\ UNCHANGED <<build, ready, deferred, handed, stopping, file, backlog, cqes, clients, taken, replies>>

-----------------------------------------------------------------------------
(* poll_pending_connections(): the round for connection number index. *)

Polled == pool[index]
Round == phase = "poll" /\ index > 0

\* It has been read, if there was something to read.
Read == phase = "frame" \/ (Round /\ (uring \/ Polled.fd \notin ready))

NextRound == /\ phase' = "poll"
             /\ index' = index - 1
             /\ todo' = todo \ {Polled.conn}

Remove == pool' = Without(index) /\ NextRound

Recv == LET c == Polled.conn IN
  /\ Round
  /\ ~uring /\ Polled.fd \in ready
  /\ \E m \in taken[c] .. sent[c] :
       /\ m > taken[c] \/ (m = sent[c] /\ c \notin gone)
       /\ pool' = [pool EXCEPT ![index] = [Polled EXCEPT !.buf = @ \o Sent(c, m), !.quiet = FALSE]]
       /\ taken' = [taken EXCEPT ![c] = m]
  /\ phase' = "frame"
  /\ UNCHANGED <<build, index, ready, deferred, handed, stopping, kernel, clients, replies, todo>>

RecvEnd == LET c == Polled.conn IN
  /\ Round
  /\ ~uring /\ Polled.fd \in ready
  /\ c \in gone /\ taken[c] = sent[c]
  /\ Close(Polled.fd)
  /\ Remove
  /\ UNCHANGED <<build, ready, deferred, handed, stopping, backlog, inflight, cqes, clients, taken, replies>>

\* No whole request in the buffer.
Wait == /\ Read
        /\ Polled.buf = << >> /\ ~Polled.quiet
        /\ NextRound
        /\ UNCHANGED <<build, ready, pool, deferred, handed, stopping, kernel, clients, taken, replies>>

\* Mutant of Drop: the descriptor is read after the last entry has taken the place.
DropSwapped == /\ Read
               /\ Polled.buf = << >> /\ Polled.quiet
               /\ Close(pool[Len(pool)].fd)
               /\ Remove
               /\ UNCHANGED <<build, ready, deferred, handed, stopping, backlog, inflight, cqes, clients,
                              taken, replies>>

Drop == /\ Read
        /\ Polled.buf = << >> /\ Polled.quiet
        /\ Close(Polled.fd)
        /\ Remove
        /\ UNCHANGED <<build, ready, deferred, handed, stopping, backlog, inflight, cqes, clients, taken, replies>>

Framed == Read /\ Polled.buf # << >>

\* The task of the handler of e's first request.
Task(e) == [fd |-> e.fd, conn |-> e.conn, request |-> Head(e.buf)]

Reply(f, r) == replies' = [replies EXCEPT ![file[f]] = Append(@, r)]

\* Too large a header or body, no HTTP, "Connection: close", the last request that is
\* allowed, a streamed response: the connection is closed behind the answer.
AnswerAndClose == /\ Framed
                  /\ Reply(Polled.fd, Head(Polled.buf))
                  /\ Close(Polled.fd)
                  /\ Remove
                  /\ UNCHANGED <<build, ready, deferred, handed, stopping, backlog, inflight, cqes,
                                 clients, taken>>

\* Mutant of Answer: the handler's task keeps its http_response_fd.
AnswerTwice == /\ Framed
               /\ Polled.count + 1 < MaxRequests
               /\ Reply(Polled.fd, Head(Polled.buf))
               /\ deferred' = deferred \cup {Task(Polled)}
               /\ pool' = [pool EXCEPT ![index] = [Polled EXCEPT !.buf = Tail(@), !.count = @ + 1,
                                                                    !.quiet = FALSE]]
               /\ NextRound
               /\ UNCHANGED <<build, ready, handed, stopping, kernel, clients, taken>>

\* The handler's response, 404, or the 500 of a handler that failed.
Answer == /\ Framed
          /\ Polled.count + 1 < MaxRequests
          /\ Reply(Polled.fd, Head(Polled.buf))
          /\ pool' = [pool EXCEPT ![index] = [Polled EXCEPT !.buf = Tail(@), !.count = @ + 1,
                                                               !.quiet = FALSE]]
          /\ NextRound
          /\ UNCHANGED <<build, ready, deferred, handed, stopping, kernel, clients, taken>>

\* The handler gives way: it is a task now, and the connection is its own.
Defer == /\ Framed
         /\ deferred' = deferred \cup {Task(Polled)}
         /\ Remove
         /\ UNCHANGED <<build, ready, handed, stopping, kernel, clients, taken, replies>>

\* It has answered itself, as a WebSocket, and asks to leave the descriptor open.
KeepOpen == /\ Framed
            /\ Reply(Polled.fd, Head(Polled.buf))
            /\ handed' = handed \cup {Polled.fd}
            /\ Remove
            /\ UNCHANGED <<build, ready, deferred, stopping, kernel, clients, taken>>

EndPoll == /\ phase = "poll"
           /\ index = 0
           /\ phase' = "between"
           /\ ready' = {}
           /\ UNCHANGED <<build, index, pool, deferred, handed, stopping, kernel, clients, taken,
                          replies, todo>>

-----------------------------------------------------------------------------
(* The handlers that are tasks: they have their turns between the ticks. *)

Turns == phase \in {"between", "down"}

\* http.read_socket(), http.connection_read().
HandlerReads(d) == LET c == file[d.fd] IN
  /\ Turns /\ d \in deferred
  /\ c # None
  /\ taken[c] < sent[c]
  /\ taken' = [taken EXCEPT ![c] = @ + 1]
  /\ UNCHANGED <<build, server, stopping, kernel, clients, replies, todo>>

\* http.close_socket(), from ws_close().
ScriptCloses(f) == /\ Turns
                   /\ f \in handed \/ (WsCloses /\ \E d \in deferred : d.fd = f)
                   /\ Close(f)
                   /\ handed' = handed \ {f}
                   /\ UNCHANGED <<build, phase, index, ready, pool, deferred, stopping, backlog,
                                  inflight, cqes, clients, taken, replies, todo>>

\* It ends, or fails: http_finalize_deferred_response().  A WebSocket that it has
\* closed itself gets no answer any more.
HandlerEnds(d) == /\ Turns /\ d \in deferred
                  /\ deferred' = deferred \ {d}
                  /\ IF file[d.fd] = d.conn THEN Reply(d.fd, d.request) ELSE UNCHANGED replies
                  /\ Close(d.fd)
                  /\ UNCHANGED <<build, phase, index, ready, pool, handed, stopping, backlog,
                                 inflight, cqes, clients, taken, todo>>

-----------------------------------------------------------------------------
Environment == \/ \E c \in Conns : Connect(c) \/ SendRequest(c) \/ HangUp(c)
               \/ Signal
               \/ \E i \in DOMAIN pool : TimePasses(i)

Kernel == \/ \E c \in Conns : KernelAccept(c)
          \/ \E o \in inflight : KernelRecv(o) \/ KernelEnd(o)

Serve == \/ Shutdown \/ BeginTick \/ Accept \/ AcceptFails \/ EndAccept
         \/ ReapAccept \/ ReapData \/ ReapEnd \/ Submit
         \/ Recv \/ RecvEnd \/ Wait \/ Drop
         \/ AnswerAndClose \/ Answer \/ Defer \/ KeepOpen \/ EndPoll

Handlers == \/ \E d \in deferred : HandlerReads(d) \/ HandlerEnds(d)
            \/ \E f \in Fds : ScriptCloses(f)

Next == Environment \/ Kernel \/ Serve \/ Handlers

Spec == Init /\ [][Next]_vars

\* The scheduler gives the tasks their turns between the ticks (EveryTaskRuns of module
\* Scheduler), the kernel does what it was asked, and handlers end.
FairSpec ==
  /\ Spec
  /\ WF_vars(Serve)
  /\ \A c \in Conns :
       /\ WF_vars(KernelAccept(c))
       /\ WF_vars(\E o \in inflight : o.conn = c /\ (KernelRecv(o) \/ KernelEnd(o)))
       /\ SF_vars(\E d \in deferred : file[d.fd] = c /\ HandlerEnds(d))

-----------------------------------------------------------------------------
(* Properties. *)

Requests == {Junk} \cup [conn : Conns, n : Nat]
Entries == [fd : Fds, conn : Conns, buf : Seq(Requests), count : 0 .. MaxRequests,
            quiet : BOOLEAN, pending : BOOLEAN]

ServerOK == /\ uring \in BOOLEAN /\ cap \in Nat /\ stopping \in BOOLEAN
            /\ phase \in {"between", "accept", "reap", "poll", "frame", "down"}
            /\ index \in Nat
            /\ phase = "frame" => index > 0
            /\ phase \in {"poll", "frame"} => index <= Len(pool)
            /\ ready \subseteq Fds
            /\ pool \in Seq(Entries)
            /\ Len(pool) <= cap
            /\ deferred \subseteq [fd : Fds, conn : Conns, request : Requests]
            /\ handed \subseteq Fds

KernelOK == /\ file \in [Fds -> Conns \cup {None}]
            /\ backlog \subseteq Conns
            /\ inflight \subseteq [fd : Fds, conn : Conns]
            /\ cqes \in Seq([op : {"accept", "data", "end"}, fd : Fds, conn : Conns,
                              data : Seq(Requests)])

ClientsOK == /\ arrived \subseteq Conns /\ gone \subseteq Conns /\ todo \subseteq Conns
             /\ sent \in [Conns -> Nat] /\ taken \in [Conns -> Nat]
             /\ \A c \in Conns : taken[c] <= sent[c]
             /\ replies \in [Conns -> Seq(Requests)]

TypeOK == ServerOK /\ KernelOK /\ ClientsOK

\* Who has descriptor f: connections of the pool, handlers, scripts, completions of
\* accept.
Owners(f) == {<<"pool", i>> : i \in {j \in DOMAIN pool : pool[j].fd = f}}
             \cup {<<"handler", d>> : d \in {e \in deferred : e.fd = f}}
             \cup {<<"script", g>> : g \in handed \cap {f}}
             \cup {<<"accepted", i>> : i \in {j \in DOMAIN cqes : cqes[j].op = "accept"
                                                                  /\ cqes[j].fd = f}}

\* A descriptor that is open has one owner, who may close it, and one that is closed
\* has none.  (With WsCloses it is false: the handler that closed its socket still has
\* the descriptor, and closes it again when it ends.)
OneOwner == \A f \in Fds : Cardinality(Owners(f)) = IF file[f] = None THEN 0 ELSE 1

\* The requests of a connection are answered in their order and once each, also when
\* they are pipelined and the last one's handler gives way; until bytes of another
\* connection come into its buffer.
RepliesInOrder ==
  \A c \in Conns : \A n \in DOMAIN replies[c] :
    (\A m \in 1 .. n : replies[c][m] # Junk) => replies[c][n] = Request(c, n)

\* A pass polls every connection once, although those that are closed in it change
\* places with others.
EachPolledOnce == CASE phase \in {"poll", "frame"} -> todo = {pool[i].conn : i \in 1 .. index}
                    [] phase = "between" -> todo = {}
                    [] OTHER -> TRUE

\* Descriptors have one owner, requests one answer, connections one poll in a pass.
HttpInv == TypeOK /\ OneOwner /\ RepliesInOrder /\ EachPolledOnce

\* All requests of a connection that is neither closed nor left to a script are
\* answered.  (The clients stop sending at some point here.)
Has(c) == c \in backlog \/ \E f \in Fds \ handed : file[f] = c
Answered == \A c \in Conns : []<>(Len(replies[c]) >= sent[c] \/ ~Has(c) \/ phase = "down")

\* A handler that is a task is the only one that reads from its connection.
HandlersRead == \A d \in deferred, o \in inflight : o.conn # file[d.fd]

\* Without io_uring, a pending connection is closed when its client has closed it or
\* sends nothing, behind an answer, or with the server, and never for another
\* connection's sake.  (Not so with io_uring, whose completions may be for a descriptor
\* that was closed meanwhile, or if WsCloses.)
ClosedForCause ==
  [][~uring => \A i \in DOMAIN pool :
       LET c == pool[i].conn
       IN  file'[pool[i].fd] # c => \/ c \in gone \/ pool[i].quiet
                                    \/ replies'[c] # replies[c] \/ phase' = "down"]_vars
=============================================================================
