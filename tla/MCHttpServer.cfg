\* Two clients, one of which pipelines, two descriptors and a pool of one or two, with
\* and without io_uring.  Handlers leave the closing of their sockets to the server.
SPECIFICATION FairSpec
CONSTANTS
  c1 = c1
  c2 = c2
  Conns = {c1, c2}
  Fds = {4, 5}
  Caps = {1, 2}
  MaxRequests = 2
  MaxSent <- Pipelined
  Modes = {TRUE, FALSE}
  WsCloses = FALSE
  Junk = Junk
  None = None
CHECK_DEADLOCK FALSE
INVARIANTS HttpInv
PROPERTIES ClosedForCause Answered
